----------------------- MODULE MissionLifecycleProofs -----------------------
(***************************************************************************)
(* Theorems about MissionLifecycle.                                        *)
(***************************************************************************)
EXTENDS MissionLifecycle, SequenceTheorems, WellFoundedInduction, TLAPS

-----------------------------------------------------------------------------
(* The proof of OneWriter: a command works under the system's lock in its  *)
(* own name, and nobody frees or takes a lock that another one holds.      *)

Fields == {"cmd", "at", "m", "seen", "read", "kind", "ret", "next", "result", "pre",
           "head", "flags"}

Locks == [Missions \cup {SystemLock} -> Procs \cup {"free", "stale"}]

\* Each command works under the system's lock.
WorksUnderLock(p) ==
  /\ DOMAIN proc[p] = Fields
  /\ Working(p) => lock[SystemLock] = p

WriterInv ==
  /\ lock \in Locks /\ DOMAIN proc = Procs
  /\ \A p \in Procs : WorksUnderLock(p)

\* What a step of p does to its place and to the system's lock.
Admissible(p) ==
  /\ lock' \in Locks
  /\ \E rec : proc' = [proc EXCEPT ![p] = rec] /\ DOMAIN rec = Fields
  /\ lock[SystemLock] \in {p, "free"} \/ lock'[SystemLock] = lock[SystemLock]
  /\ Working(p)' => lock'[SystemLock] = p

LEMMA AdmissibleKeeps ==
  ASSUME WriterInv, NEW p \in Procs, Admissible(p)
  PROVE  WriterInv'
<1> SUFFICES ASSUME NEW q \in Procs PROVE WorksUnderLock(q)'
  BY DEF WriterInv, Admissible
<1>1. CASE q = p
  BY <1>1 DEF WriterInv, WorksUnderLock, Admissible
<1>2. CASE q # p
  <2>1. proc'[q] = proc[q] /\ WorksUnderLock(q)
    BY <1>2 DEF WriterInv, Admissible
  <2>2. q \notin {"free", "stale"}
    BY LifecycleAssumption
  <2>3. lock[SystemLock] = q => lock'[SystemLock] = q
    BY <1>2, <2>2 DEF Admissible
  <2> QED
    BY <2>1, <2>3 DEF WorksUnderLock, Working
<1> QED
  BY <1>1, <1>2

\* A command that goes on, with its locks or before it has any.
LEMMA GoesOn ==
  ASSUME WriterInv, NEW p \in Procs, UNCHANGED lock,
         NEW rec, proc' = [proc EXCEPT ![p] = rec], DOMAIN rec = Fields,
         rec.cmd \in LockedCommands /\ rec.at \notin {"idle", "lock"} => Working(p)
  PROVE  WriterInv'
<1>1. proc'[p] = rec
  BY DEF WriterInv
<1>2. Working(p)' => lock'[SystemLock] = p
  BY <1>1 DEF Working, WriterInv, WorksUnderLock
<1> QED
  BY <1>2, AdmissibleKeeps DEF Admissible, WriterInv

\* The command ends, in whatever way its locks are given up.
LEMMA CommandExits ==
  ASSUME WriterInv, NEW p \in Procs, Exit(p), lock' \in Locks,
         lock[SystemLock] \in {p, "free"} \/ lock'[SystemLock] = lock[SystemLock]
  PROVE  WriterInv'
<1>1. proc' = [proc EXCEPT ![p] = Idle] /\ DOMAIN Idle = Fields /\ Idle.at = "idle"
  BY DEF Exit, Step, Idle, Fields
<1>2. ~Working(p)'
  BY <1>1 DEF Working, WriterInv
<1> QED
  BY <1>1, <1>2, AdmissibleKeeps DEF Admissible

\* The `finally` of the locked commands, and a crash.
LEMMA LocksGivenUp ==
  ASSUME WriterInv, NEW p \in Procs, Exit(p), lock' = Released(p) \/ lock' = Abandoned(p)
  PROVE  WriterInv'
<1>1. lock' \in Locks
  BY DEF Released, Abandoned, Locks, WriterInv
<1>2. lock[SystemLock] = p \/ lock'[SystemLock] = lock[SystemLock]
  BY DEF Released, Abandoned, Locks, WriterInv
<1> QED
  BY <1>1, <1>2, CommandExits

\* A command that takes the locks.
LEMMA LocksTaken ==
  ASSUME WriterInv, NEW p \in Procs, lock[SystemLock] = "free",
         lock' \in Locks, lock'[SystemLock] = p,
         NEW rec, proc' = [proc EXCEPT ![p] = rec], DOMAIN rec = Fields
  PROVE  WriterInv'
BY AdmissibleKeeps DEF Admissible

LEMMA BeginKeeps == ASSUME WriterInv, NEW p \in Procs, Begin(p) PROVE WriterInv'
<1>1. CASE UNCHANGED <<lock, proc>>
  BY <1>1 DEF WriterInv, WorksUnderLock, Working
<1>2. CASE \E rec : /\ proc' = [proc EXCEPT ![p] = rec] /\ DOMAIN rec = Fields
                    /\ rec.at = "lock" \/ rec.cmd = "sync"
                    /\ UNCHANGED lock
  BY <1>2, GoesOn DEF LockedCommands
<1>3. CASE OpenPreflight(p) \/ OpenRepair(p)
  BY <1>2, <1>3 DEF OpenPreflight, OpenRepair, Idle, Fields
<1>4. CASE SyncStart(p)
  BY <1>2, <1>4 DEF SyncStart, Syncing, Idle, Fields
<1>5. ASSUME NEW m \in Missions,
             \/ MaterializeStart(p, m) \/ ReconcileStart(p, m) \/ AbortStart(p, m)
      PROVE  WriterInv'
  BY <1>2, <1>5 DEF MaterializeStart, ReconcileStart, AbortStart, Start, Idle, Fields
<1>6. ASSUME NEW m \in Missions, CloseStart(p, m) PROVE WriterInv'
  BY <1>2, <1>6 DEF CloseStart, Idle, Fields
<1>7. ASSUME NEW m \in Missions, Edit(p, m) \/ GitCommit(p, m) \/ Validate(p, m)
      PROVE  WriterInv'
  BY <1>1, <1>7 DEF Edit, GitCommit, Validate
<1> QED
  BY <1>3, <1>4, <1>5, <1>6, <1>7 DEF Begin

\* A working command takes its next step and keeps its locks.
SameCommand(p, rec) == DOMAIN rec = Fields /\ rec.cmd = proc[p].cmd

LEMMA WorksOn ==
  ASSUME WriterInv, NEW p \in Procs, proc[p].at \notin {"idle", "lock"}, UNCHANGED lock,
         NEW rec, SameCommand(p, rec), Step(p, rec)
  PROVE  WriterInv'
BY GoesOn DEF SameCommand, Step, Working

LEMMA LedgerStepsKeep ==
  ASSUME WriterInv, NEW p \in Procs,
         AppendRead(p) \/ AppendSilenced(p) \/ AppendWrite(p) \/ CommitLedgerStep(p)
           \/ SyncPush(p) \/ SyncMirrors(p) \/ SyncRef(p) \/ CloseArchive(p)
  PROVE  WriterInv'
<1>0. DOMAIN proc[p] = Fields
  BY DEF WriterInv, WorksUnderLock
<1>1. CASE AppendRead(p)
  <2> DEFINE refused == [proc[p] EXCEPT !.at = proc[p].ret, !.result = "refused"]
             writing == [proc[p] EXCEPT !.at = "write", !.read = repo.file]
  <2>1. SameCommand(p, refused) /\ SameCommand(p, writing)
    BY <1>0 DEF SameCommand, Fields
  <2>2. Step(p, refused) \/ Step(p, writing)
    BY <1>1 DEF AppendRead
  <2>3. proc[p].at \notin {"idle", "lock"} /\ UNCHANGED lock
    BY <1>1 DEF AppendRead
  <2> HIDE DEF refused, writing
  <2> QED
    BY <2>1, <2>2, <2>3, WorksOn
<1>2. CASE AppendWrite(p)
  <2> DEFINE written == [proc[p] EXCEPT !.at = "commit", !.read = <<>>]
  <2>1. SameCommand(p, written)
    BY <1>0 DEF SameCommand, Fields
  <2> QED
    BY <1>2, <2>1, WorksOn DEF AppendWrite
<1>3. CASE CommitLedgerStep(p)
  <2> DEFINE with(result) == [proc[p] EXCEPT !.at = proc[p].ret, !.result = result]
  <2>1. PICK result : Step(p, with(result))
    BY <1>3 DEF CommitLedgerStep
  <2>2. SameCommand(p, with(result))
    BY <1>0 DEF SameCommand, Fields
  <2>3. proc[p].at \notin {"idle", "lock"} /\ UNCHANGED lock
    BY <1>3 DEF CommitLedgerStep
  <2> HIDE DEF with
  <2> QED
    BY <2>1, <2>2, <2>3, WorksOn
<1>4. ASSUME NEW at, Goto(p, at), proc[p].at \notin {"idle", "lock"}, UNCHANGED lock
      PROVE  WriterInv'
  <2>1. SameCommand(p, [proc[p] EXCEPT !.at = at])
    BY <1>0 DEF SameCommand, Fields
  <2> QED
    BY <1>4, <2>1, WorksOn DEF Goto
<1>5. CASE SyncMirrors(p)
  BY <1>4, <1>5 DEF SyncMirrors
<1>6. CASE CloseArchive(p)
  BY <1>4, <1>6 DEF CloseArchive
<1>7. CASE SyncPush(p)
  <2> DEFINE appending == Appending(proc[p], "mirror-sync", "mirrors")
  <2>1. SameCommand(p, appending)
    BY <1>0 DEF SameCommand, Appending, Fields
  <2>2. proc[p].at \notin {"idle", "lock"} /\ UNCHANGED lock /\ Step(p, appending)
    BY <1>7 DEF SyncPush
  <2> HIDE DEF appending
  <2> QED
    BY <2>1, <2>2, WorksOn
<1>8. CASE SyncRef(p)
  <2>1. UNCHANGED lock /\ proc[p].at = "ref"
    BY <1>8 DEF SyncRef
  <2>2. CASE Exit(p)
    BY <2>1, <2>2, CommandExits DEF WriterInv
  <2>3. CASE Goto(p, proc[p].next)
    BY <1>4, <2>1, <2>3
  <2> QED
    BY <1>8, <2>2, <2>3 DEF SyncRef
<1>9. CASE AppendSilenced(p)
  <2> DEFINE refused == [proc[p] EXCEPT !.at = proc[p].ret, !.result = "refused"]
  <2>1. SameCommand(p, refused)
    BY <1>0 DEF SameCommand, Fields
  <2>2. proc' = [proc EXCEPT ![p] = refused] /\ UNCHANGED lock /\ proc[p].at = "append"
    BY <1>9 DEF AppendSilenced, WriterInv
  <2> HIDE DEF refused
  <2> QED
    BY <2>1, <2>2, GoesOn DEF SameCommand, Working
<1> QED
  BY <1>1, <1>2, <1>3, <1>5, <1>6, <1>7, <1>8, <1>9

LEMMA FinishersKeep ==
  ASSUME WriterInv, NEW p \in Procs,
         Opened(p) \/ Materialized(p) \/ Reconciled(p) \/ CloseGate(p) \/ CloseAudit(p)
           \/ CloseSettle(p) \/ CloseSeal(p) \/ Aborted(p)
  PROVE  WriterInv'
<1>0. DOMAIN proc[p] = Fields
  BY DEF WriterInv, WorksUnderLock
<1>1. CASE ExitReleasing(p)
  BY <1>1, LocksGivenUp DEF ExitReleasing
<1>2. ASSUME NEW ret, Step(p, Appending(proc[p], "mission-close", ret)),
             proc[p].at \notin {"idle", "lock"}, UNCHANGED lock
      PROVE  WriterInv'
  <2> DEFINE appending == Appending(proc[p], "mission-close", ret)
  <2>1. SameCommand(p, appending)
    BY <1>0 DEF SameCommand, Appending, Fields
  <2> HIDE DEF appending
  <2> QED
    BY <1>2, <2>1, WorksOn DEF appending
<1>3. CASE CloseGate(p)
  <2>1. \/ ExitReleasing(p)
        \/ Step(p, Appending(proc[p], "mission-close", "audit")) /\ UNCHANGED lock
    BY <1>3 DEF CloseGate
  <2>2. proc[p].at \notin {"idle", "lock"}
    BY <1>3 DEF CloseGate
  <2> QED
    BY <1>1, <1>2, <2>1, <2>2
<1>4. CASE CloseAudit(p)
  <2> DEFINE archiving == [proc[p] EXCEPT !.at = "archive"]
  <2>1. proc[p].at \notin {"idle", "lock"}
    BY <1>4 DEF CloseAudit
  <2>2. SameCommand(p, archiving)
    BY <1>0 DEF SameCommand, Fields
  <2>3. \/ ExitReleasing(p)
        \/ Step(p, Appending(proc[p], "mission-close", "archive")) /\ UNCHANGED lock
        \/ Step(p, archiving) /\ UNCHANGED lock
    BY <1>4 DEF CloseAudit, Goto
  <2> HIDE DEF archiving
  <2> QED
    BY <1>1, <1>2, <2>1, <2>2, <2>3, WorksOn
<1>5. CASE CloseSettle(p)
  <2> DEFINE syncing == Syncing(proc[p], "seal")
             sealing == [proc[p] EXCEPT !.at = "seal"]
  <2>1. proc[p].at \notin {"idle", "lock"}
    BY <1>5 DEF CloseSettle
  <2>2. SameCommand(p, syncing) /\ SameCommand(p, sealing)
    BY <1>0 DEF SameCommand, Syncing, Fields
  <2>3. \/ ExitReleasing(p)
        \/ (Step(p, syncing) \/ Step(p, sealing)) /\ UNCHANGED lock
    BY <1>5 DEF CloseSettle
  <2> HIDE DEF syncing, sealing
  <2> QED
    BY <1>1, <2>1, <2>2, <2>3, WorksOn
<1> QED
  BY <1>1, <1>3, <1>4, <1>5 DEF Opened, Materialized, Reconciled, CloseSeal, Aborted

\* The commands that take their locks, or end before.
LEMMA LockersKeep ==
  ASSUME WriterInv, NEW p \in Procs,
         OpenLocked(p) \/ MaterializeLocked(p) \/ ReconcileLocked(p) \/ CloseLocked(p)
           \/ AbortLocked(p)
  PROVE  WriterInv'
<1>0. DOMAIN proc[p] = Fields
  BY DEF WriterInv, WorksUnderLock
<1>1. CASE Exit(p) /\ UNCHANGED lock
  BY <1>1, CommandExits DEF WriterInv
<1>2. ASSUME NEW rec, SameCommand(p, rec), Step(p, rec), lock[SystemLock] = "free",
             NEW m, lock' = TakeBoth(p, m)
      PROVE  WriterInv'
  <2>1. lock' \in Locks /\ lock'[SystemLock] = p
    BY <1>2 DEF TakeBoth, Locks, WriterInv
  <2> QED
    BY <1>2, <2>1, LocksTaken DEF Step, SameCommand
<1>3. CASE OpenLocked(p)
  <2> DEFINE appending == Appending([proc[p] EXCEPT !.m = NextMission], "mission-open", "opened")
  <2>1. DOMAIN appending = Fields
    BY <1>0 DEF Appending, Fields
  <2>2. lock[SystemLock] = "free"
    BY <1>3 DEF OpenLocked
  <2>3. \/ Exit(p) /\ UNCHANGED lock
        \/ lock' = [lock EXCEPT ![SystemLock] = p] /\ Step(p, appending)
    BY <1>3 DEF OpenLocked
  <2>4. lock' = [lock EXCEPT ![SystemLock] = p] => lock' \in Locks /\ lock'[SystemLock] = p
    BY DEF Locks, WriterInv
  <2> HIDE DEF appending
  <2> QED
    BY <1>1, <2>1, <2>2, <2>3, <2>4, LocksTaken DEF Step
<1>4. CASE MaterializeLocked(p)
  <2> DEFINE appending == Appending(proc[p], "preflight-skipped", "materialized")
             going == [proc[p] EXCEPT !.at = "materialized"]
  <2>1. SameCommand(p, appending) /\ SameCommand(p, going)
    BY <1>0 DEF SameCommand, Appending, Fields
  <2>2. lock[SystemLock] = "free" /\ lock' = TakeBoth(p, proc[p].m)
    BY <1>4 DEF MaterializeLocked, BothFree
  <2>3. Step(p, appending) \/ Step(p, going)
    BY <1>4 DEF MaterializeLocked
  <2> HIDE DEF appending, going
  <2> QED
    BY <1>2, <2>1, <2>2, <2>3
<1>5. CASE ReconcileLocked(p)
  <2> DEFINE done(w) == [proc[p] EXCEPT !.pre = CommitAll(repo).head, !.head = w]
             syncing(w) == Syncing(done(w), "reconciled")
             going(w) == [done(w) EXCEPT !.at = "reconciled"]
  <2>1. \A w : SameCommand(p, syncing(w)) /\ SameCommand(p, going(w))
    BY <1>0 DEF SameCommand, Syncing, Fields
  <2>2. lock[SystemLock] = "free"
    BY <1>5 DEF ReconcileLocked, BothFree
  <2>3. \/ Exit(p) /\ UNCHANGED lock
        \/ /\ lock' = TakeBoth(p, proc[p].m)
           /\ \E w : Step(p, syncing(w)) \/ Step(p, going(w))
    BY <1>5 DEF ReconcileLocked
  <2> HIDE DEF done, syncing, going
  <2> QED
    BY <1>1, <1>2, <2>1, <2>2, <2>3
<1>6. CASE CloseLocked(p)
  <2> DEFINE syncing == Syncing(proc[p], "gate")
             going == [proc[p] EXCEPT !.at = "gate"]
  <2>1. SameCommand(p, syncing) /\ SameCommand(p, going)
    BY <1>0 DEF SameCommand, Syncing, Fields
  <2>2. lock[SystemLock] = "free"
    BY <1>6 DEF CloseLocked, BothFree
  <2>3. \/ Exit(p) /\ UNCHANGED lock
        \/ lock' = TakeBoth(p, proc[p].m) /\ (Step(p, syncing) \/ Step(p, going))
    BY <1>6 DEF CloseLocked
  <2> HIDE DEF syncing, going
  <2> QED
    BY <1>1, <1>2, <2>1, <2>2, <2>3
<1>7. CASE AbortLocked(p)
  <2> DEFINE appending == Appending(proc[p], "mission-abort", "aborted")
  <2>1. SameCommand(p, appending)
    BY <1>0 DEF SameCommand, Appending, Fields
  <2>2. lock[SystemLock] = "free"
    BY <1>7 DEF AbortLocked, BothFree
  <2>3. \/ Exit(p) /\ UNCHANGED lock
        \/ lock' = TakeBoth(p, proc[p].m) /\ Step(p, appending)
    BY <1>7 DEF AbortLocked
  <2> HIDE DEF appending
  <2> QED
    BY <1>1, <1>2, <2>1, <2>2, <2>3
<1> QED
  BY <1>3, <1>4, <1>5, <1>6, <1>7

\* A refused command leaves the system's lock to its holder, or stale.
LEMMA RefusedKeeps ==
  ASSUME WriterInv, NEW p \in Procs, LockRefused(p) \/ ReconcileUnvalidated(p)
  PROVE  WriterInv'
<1>1. Exit(p) /\ lock' \in Locks
  BY DEF LockRefused, ReconcileUnvalidated, Locks, WriterInv
<1>2. lock[SystemLock] = "free" \/ lock' = lock
  BY DEF LockRefused, ReconcileUnvalidated, BothFree
<1> QED
  BY <1>1, <1>2, CommandExits

LEMMA WriterHolds == Spec => []WriterInv
<1>1. Init => WriterInv
  BY DEF Init, WriterInv, WorksUnderLock, Working, Idle, Fields, Locks, LockedCommands
<1>2. WriterInv /\ [Next]_vars => WriterInv'
  <2> SUFFICES ASSUME WriterInv, [Next]_vars PROVE WriterInv'
    OBVIOUS
  <2>1. CASE UNCHANGED vars
    BY <2>1 DEF vars, WriterInv, WorksUnderLock, Working
  <2>2. ASSUME NEW p \in Procs, Continue(p) PROVE WriterInv'
    BY <2>2, LedgerStepsKeep, FinishersKeep, LockersKeep, RefusedKeeps DEF Continue
  <2>3. ASSUME NEW p \in Procs, Crash(p) PROVE WriterInv'
    BY <2>3, LocksGivenUp DEF Crash
  <2>4. ASSUME NEW l \in Missions \cup {SystemLock}, RecoverLock(l) PROVE WriterInv'
    <3>1. lock' \in Locks
      BY <2>4 DEF RecoverLock, WriterInv, Locks
    <3>2. \A p \in Procs : lock[SystemLock] = p => lock'[SystemLock] = p
      BY <2>4, LifecycleAssumption DEF RecoverLock, WriterInv, Locks
    <3> QED
      BY <2>4, <3>1, <3>2 DEF RecoverLock, WriterInv, WorksUnderLock, Working
  <2> QED
    BY <2>1, <2>2, <2>3, <2>4, BeginKeeps DEF Next
<1> QED
  BY <1>1, <1>2, PTL DEF Spec

\* Two commands never work on the ledger of a system at once, however many
\* processes there are, whichever die and whoever recovers their locks.
THEOREM WritersAreAlone == Spec => []OneWriter
<1>1. WriterInv => OneWriter
  BY DEF WriterInv, WorksUnderLock, OneWriter
<1> QED
  BY <1>1, WriterHolds, PTL
-----------------------------------------------------------------------------
(* The ledger and the register of missions, when one process works and does *)
(* not die: what a repository may hold, whatever git commands failed.       *)

Solo == (\E p \in Procs : Procs = {p}) /\ "crash" \notin Faults

OpenedIn(ledger, m) == OfMission(ledger, Opening, m) # {}
EndedIn(ledger, m) == OfMission(ledger, Terminal, m) # {}

\* A ledger that chains, opens no mission twice and closes none that is not open.
Sound(ledger) ==
  /\ \A i \in DOMAIN ledger : ledger[i].prev = i - 1
  /\ \A i, j \in DOMAIN ledger :
       /\ ledger[i].kind \in Opening /\ ledger[j].kind \in Opening
       /\ ledger[i].mission = ledger[j].mission
       => i = j
  /\ Orphans(ledger) = {}

Kinds == {"mission-open", "mission-close", "mission-abort", "preflight-skipped", "mirror-sync"}
Ledgers == Seq([kind : Kinds, mission : 0 .. MaxMissions, prev : Nat])
Trees == [ledger : Ledgers, current : Missions \cup {None}, edits : SUBSET Edits,
          parent : Nat, older : SUBSET Nat]
Repositories ==
  [objects : Seq(Trees), head : Nat, file : Ledgers, current : Missions \cup {None},
   rebase : {"none", "conflict", "detached"}, origin : Nat, external : Nat, mirror : Nat]

\* Every commit descends from the first one, and its ancestors are older.
HistoryOK(r) ==
  /\ r \in Repositories
  /\ r.head \in DOMAIN r.objects /\ r.origin \in DOMAIN r.objects
  /\ \A c \in DOMAIN r.objects :
       /\ r.objects[c].older \subseteq 1 .. c - 1 /\ 1 \in Ancestors(r, c)
       /\ c # 1 => r.objects[c].parent \in r.objects[c].older
       /\ \A a \in r.objects[c].older : r.objects[a].older \subseteq r.objects[c].older

Tree(r, c) == r.objects[c]
LedgersOf(r) == {Tree(r, c).ledger : c \in DOMAIN r.objects} \cup {r.file}
CurrentsOf(r) == {Tree(r, c).current : c \in DOMAIN r.objects} \cup {r.current}
\* The ledgers a commit descends from, and those the branches hold.
LineOf(r, c) == {Tree(r, a).ledger : a \in Ancestors(r, c)}
LinesOf(r, X) == UNION {LineOf(r, x) : x \in X}
Line(r) == LineOf(r, r.head) \cup LineOf(r, r.origin)
Tips(r) == {r.file, HeadTree(r).ledger, Tree(r, r.origin).ledger}

-----------------------------------------------------------------------------

\* The mission an operator may still work on.
Engaged(m) ==
  \/ manifest[m].state = "open"
  \/ \E p \in Procs : proc[p].cmd \in {"close", "abort"} /\ proc[p].m = m
\* Its opening has been published.
Held(m) == Engaged(m) /\ ~\E p \in Procs : proc[p].cmd = "open" /\ proc[p].m = m

\* The commits a command on the mission may go back to.
Bases(m) ==
  ({evidence[m].pre, workpiece[m].at}
     \cup {proc[p].pre : p \in {q \in Procs : proc[q].cmd = "reconcile" /\ proc[q].m = m}}) \ {None}

\* An opening that was withdrawn although it could not be committed stays in the
\* working tree, and no other branch holds it unless it was pushed meanwhile.
Contained(r, m) ==
  (\E l \in Line(r) \cup {r.file} : OpenedIn(l, m)) =>
    /\ OpenedIn(r.file, m)
    /\ r.origin \in Ancestors(r, r.head) \/ \A l \in LineOf(r, r.origin) : ~OpenedIn(l, m)

\* The ledgers a command on the mission may bring back.
Reach(m) == Line(repo) \cup {repo.file} \cup LinesOf(repo, Bases(m))

EvidenceFields == {"validation", "validated", "pre", "head", "report", "archived"}
WorkpieceFields == {"at", "edits", "dirty", "sealed"}

FilesOK(m) ==
  /\ DOMAIN evidence[m] = EvidenceFields /\ DOMAIN workpiece[m] = WorkpieceFields
  /\ workpiece[m].edits \subseteq Edits /\ workpiece[m].dirty \subseteq Edits
  /\ evidence[m].pre \in {None} \cup DOMAIN repo.objects
  /\ workpiece[m].at \in {None} \cup DOMAIN repo.objects
  /\ manifest[m].state = "none" => evidence[m].pre = None /\ workpiece[m].at = None

StateOK ==
  /\ manifest \in [Missions -> Manifests]
  /\ DOMAIN evidence = Missions /\ DOMAIN workpiece = Missions /\ DOMAIN proc = Procs
  /\ HistoryOK(repo) /\ \A m \in Missions : FilesOK(m)

\* Where a command is, and the mission it works on.
Ledgering == {"append", "write", "commit"}
Mirroring == {"sync", "mirrors", "ref"}
Appends(c, kind, rets) == c.at \in Ledgering /\ c.kind = kind /\ c.ret \in rets
Syncs(c, next) ==
  c.next = next /\ (c.at \in Mirroring \/ Appends(c, "mirror-sync", {"mirrors"}))
On(c, state) == c.m \in Missions /\ manifest[c.m].state = state
Entered(c) == On(c, "open") /\ c.seen.state = "open"

Place(c) ==
  \/ c = Idle
  \/ c.cmd = "open" /\ c.at = "lock" /\ c.m = None
  \/ /\ c.cmd = "open" /\ On(c, "open") /\ evidence[c.m].pre = None /\ workpiece[c.m].at = None
     /\ c.at = "opened" \/ Appends(c, "mission-open", {"opened"})
  \/ /\ c.cmd = "materialize" /\ Entered(c)
     /\ c.at \in {"lock", "materialized"} \/ Appends(c, "preflight-skipped", {"materialized"})
  \/ c.cmd = "sync" /\ Syncs(c, "exit")
  \/ c.cmd = "reconcile" /\ Entered(c) /\ (c.at \in {"lock", "reconciled"} \/ Syncs(c, "reconciled"))
  \/ c.cmd = "close" /\ Entered(c) /\ (c.at \in {"lock", "gate"} \/ Syncs(c, "gate"))
  \/ /\ c.cmd = "close" /\ On(c, "closed")
     /\ \/ c.at \in {"audit", "archive", "settle", "seal"} \/ Syncs(c, "seal")
        \/ Appends(c, "mission-close", {"audit", "archive"})
  \/ c.cmd = "abort" /\ Entered(c) /\ c.at = "lock"
  \/ /\ c.cmd = "abort" /\ On(c, "aborted")
     /\ c.at = "aborted" \/ Appends(c, "mission-abort", {"aborted"})

PlaceOK(c) ==
  /\ DOMAIN c = Fields /\ c.m \in Missions \cup {None} /\ c.seen \in Manifests
  /\ c.pre \in {None} \cup DOMAIN repo.objects /\ c.read \in Ledgers
  /\ Place(c)

\* An opening on its way into the ledger.
OpeningOK(c) ==
  c.cmd = "open" =>
    /\ c.at = "lock" => Readable(repo) /\ Violations(repo.file, repo.current) = {}
    /\ c.at \in {"append", "write"} \/ (c.at = "opened" /\ c.result = "refused") =>
         ~OpenedIn(repo.file, c.m)
    /\ c.at \in Ledgering \/ (c.at = "opened" /\ c.result \in {"refused", "uncommitted"}) =>
         \A l \in Line(repo) : ~OpenedIn(l, c.m)
    /\ c.at = "commit" \/ (c.at = "opened" /\ c.result = "uncommitted") => OpenedIn(repo.file, c.m)
    /\ c.at = "opened" /\ c.result = "pushed" => \A l \in Tips(repo) : OpenedIn(l, c.m)
    /\ c.at = "opened" /\ c.result = "unpushed" =>
         /\ repo.head # 1
         /\ \A l \in LineOf(repo, HeadTree(repo).parent) \cup LineOf(repo, repo.origin) :
              ~OpenedIn(l, c.m)
    /\ c.at = "opened" => c.result \in {"refused", "uncommitted", "unpushed", "pushed"}

\* An entry about to be written.
WritingOK(c) ==
  c.at = "write" => c.read = repo.file /\ (c.kind \in Terminal => ~HasTerminal(c.m))

\* What the ledgers and the states of the missions say of each other.
Record ==
  /\ \A m, n \in Missions : Engaged(m) /\ Engaged(n) => m = n
  /\ \A l \in LedgersOf(repo) :
       /\ Sound(l)
       /\ \A m \in Missions : EndedIn(l, m) => manifest[m].state \in {"closed", "aborted"}
  /\ \A m \in CurrentsOf(repo) \ {None} :
       /\ manifest[m].state # "none" /\ ~\E p \in Procs : proc[p].cmd = "open" /\ proc[p].m = m
  /\ \A m \in Missions : Held(m) =>
       /\ \A l \in Tips(repo) : OpenedIn(l, m)
       /\ \A c \in Bases(m) : OpenedIn(Tree(repo, c).ledger, m)
  /\ \A m \in Missions : manifest[m].state = "none" =>
       /\ Contained(repo, m)
       /\ \A n \in Missions : Engaged(n) => \A l \in Reach(n) : ~OpenedIn(l, m)

Places(c) == PlaceOK(c) /\ OpeningOK(c) /\ WritingOK(c)

RegisterInv == StateOK /\ Record /\ \A p \in Procs : Places(proc[p])
-----------------------------------------------------------------------------
(* What the git commands do to a repository.                                *)

\* No ledger is invented; the branches hold what they held, or what the commits
\* X hold; the system's state names what it named, or one of C.
Grows(r, s, X, C) ==
  /\ HistoryOK(s)
  /\ DOMAIN r.objects \subseteq DOMAIN s.objects
  /\ \A c \in DOMAIN r.objects : s.objects[c] = r.objects[c]
  /\ LedgersOf(s) \subseteq LedgersOf(r)
  /\ Line(s) \subseteq Line(r) \cup {r.file} \cup LinesOf(r, X)
  /\ Tips(s) \subseteq Tips(r) \cup {Tree(r, x).ledger : x \in X}
  /\ CurrentsOf(s) \subseteq CurrentsOf(r) \cup C

LEMMA HistoryFacts ==
  ASSUME NEW r, HistoryOK(r)
  PROVE  /\ r.objects \in Seq(Trees) /\ Len(r.objects) \in Nat /\ Len(r.objects) >= 1
         /\ DOMAIN r.objects = 1 .. Len(r.objects) /\ 1 \in DOMAIN r.objects
         /\ HeadTree(r) \in Trees /\ HeadTree(r) = Tree(r, r.head)
         /\ \A c \in DOMAIN r.objects :
              /\ Tree(r, c) \in Trees /\ Tree(r, c).ledger \in LedgersOf(r)
              /\ Tree(r, c).current \in CurrentsOf(r)
              /\ Ancestors(r, c) \subseteq DOMAIN r.objects /\ c \in Ancestors(r, c)
              /\ Tree(r, c).ledger \in LineOf(r, c)
         /\ r.file \in LedgersOf(r) /\ r.current \in CurrentsOf(r)
         /\ LedgersOf(r) \subseteq Ledgers /\ CurrentsOf(r) \subseteq Missions \cup {None}
<1>1. r.objects \in Seq(Trees) /\ r.file \in Ledgers /\ r.current \in Missions \cup {None}
  BY DEF HistoryOK, Repositories
<1>2. Len(r.objects) \in Nat /\ DOMAIN r.objects = 1 .. Len(r.objects)
  BY <1>1
<1>3. Len(r.objects) >= 1
  BY <1>2 DEF HistoryOK
<1>4. \A c \in DOMAIN r.objects : Tree(r, c) \in Trees
  BY <1>1 DEF Tree
<1>5. \A c \in DOMAIN r.objects : Ancestors(r, c) \subseteq DOMAIN r.objects
  BY <1>2 DEF HistoryOK, Ancestors
<1>6. \A c \in DOMAIN r.objects : Tree(r, c).ledger \in Ledgers /\ Tree(r, c).current \in Missions \cup {None}
  BY <1>4 DEF Trees
<1> QED
  BY <1>1, <1>2, <1>3, <1>4, <1>5, <1>6
     DEF HistoryOK, HeadTree, Tree, LedgersOf, CurrentsOf, LineOf, Ancestors

LEMMA GrowsTransitive ==
  ASSUME NEW r, NEW s, NEW t, NEW X, X \subseteq DOMAIN r.objects, NEW C,
         HistoryOK(r), Grows(r, s, X, C), Grows(s, t, X, C)
  PROVE  Grows(r, t, X, C)
<1>1. \A x \in X : LineOf(s, x) = LineOf(r, x) /\ Tree(s, x) = Tree(r, x)
  <2>1. \A x \in X : Ancestors(s, x) = Ancestors(r, x) /\ Ancestors(r, x) \subseteq DOMAIN r.objects
    BY HistoryFacts DEF Grows, Ancestors
  <2> QED
    BY <2>1 DEF LineOf, Tree, Grows
<1>2. s.file \in Tips(s) /\ Tips(r) \subseteq Line(r) \cup {r.file}
  BY HistoryFacts DEF Tips, Line, HistoryOK, Tree, HeadTree
<1>3. s.file \in Line(r) \cup {r.file} \cup LinesOf(r, X)
  <2>1. \A x \in X : Tree(r, x).ledger \in LineOf(r, x)
    BY HistoryFacts
  <2> QED
    BY <1>2, <2>1 DEF Grows, LinesOf
<1>4. Line(t) \subseteq Line(r) \cup {r.file} \cup LinesOf(r, X)
  <2>1. LinesOf(s, X) = LinesOf(r, X)
    BY <1>1 DEF LinesOf
  <2> QED
    BY <1>3, <2>1 DEF Grows
<1>5. Tips(t) \subseteq Tips(r) \cup {Tree(r, x).ledger : x \in X}
  BY <1>1 DEF Grows
<1> QED
  BY <1>4, <1>5 DEF Grows

LEMMA GrowsWiden ==
  ASSUME NEW r, NEW s, NEW X, NEW Y, X \subseteq Y, NEW C, NEW D, C \subseteq D, Grows(r, s, X, C)
  PROVE  Grows(r, s, Y, D)
BY DEF Grows, LinesOf

LEMMA GrowsReflexive ==
  ASSUME NEW r, HistoryOK(r), NEW X, NEW C
  PROVE  Grows(r, r, X, C)
BY DEF Grows

\* A new commit.
LEMMA CommitTreeFacts ==
  ASSUME NEW r, HistoryOK(r), NEW tree \in Trees, NEW P \in SUBSET DOMAIN r.objects, r.head \in P,
         NEW s, s = CommitTree(r, tree, P)
  PROVE  /\ HistoryOK(s) /\ s.head = Len(r.objects) + 1 /\ s.head \notin DOMAIN r.objects
         /\ DOMAIN s.objects = DOMAIN r.objects \cup {s.head}
         /\ \A c \in DOMAIN r.objects :
              /\ s.objects[c] = r.objects[c] /\ Ancestors(s, c) = Ancestors(r, c)
              /\ LineOf(s, c) = LineOf(r, c)
         /\ Tree(s, s.head).ledger = tree.ledger /\ Tree(s, s.head).current = tree.current
         /\ Tree(s, s.head).parent = r.head /\ Tree(s, s.head).edits = tree.edits
         /\ \A a : a \in Ancestors(s, s.head) <=> a = s.head \/ \E p \in P : a \in Ancestors(r, p)
         /\ \A l : l \in LineOf(s, s.head) <=> l = tree.ledger \/ l \in LinesOf(r, P)
         /\ s.file = r.file /\ s.current = r.current /\ s.rebase = r.rebase
         /\ s.origin = r.origin /\ s.external = r.external /\ s.mirror = r.mirror
<1> DEFINE older == UNION {Ancestors(r, p) : p \in P}
           new == [tree EXCEPT !.parent = r.head, !.older = older]
           n == Len(r.objects) + 1
<1>1. /\ r.objects \in Seq(Trees) /\ Len(r.objects) \in Nat /\ DOMAIN r.objects = 1 .. Len(r.objects)
      /\ \A c \in DOMAIN r.objects : Ancestors(r, c) \subseteq DOMAIN r.objects
      /\ r.head \in DOMAIN r.objects /\ r.head \in Nat
  BY HistoryFacts DEF HistoryOK, Repositories
<1>2. older \subseteq DOMAIN r.objects
  BY <1>1
<1>3. new \in Trees /\ new.ledger = tree.ledger /\ new.current = tree.current
      /\ new.edits = tree.edits /\ new.parent = r.head /\ new.older = older
  <2>1. older \in SUBSET Nat
    BY <1>1, <1>2
  <2> HIDE DEF older
  <2>2. new = [tree EXCEPT !.parent = r.head, !.older = older]
    OBVIOUS
  <2> HIDE DEF new
  <2> QED
    BY <1>1, <2>1, <2>2 DEF Trees
<1>4. s = [r EXCEPT !.objects = Append(r.objects, new), !.head = n]
  BY DEF CommitTree, NewCommit
<1>5. /\ s \in Repositories /\ s.objects = Append(r.objects, new) /\ s.head = n
      /\ s.file = r.file /\ s.current = r.current /\ s.rebase = r.rebase
      /\ s.origin = r.origin /\ s.external = r.external /\ s.mirror = r.mirror
  <2>1. Append(r.objects, new) \in Seq(Trees) /\ n \in Nat /\ r \in Repositories
    BY <1>1, <1>3 DEF HistoryOK
  <2> HIDE DEF new, n
  <2> QED
    BY <1>4, <2>1 DEF Repositories
<1>6. /\ n \notin DOMAIN r.objects /\ DOMAIN s.objects = DOMAIN r.objects \cup {n}
      /\ s.objects[n] = new /\ \A c \in DOMAIN r.objects : s.objects[c] = r.objects[c]
  <2> HIDE DEF new
  <2>1. Len(s.objects) = n /\ DOMAIN s.objects = 1 .. n
    BY <1>1, <1>3, <1>5, AppendProperties
  <2>2. s.objects[n] = new /\ \A c \in 1 .. Len(r.objects) : s.objects[c] = r.objects[c]
    BY <1>1, <1>3, <1>5, AppendProperties
  <2> QED
    BY <1>1, <2>1, <2>2
<1> HIDE DEF n, new
<1>7. \A c \in DOMAIN r.objects : Ancestors(s, c) = Ancestors(r, c) /\ LineOf(s, c) = LineOf(r, c)
  <2>1. \A c \in DOMAIN r.objects : Ancestors(s, c) = Ancestors(r, c)
    BY <1>6 DEF Ancestors
  <2> QED
    BY <1>1, <1>6, <2>1 DEF LineOf, Tree
<1>8. Ancestors(s, n) = {n} \cup older
  BY <1>3, <1>6 DEF Ancestors
<1>9. LineOf(s, n) = {tree.ledger} \cup LinesOf(r, P)
  <2>1. \A a \in older : s.objects[a] = r.objects[a]
    BY <1>2, <1>6
  <2> QED
    BY <1>3, <1>6, <1>8, <2>1 DEF LineOf, LinesOf, Tree
<1>10. HistoryOK(s)
  <2>1. ASSUME NEW c \in DOMAIN s.objects
        PROVE  /\ s.objects[c].older \subseteq 1 .. c - 1 /\ 1 \in Ancestors(s, c)
               /\ c # 1 => s.objects[c].parent \in s.objects[c].older
               /\ \A a \in s.objects[c].older : s.objects[a].older \subseteq s.objects[c].older
    <3>1. CASE c \in DOMAIN r.objects
      <4>1. r.objects[c].older \subseteq DOMAIN r.objects
        BY <1>1, <3>1 DEF Ancestors
      <4> QED
        BY <1>6, <1>7, <3>1, <4>1 DEF HistoryOK
    <3>2. CASE c = n
      <4>1. s.objects[c].older = older /\ s.objects[c].parent = r.head
        BY <1>3, <1>6, <3>2
      <4>2. older \subseteq 1 .. c - 1
        BY <1>1, <1>2, <3>2 DEF n
      <4>3. 1 \in older /\ r.head \in older
        BY <1>1 DEF HistoryOK, Ancestors
      <4>4. ASSUME NEW a \in older PROVE s.objects[a].older \subseteq older
        <5>1. PICK p \in P : a \in Ancestors(r, p)
          BY <4>4
        <5>2. a = p \/ a \in r.objects[p].older
          BY <5>1 DEF Ancestors
        <5>3. r.objects[a].older \subseteq r.objects[p].older
          BY <5>2 DEF HistoryOK
        <5>4. s.objects[a] = r.objects[a]
          BY <1>2, <1>6, <4>4
        <5> QED
          BY <5>3, <5>4 DEF Ancestors
      <4> HIDE DEF older
      <4> QED
        BY <1>8, <3>2, <4>1, <4>2, <4>3, <4>4
    <3> QED
      BY <1>6, <3>1, <3>2
  <2>2. s.head \in DOMAIN s.objects /\ s.origin \in DOMAIN s.objects
    BY <1>5, <1>6 DEF HistoryOK
  <2> QED
    BY <1>5, <2>1, <2>2 DEF HistoryOK
<1> QED
  BY <1>3, <1>5, <1>6, <1>7, <1>8, <1>9, <1>10 DEF n, Tree

LEMMA CommitLine ==
  ASSUME NEW r, HistoryOK(r), NEW tree \in Trees, NEW P \in SUBSET DOMAIN r.objects, r.head \in P,
         NEW s, s = CommitTree(r, tree, P), NEW l
  PROVE  l \in LineOf(s, s.head) <=> l = tree.ledger \/ l \in LinesOf(r, P)
BY CommitTreeFacts

\* Max is a CHOOSE: what it says of a set of commits.
LEMMA MaxIsIn ==
  ASSUME NEW n \in Nat, NEW S \in SUBSET (0 .. n), S # {}
  PROVE  Max(S) \in S /\ \A x \in S : Max(S) >= x
<1> DEFINE T == {n - x : x \in S}
<1>1. T \subseteq Nat /\ T # {}
  <2>1. \A x \in S : x \in 0 .. n
    OBVIOUS
  <2>2. \A x \in S : n - x \in Nat
    BY <2>1
  <2> QED
    BY <2>2
<1> HIDE DEF T
<1>2. PICK y \in T : \A z \in T : ~(<<z, y>> \in OpToRel(<, Nat))
  BY <1>1, WFMin, NatLessThanWellFounded
<1>3. \A z \in T : ~(z < y)
  BY <1>1, <1>2 DEF OpToRel
<1>4. PICK x \in S : y = n - x
  BY DEF T
<1>5. ASSUME NEW w \in S PROVE x >= w
  <2>1. ~(n - w < y)
    BY <1>3 DEF T
  <2> QED
    BY <1>4, <2>1
<1> QED
  BY <1>5 DEF Max

LEMMA MinIsIn ==
  ASSUME NEW S \in SUBSET Nat, S # {} PROVE Min(S) \in S
<1>1. PICK x \in S : \A z \in S : ~(<<z, x>> \in OpToRel(<, Nat))
  BY WFMin, NatLessThanWellFounded
<1>2. \A z \in S : ~(z < x)
  BY <1>1 DEF OpToRel
<1>3. \A z \in S : x =< z
  BY <1>2
<1> QED
  BY <1>3 DEF Min

LEMMA TipsAreCommitted ==
  ASSUME NEW r, HistoryOK(r)
  PROVE  /\ Tips(r) \subseteq Line(r) \cup {r.file}
         /\ Tips(r) \subseteq LedgersOf(r) /\ Line(r) \subseteq LedgersOf(r)
         /\ \A c \in DOMAIN r.objects : LineOf(r, c) \subseteq LedgersOf(r)
<1>1. \A c \in DOMAIN r.objects : LineOf(r, c) \subseteq LedgersOf(r)
  BY HistoryFacts DEF LineOf, LedgersOf
<1>2. r.head \in DOMAIN r.objects /\ r.origin \in DOMAIN r.objects
  BY DEF HistoryOK
<1> QED
  BY <1>1, <1>2, HistoryFacts DEF Tips, Line

\* The line of a commit holds the lines of its ancestors.
LEMMA LinesAreNested ==
  ASSUME NEW r, HistoryOK(r), NEW c \in DOMAIN r.objects, NEW a \in Ancestors(r, c)
  PROVE  /\ a \in DOMAIN r.objects /\ Ancestors(r, a) \subseteq Ancestors(r, c)
         /\ LineOf(r, a) \subseteq LineOf(r, c) /\ Tree(r, a).ledger \in LineOf(r, c)
<1>1. a \in DOMAIN r.objects
  BY HistoryFacts
<1>2. Ancestors(r, a) \subseteq Ancestors(r, c)
  BY DEF HistoryOK, Ancestors
<1> QED
  BY <1>1, <1>2 DEF LineOf

LEMMA CheckoutFacts ==
  ASSUME NEW r, HistoryOK(r), NEW c \in DOMAIN r.objects, NEW s, s = Checkout(r, c)
  PROVE  /\ HistoryOK(s) /\ s.objects = r.objects /\ s.head = c /\ s.origin = r.origin
         /\ s.file = Tree(r, c).ledger /\ s.current = Tree(r, c).current
         /\ s.rebase = IF r.rebase = "none" THEN "none" ELSE "detached"
         /\ \A a : Ancestors(s, a) = Ancestors(r, a) /\ LineOf(s, a) = LineOf(r, a)
         /\ HeadTree(s) = Tree(r, c) /\ ~Dirty(s)
<1>1. s.objects = r.objects /\ s.head = c /\ s.origin = r.origin
      /\ s.file = Tree(r, c).ledger /\ s.current = Tree(r, c).current
      /\ s.rebase = IF r.rebase = "none" THEN "none" ELSE "detached"
  BY DEF Checkout, HistoryOK, Repositories, Tree
<1>2. s \in Repositories
  <2>1. r \in Repositories /\ c \in Nat /\ Tree(r, c).ledger \in Ledgers
        /\ Tree(r, c).current \in Missions \cup {None}
    BY HistoryFacts, SMTT(60) DEF HistoryOK, Trees
  <2> QED
    BY <2>1 DEF Checkout, Repositories, Tree
<1>3. \A a : Ancestors(s, a) = Ancestors(r, a)
  BY <1>1 DEF Ancestors
<1>4. \A a : LineOf(s, a) = LineOf(r, a)
  BY <1>1, <1>3 DEF LineOf, Tree
<1>5. HistoryOK(s)
  BY <1>1, <1>2, <1>3 DEF HistoryOK
<1> QED
  BY <1>1, <1>3, <1>4, <1>5 DEF HeadTree, Tree, Dirty

\* A command that leaves every commit as it is, and may move the branches.
LEMMA MovesGrow ==
  ASSUME NEW r, HistoryOK(r), NEW s, HistoryOK(s), s.objects = r.objects,
         NEW X \in SUBSET DOMAIN r.objects, NEW C,
         s.head \in {r.head, r.origin} \cup X, s.origin \in {r.head, r.origin},
         s.file = r.file \/ s.file = HeadTree(s).ledger,
         s.current \in CurrentsOf(r) \cup C
  PROVE  Grows(r, s, X, C)
<1>1. \A a : Ancestors(s, a) = Ancestors(r, a) /\ LineOf(s, a) = LineOf(r, a) /\ Tree(s, a) = Tree(r, a)
  BY DEF Ancestors, LineOf, Tree
<1>2. s.file \in {r.file} \cup {Tree(r, c).ledger : c \in {r.head, r.origin} \cup X}
  BY <1>1 DEF HeadTree, Tree
<1>3. {r.head, r.origin} \cup X \subseteq DOMAIN r.objects
  BY DEF HistoryOK
<1>4. LedgersOf(s) \subseteq LedgersOf(r) /\ CurrentsOf(s) \subseteq CurrentsOf(r) \cup C
  BY <1>1, <1>2, <1>3 DEF LedgersOf, CurrentsOf
<1>5. Line(s) \subseteq Line(r) \cup LinesOf(r, X)
  BY <1>1 DEF Line, LinesOf
<1>6. Tips(s) \subseteq Tips(r) \cup {Tree(r, x).ledger : x \in X}
  BY <1>1, <1>2 DEF Tips, HeadTree, Tree
<1> QED
  BY <1>4, <1>5, <1>6 DEF Grows

LEMMA CheckoutGrows ==
  ASSUME NEW r, HistoryOK(r), NEW c \in DOMAIN r.objects, NEW C
  PROVE  Grows(r, Checkout(r, c), {c}, C)
<1> DEFINE s == Checkout(r, c)
<1>1. HistoryOK(s) /\ s.objects = r.objects /\ s.head = c /\ s.origin = r.origin
      /\ s.file = HeadTree(s).ledger /\ s.current \in CurrentsOf(r)
  BY CheckoutFacts, HistoryFacts
<1> QED
  BY <1>1, MovesGrow

LEMMA PushFacts ==
  ASSUME NEW r, HistoryOK(r), NEW s, s = Push(r)
  PROVE  /\ HistoryOK(s) /\ s.objects = r.objects /\ s.head = r.head /\ s.file = r.file
         /\ s.current = r.current /\ s.rebase = r.rebase
         /\ s.origin = IF r.rebase = "none" /\ r.origin \in Ancestors(r, r.head)
                         THEN r.head ELSE r.origin
         /\ \A a : Ancestors(s, a) = Ancestors(r, a) /\ LineOf(s, a) = LineOf(r, a)
<1>1. s \in Repositories
  BY DEF Push, HistoryOK, Repositories
<1>2. s.objects = r.objects /\ s.head = r.head /\ s.file = r.file
      /\ s.current = r.current /\ s.rebase = r.rebase
      /\ s.origin = IF r.rebase = "none" /\ r.origin \in Ancestors(r, r.head)
                      THEN r.head ELSE r.origin
  BY DEF Push, HistoryOK, Repositories
<1>3. \A a : Ancestors(s, a) = Ancestors(r, a) /\ LineOf(s, a) = LineOf(r, a)
  BY <1>2 DEF Ancestors, LineOf, Tree
<1>4. HistoryOK(s)
  BY <1>1, <1>2, <1>3 DEF HistoryOK
<1> QED
  BY <1>2, <1>3, <1>4

LEMMA PushGrows ==
  ASSUME NEW r, HistoryOK(r), NEW C PROVE Grows(r, Push(r), {}, C)
<1> DEFINE s == Push(r)
<1>1. HistoryOK(s) /\ s.objects = r.objects /\ s.head = r.head /\ s.file = r.file
      /\ s.origin \in {r.head, r.origin} /\ s.current \in CurrentsOf(r)
  BY PushFacts, HistoryFacts
<1> HIDE DEF s
<1>2. Grows(r, s, {}, C)
  BY <1>1, MovesGrow
<1> QED
  BY <1>2 DEF s

\* A commit whose ledger a branch, or the working tree, holds already.
LEMMA CommitGrows ==
  ASSUME NEW r, HistoryOK(r), NEW tree \in Trees, NEW P \in SUBSET DOMAIN r.objects, r.head \in P
  PROVE  \A X \in SUBSET DOMAIN r.objects : \A C :
           /\ P \subseteq {r.head, r.origin} \cup X
           /\ tree.ledger \in Tips(r) \cup {Tree(r, x).ledger : x \in X}
           /\ tree.current \in CurrentsOf(r) \cup C
           => Grows(r, CommitTree(r, tree, P), X, C)
<1>0. PICK s : s = CommitTree(r, tree, P)
  OBVIOUS
<1>1. /\ HistoryOK(s) /\ s.head \notin DOMAIN r.objects
      /\ DOMAIN s.objects = DOMAIN r.objects \cup {s.head}
      /\ \A c \in DOMAIN r.objects :
           /\ s.objects[c] = r.objects[c] /\ Ancestors(s, c) = Ancestors(r, c)
           /\ LineOf(s, c) = LineOf(r, c)
      /\ Tree(s, s.head).ledger = tree.ledger /\ Tree(s, s.head).current = tree.current
      /\ \A l : l \in LineOf(s, s.head) <=> l = tree.ledger \/ l \in LinesOf(r, P)
      /\ s.file = r.file /\ s.current = r.current /\ s.origin = r.origin
  <2>1. HistoryOK(s) /\ s.head \notin DOMAIN r.objects
    BY <1>0, CommitTreeFacts
  <2>2. DOMAIN s.objects = DOMAIN r.objects \cup {s.head}
    BY <1>0, CommitTreeFacts
  <2>3. \A c \in DOMAIN r.objects :
           /\ s.objects[c] = r.objects[c] /\ Ancestors(s, c) = Ancestors(r, c)
           /\ LineOf(s, c) = LineOf(r, c)
    BY <1>0, CommitTreeFacts
  <2>4. Tree(s, s.head).ledger = tree.ledger /\ Tree(s, s.head).current = tree.current
    BY <1>0, CommitTreeFacts
  <2>5. \A l : l \in LineOf(s, s.head) <=> l = tree.ledger \/ l \in LinesOf(r, P)
    BY <1>0, CommitTreeFacts
  <2>6. s.file = r.file /\ s.current = r.current /\ s.origin = r.origin
    BY <1>0, CommitTreeFacts
  <2> QED
    BY <2>1, <2>2, <2>3, <2>4, <2>5, <2>6
<1> SUFFICES ASSUME NEW X \in SUBSET DOMAIN r.objects, NEW C,
                    P \subseteq {r.head, r.origin} \cup X,
                    tree.ledger \in Tips(r) \cup {Tree(r, x).ledger : x \in X},
                    tree.current \in CurrentsOf(r) \cup C
             PROVE  Grows(r, s, X, C)
  BY <1>0
<1>2. r.head \in DOMAIN r.objects /\ r.origin \in DOMAIN r.objects
  BY DEF HistoryOK
<1>3. \A x \in X : Tree(r, x).ledger \in LineOf(r, x) /\ Tree(r, x).ledger \in LedgersOf(r)
  BY HistoryFacts
<1>4. tree.ledger \in LedgersOf(r)
  BY <1>3, TipsAreCommitted
<1>5. tree.ledger \in Line(r) \cup {r.file} \cup LinesOf(r, X)
  BY <1>3, TipsAreCommitted DEF LinesOf
<1>6. LedgersOf(s) \subseteq LedgersOf(r)
  <2>1. \A c \in DOMAIN s.objects : Tree(s, c).ledger \in LedgersOf(r)
    BY <1>1, <1>4 DEF LedgersOf, Tree
  <2>2. r.file \in LedgersOf(r)
    BY DEF LedgersOf
  <2> QED
    BY <1>1, <2>1, <2>2 DEF LedgersOf
<1>7. CurrentsOf(s) \subseteq CurrentsOf(r) \cup C
  <2>1. \A c \in DOMAIN s.objects : Tree(s, c).current \in CurrentsOf(r) \cup C
    BY <1>1 DEF CurrentsOf, Tree
  <2>2. r.current \in CurrentsOf(r)
    BY DEF CurrentsOf
  <2> QED
    BY <1>1, <2>1, <2>2 DEF CurrentsOf
<1>8. Line(s) \subseteq Line(r) \cup {r.file} \cup LinesOf(r, X)
  <2>1. LineOf(s, s.origin) \subseteq Line(r)
    BY <1>1, <1>2 DEF Line
  <2>2. \A p \in P : LineOf(r, p) \subseteq Line(r) \cup LinesOf(r, X)
    BY DEF Line, LinesOf
  <2> QED
    BY <1>1, <1>5, <2>1, <2>2 DEF Line, LinesOf
<1>9. Tips(s) \subseteq Tips(r) \cup {Tree(r, x).ledger : x \in X}
  BY <1>1, <1>2 DEF Tips, HeadTree, Tree
<1> QED
  BY <1>1, <1>6, <1>7, <1>8, <1>9 DEF Grows

\* git add of the ledger and a commit.
LEMMA CommitLedgerFacts ==
  ASSUME NEW r, HistoryOK(r), NEW s, s = CommitLedger(r), NEW C
  PROVE  /\ Grows(r, s, {}, C) /\ HistoryOK(s)
         /\ HeadTree(s).ledger = r.file /\ s.file = r.file /\ HeadTree(s).parent = r.head
         /\ s.rebase = r.rebase /\ s.origin = r.origin /\ s.head \notin DOMAIN r.objects
         /\ \A c \in DOMAIN r.objects : Ancestors(s, c) = Ancestors(r, c) /\ LineOf(s, c) = LineOf(r, c)
         /\ Ancestors(s, s.head) = {s.head} \cup Ancestors(r, r.head)
         /\ LineOf(s, s.head) = {r.file} \cup LineOf(r, r.head)
<1> DEFINE tree == [HeadTree(r) EXCEPT !.ledger = r.file]
<1>1. HeadTree(r) \in Trees /\ r.file \in Ledgers /\ r.head \in DOMAIN r.objects
      /\ HeadTree(r).current \in CurrentsOf(r)
  BY HistoryFacts DEF HistoryOK, Repositories
<1>2. tree \in Trees /\ tree.ledger = r.file /\ tree.current = HeadTree(r).current
  BY <1>1 DEF Trees
<1> HIDE DEF tree
<1>3. s = CommitTree(r, tree, {r.head})
  BY DEF CommitLedger, tree
<1>4. Grows(r, s, {}, C)
  <2>1. r.file \in Tips(r)
    BY DEF Tips
  <2> QED
    BY <1>1, <1>2, <1>3, <2>1, CommitGrows
<1>5. PICK P : P = {r.head}
  OBVIOUS
<1>6. /\ \A a : (\E p \in P : a \in Ancestors(r, p)) <=> a \in Ancestors(r, r.head)
      /\ LinesOf(r, P) = LineOf(r, r.head)
  BY <1>5 DEF LinesOf
<1>7. /\ HistoryOK(s) /\ s.head \notin DOMAIN r.objects
      /\ \A c \in DOMAIN r.objects : Ancestors(s, c) = Ancestors(r, c) /\ LineOf(s, c) = LineOf(r, c)
      /\ Tree(s, s.head).ledger = tree.ledger /\ Tree(s, s.head).parent = r.head
      /\ \A a : a \in Ancestors(s, s.head) <=> a = s.head \/ \E p \in P : a \in Ancestors(r, p)
      /\ \A l : l \in LineOf(s, s.head) <=> l = tree.ledger \/ l \in LinesOf(r, P)
      /\ s.file = r.file /\ s.rebase = r.rebase /\ s.origin = r.origin
  <2>1. P \in SUBSET DOMAIN r.objects /\ r.head \in P /\ s = CommitTree(r, tree, P)
    BY <1>1, <1>3, <1>5
  <2>2. HistoryOK(s) /\ s.head \notin DOMAIN r.objects
    BY <1>2, <2>1, CommitTreeFacts
  <2>3. \A c \in DOMAIN r.objects : Ancestors(s, c) = Ancestors(r, c) /\ LineOf(s, c) = LineOf(r, c)
    BY <1>2, <2>1, CommitTreeFacts
  <2>4. Tree(s, s.head).ledger = tree.ledger /\ Tree(s, s.head).parent = r.head
    BY <1>2, <2>1, CommitTreeFacts
  <2>5. \A a : a \in Ancestors(s, s.head) <=> a = s.head \/ \E p \in P : a \in Ancestors(r, p)
    BY <1>2, <2>1, CommitTreeFacts
  <2>6. \A l : l \in LineOf(s, s.head) <=> l = tree.ledger \/ l \in LinesOf(r, P)
    BY <1>2, <2>1, CommitTreeFacts
  <2>7. s.file = r.file /\ s.rebase = r.rebase /\ s.origin = r.origin
    BY <1>2, <2>1, CommitTreeFacts
  <2> QED
    BY <2>2, <2>3, <2>4, <2>5, <2>6, <2>7
<1> QED
  BY <1>2, <1>4, <1>6, <1>7 DEF HeadTree, Tree

LEMMA CommitAllFacts ==
  ASSUME NEW r, HistoryOK(r), NEW s, s = CommitAll(r), NEW C
  PROVE  Grows(r, s, {}, C) /\ s.file = r.file
<1>1. CASE ~Dirty(r)
  BY <1>1, GrowsReflexive DEF CommitAll
<1>2. CASE Dirty(r)
  <2> DEFINE tree == [HeadTree(r) EXCEPT !.ledger = r.file, !.current = r.current]
  <2>1. HeadTree(r) \in Trees /\ r.file \in Ledgers /\ r.head \in DOMAIN r.objects
        /\ r.current \in CurrentsOf(r) /\ r.current \in Missions \cup {None}
    BY HistoryFacts DEF HistoryOK, Repositories
  <2>2. tree \in Trees /\ tree.ledger = r.file /\ tree.current = r.current
    BY <2>1 DEF Trees
  <2> HIDE DEF tree
  <2>3. s = CommitTree(r, tree, {r.head})
    BY <1>2 DEF CommitAll, tree
  <2>4. r.file \in Tips(r)
    BY DEF Tips
  <2>5. {r.head} \in SUBSET DOMAIN r.objects
    BY <2>1
  <2>6. s.file = r.file
    BY <2>2, <2>3, <2>5, CommitTreeFacts
  <2>7. Grows(r, CommitTree(r, tree, {r.head}), {}, C)
    BY <2>1, <2>2, <2>4, <2>5, CommitGrows
  <2> QED
    BY <2>3, <2>6, <2>7
<1> QED
  BY <1>1, <1>2

LEMMA WriteStateFacts ==
  ASSUME NEW r, HistoryOK(r), NEW m \in Missions \cup {None}, NEW reachable \in BOOLEAN,
         NEW s, s = WriteState(r, m, reachable)
  PROVE  Grows(r, s, {}, {m}) /\ s.file = r.file
<1> DEFINE written == [r EXCEPT !.current = m]
           tree == [HeadTree(r) EXCEPT !.current = m]
<1>1. /\ HistoryOK(written) /\ written.objects = r.objects /\ written.file = r.file
      /\ written.head = r.head /\ written.origin = r.origin /\ written.current = m
      /\ \A a : Ancestors(written, a) = Ancestors(r, a) /\ LineOf(written, a) = LineOf(r, a)
  <2>1. written \in Repositories /\ written.objects = r.objects /\ written.file = r.file
        /\ written.head = r.head /\ written.origin = r.origin /\ written.current = m
    BY DEF HistoryOK, Repositories
  <2>2. \A a : Ancestors(written, a) = Ancestors(r, a)
    BY <2>1 DEF Ancestors
  <2>3. \A a : LineOf(written, a) = LineOf(r, a)
    BY <2>1, <2>2 DEF LineOf, Tree
  <2> HIDE DEF written
  <2> QED
    BY <2>1, <2>2, <2>3 DEF HistoryOK
<1> DEFINE commit == IF Readable(r) /\ HeadTree(r).current # m
                       THEN CommitTree(written, tree, {r.head}) ELSE written
<1>2. s = IF reachable THEN Push(commit) ELSE commit
  BY DEF WriteState
<1> HIDE DEF written
<1>3. Grows(r, written, {}, {m})
  BY <1>1, MovesGrow
<1>4. Grows(written, CommitTree(written, tree, {r.head}), {}, {m})
      /\ CommitTree(written, tree, {r.head}).file = r.file
  <2>1. HeadTree(r) \in Trees /\ HeadTree(r) = HeadTree(written)
    BY <1>1, HistoryFacts DEF HeadTree
  <2>2. tree \in Trees /\ tree.ledger = HeadTree(written).ledger /\ tree.current = m
    BY <2>1 DEF Trees
  <2>3. HeadTree(written).ledger \in Tips(written) /\ written.head \in DOMAIN written.objects
    BY <1>1 DEF Tips, HistoryOK
  <2> HIDE DEF tree
  <2>4. {r.head} \in SUBSET DOMAIN written.objects /\ written.head \in {r.head}
    BY <1>1, <2>3
  <2>5. CommitTree(written, tree, {r.head}).file = r.file
    BY <1>1, <2>2, <2>4, CommitTreeFacts
  <2>6. Grows(written, CommitTree(written, tree, {r.head}), {}, {m})
    BY <1>1, <2>2, <2>3, <2>4, CommitGrows
  <2> QED
    BY <2>5, <2>6
<1>5. Grows(r, commit, {}, {m}) /\ commit.file = r.file
  BY <1>1, <1>3, <1>4, GrowsTransitive
<1> HIDE DEF commit
<1>6. HistoryOK(commit)
  BY <1>5 DEF Grows
<1>7. Grows(commit, Push(commit), {}, {m}) /\ Push(commit).file = commit.file
  BY <1>6, PushGrows, PushFacts
<1> QED
  BY <1>2, <1>5, <1>7, GrowsTransitive

\* Two commits have a common ancestor.
LEMMA MergeBaseFacts ==
  ASSUME NEW r, HistoryOK(r), NEW a \in DOMAIN r.objects, NEW b \in DOMAIN r.objects
  PROVE  \E c \in Ancestors(r, a) \cap Ancestors(r, b) :
           MergeBase(r, a, b) = Tree(r, c) /\ c \in DOMAIN r.objects
<1> DEFINE S == Ancestors(r, a) \cap Ancestors(r, b)
<1>1. Len(r.objects) \in Nat /\ S \in SUBSET (0 .. Len(r.objects)) /\ 1 \in S
  BY HistoryFacts DEF HistoryOK
<1> HIDE DEF S
<1>2. Max(S) \in S
  BY <1>1, MaxIsIn
<1>3. MergeBase(r, a, b) = Tree(r, Max(S))
  BY DEF MergeBase, Tree, S
<1> QED
  BY <1>2, <1>3, HistoryFacts DEF S

\* The three ways a pull that has something to fetch can end.
FastForward(r, s) == r.head \in Ancestors(r, r.origin) /\ s = Checkout(r, r.origin)
Stopped(r, s) ==
  /\ s.objects = r.objects /\ s.head = r.origin /\ s.rebase = "conflict"
  /\ s.file = HeadTree(s).ledger
Rebased(r, s) ==
  /\ s.rebase = "none" /\ s.origin \in Ancestors(s, s.head) /\ s.file = HeadTree(s).ledger
  /\ LineOf(s, s.origin) = LineOf(r, r.origin)
  /\ \A l \in LineOf(s, s.head) : l = s.file \/ l \in LineOf(r, r.origin)
  /\ \E c \in Ancestors(r, r.origin) :
       HeadTree(r).ledger # Tree(r, c).ledger => s.file = HeadTree(r).ledger

LEMMA PullCases ==
  ASSUME NEW r, HistoryOK(r), NEW s, s = PullRebase(r), NEW C
  PROVE  /\ Grows(r, s, {}, C) /\ HistoryOK(s) /\ s.origin = r.origin
         /\ \/ s = r /\ (Dirty(r) \/ r.rebase # "none" \/ r.origin \in Ancestors(r, r.head))
            \/ /\ ~Dirty(r) /\ r.rebase = "none" /\ r.origin \notin Ancestors(r, r.head)
               /\ FastForward(r, s) \/ Stopped(r, s) \/ Rebased(r, s)
<1> DEFINE base == MergeBase(r, r.head, r.origin)
           up == r.objects[r.origin]
           mine == HeadTree(r)
           merged == [up EXCEPT !.ledger = ThreeWay(base.ledger, mine.ledger, up.ledger),
                                !.current = ThreeWay(base.current, mine.current, up.current),
                                !.edits = mine.edits \cup up.edits]
           back == Checkout(r, r.origin)
<1>1. r.head \in DOMAIN r.objects /\ r.origin \in DOMAIN r.objects
  BY DEF HistoryOK
<1>2. PICK c \in Ancestors(r, r.head) \cap Ancestors(r, r.origin) : base = Tree(r, c) /\ c \in DOMAIN r.objects
  BY <1>1, MergeBaseFacts
<1>3. base \in Trees /\ up \in Trees /\ mine \in Trees /\ up = Tree(r, r.origin) /\ mine = Tree(r, r.head)
  BY <1>1, <1>2, HistoryFacts DEF Tree
<1>4. /\ HistoryOK(back) /\ back.objects = r.objects /\ back.head = r.origin /\ back.origin = r.origin
      /\ back.file = up.ledger /\ back.current = up.current
      /\ back.rebase = IF r.rebase = "none" THEN "none" ELSE "detached"
      /\ \A a : Ancestors(back, a) = Ancestors(r, a) /\ LineOf(back, a) = LineOf(r, a)
      /\ HeadTree(back) = up
  BY <1>1, CheckoutFacts DEF Tree
<1>5. Grows(r, back, {}, C)
  <2>1. back.file = HeadTree(back).ledger /\ back.current \in CurrentsOf(r)
    BY <1>1, <1>3, <1>4, HistoryFacts
  <2> HIDE DEF back
  <2> QED
    BY <1>4, <2>1, MovesGrow
<1>6. \/ s = r /\ (Dirty(r) \/ r.rebase # "none" \/ r.origin \in Ancestors(r, r.head))
      \/ /\ ~Dirty(r) /\ r.rebase = "none" /\ r.origin \notin Ancestors(r, r.head)
         /\ \/ r.head \in Ancestors(r, r.origin) /\ s = back
            \/ s = [back EXCEPT !.rebase = "conflict"]
            \/ LET onto == CommitTree(back, merged, {r.origin}) IN s = Checkout(onto, onto.head)
  BY DEF PullRebase
<1> HIDE DEF back, base, up, mine
<1>7. CASE s = r /\ (Dirty(r) \/ r.rebase # "none" \/ r.origin \in Ancestors(r, r.head))
  BY <1>7, GrowsReflexive
<1> SUFFICES ASSUME ~Dirty(r) /\ r.rebase = "none" /\ r.origin \notin Ancestors(r, r.head)
             PROVE  /\ Grows(r, s, {}, C) /\ HistoryOK(s) /\ s.origin = r.origin
                    /\ FastForward(r, s) \/ Stopped(r, s) \/ Rebased(r, s)
  BY <1>6, <1>7
<1>8. CASE r.head \in Ancestors(r, r.origin) /\ s = back
  BY <1>4, <1>5, <1>8 DEF FastForward, back
<1>9. CASE s = [back EXCEPT !.rebase = "conflict"]
  <2>1. /\ s \in Repositories /\ s.objects = back.objects /\ s.head = back.head
        /\ s.origin = back.origin /\ s.file = back.file /\ s.current = back.current
        /\ s.rebase = "conflict"
    BY <1>4, <1>9 DEF HistoryOK, Repositories
  <2>2. \A a : Ancestors(s, a) = Ancestors(back, a)
    BY <2>1 DEF Ancestors
  <2>3. HistoryOK(s)
    BY <1>4, <2>1, <2>2 DEF HistoryOK
  <2>4. s.file = HeadTree(s).ledger
    BY <1>4, <2>1 DEF HeadTree
  <2>5. Grows(r, s, {}, C)
    <3>1. s.current \in CurrentsOf(r)
      BY <1>1, <1>3, <1>4, <2>1, HistoryFacts
    <3> QED
      BY <1>4, <2>1, <2>3, <2>4, <3>1, MovesGrow
  <2> QED
    BY <1>4, <2>1, <2>3, <2>4, <2>5 DEF Stopped
<1>10. ASSUME NEW onto, onto = CommitTree(back, merged, {r.origin}), s = Checkout(onto, onto.head)
       PROVE  /\ Grows(r, s, {}, C) /\ HistoryOK(s) /\ s.origin = r.origin /\ Rebased(r, s)
  <2>1. merged \in Trees /\ merged.ledger = ThreeWay(base.ledger, mine.ledger, up.ledger)
        /\ merged.current \in {mine.current, up.current}
    BY <1>3, ZenonT(60) DEF Trees, ThreeWay
  <2>2. merged.ledger \in {mine.ledger, up.ledger}
    BY <2>1 DEF ThreeWay
  <2>3. base.ledger # mine.ledger => merged.ledger = mine.ledger
    BY <2>1 DEF ThreeWay
  <2> HIDE DEF merged
  <2>4. PICK P : P = {r.origin}
    OBVIOUS
  <2>5. P \in SUBSET DOMAIN back.objects /\ back.head \in P
    BY <1>1, <1>4, <2>4
  <2>0. HistoryOK(back) /\ merged \in Trees /\ onto = CommitTree(back, merged, P)
    BY <1>4, <1>10, <2>1, <2>4
  <2>6. HistoryOK(onto) /\ onto.head = Len(back.objects) + 1 /\ onto.head \in DOMAIN onto.objects
    BY <2>0, <2>5, CommitTreeFacts
  <2>7. Tree(onto, onto.head).ledger = merged.ledger /\ Tree(onto, onto.head).current = merged.current
    BY <2>0, <2>5, CommitTreeFacts
  <2>8. \A a : a \in Ancestors(onto, onto.head) <=> a = onto.head \/ \E p \in P : a \in Ancestors(back, p)
    BY <2>0, <2>5, CommitTreeFacts
  <2>9. \A l : l \in LineOf(onto, onto.head) <=> l = merged.ledger \/ l \in LinesOf(back, P)
    BY <2>0, <2>5, CommitLine
  <2>10. onto.origin = back.origin /\ onto.rebase = back.rebase
    BY <2>0, <2>5, CommitTreeFacts
  <2>11. \A x \in DOMAIN back.objects : LineOf(onto, x) = LineOf(back, x)
    BY <2>0, <2>5, CommitTreeFacts
  <2>12. /\ HistoryOK(s) /\ s.objects = onto.objects /\ s.head = onto.head /\ s.origin = onto.origin
         /\ s.file = Tree(onto, onto.head).ledger /\ s.current = Tree(onto, onto.head).current
         /\ s.rebase = IF onto.rebase = "none" THEN "none" ELSE "detached"
         /\ \A a : Ancestors(s, a) = Ancestors(onto, a) /\ LineOf(s, a) = LineOf(onto, a)
         /\ HeadTree(s) = Tree(onto, onto.head)
    <3>1. s = Checkout(onto, onto.head)
      BY <1>10
    <3> QED
      BY <2>6, <3>1, CheckoutFacts
  <2>13. Rebased(r, s)
    <3>1. s.origin \in Ancestors(s, s.head)
      <4>1. r.origin \in Ancestors(back, r.origin)
        BY DEF Ancestors
      <4> QED
        BY <1>4, <2>4, <2>8, <2>10, <2>12, <4>1
    <3>2. LineOf(s, s.origin) = LineOf(r, r.origin)
      BY <1>1, <1>4, <2>10, <2>11, <2>12
    <3>3. \A l \in LineOf(s, s.head) : l = s.file \/ l \in LineOf(r, r.origin)
      BY <1>4, <2>4, <2>7, <2>9, <2>12 DEF LinesOf
    <3>4. c \in Ancestors(r, r.origin) /\ (HeadTree(r).ledger # Tree(r, c).ledger => s.file = HeadTree(r).ledger)
      BY <1>2, <2>3, <2>7, <2>12 DEF mine
    <3>5. s.rebase = "none" /\ s.file = HeadTree(s).ledger
      BY <1>4, <2>7, <2>10, <2>12
    <3> QED
      BY <3>1, <3>2, <3>3, <3>4, <3>5 DEF Rebased
  <2>14. Grows(r, s, {}, C)
    <3>1. mine.ledger \in Tips(r) /\ up.ledger \in Tips(r) /\ mine.current \in CurrentsOf(r)
          /\ up.current \in CurrentsOf(r)
      BY <1>1, <1>3, HistoryFacts DEF Tips, mine
    <3> DEFINE X == {r.head}
    <3>2. X \in SUBSET DOMAIN back.objects /\ merged.ledger \in Tips(back) \cup {Tree(back, x).ledger : x \in X}
      <4>1. up.ledger \in Tips(back) /\ mine.ledger = Tree(back, r.head).ledger
        BY <1>3, <1>4 DEF Tips, Tree
      <4> QED
        BY <1>1, <1>4, <2>2, <4>1
    <3>3. merged.current \in CurrentsOf(back) \cup {mine.current}
      <4>1. up.current \in CurrentsOf(back)
        BY <1>4 DEF CurrentsOf
      <4> QED
        BY <2>1, <4>1
    <3>4. Grows(back, onto, X, {mine.current} \cup C)
      <4>1. P \subseteq {back.head, back.origin} \cup X
        BY <1>4, <2>4
      <4> HIDE DEF X
      <4> QED
        BY <1>4, <1>10, <2>1, <2>4, <2>5, <3>2, <3>3, <4>1, CommitGrows
    <3>5. Grows(r, back, X, {mine.current} \cup C)
      BY <1>5, GrowsWiden
    <3>6. Grows(r, onto, X, {mine.current} \cup C)
      <4>1. X \subseteq DOMAIN r.objects
        BY <1>1
      <4> HIDE DEF X
      <4> QED
        BY <3>4, <3>5, <4>1, GrowsTransitive
    <3>7. Grows(onto, s, {onto.head}, {mine.current} \cup C)
      BY <1>10, <2>6, CheckoutGrows
    <3>8. Grows(onto, s, {}, C)
      <4>1. s.head \in {onto.head, onto.origin} /\ s.origin \in {onto.head, onto.origin}
        BY <2>12
      <4>2. s.file = HeadTree(s).ledger /\ s.current \in CurrentsOf(onto)
        BY <2>6, <2>12, HistoryFacts
      <4> QED
        BY <2>6, <2>12, <4>1, <4>2, MovesGrow
    <3>9. Grows(onto, s, X, {mine.current} \cup C)
      BY <3>8, GrowsWiden
    <3>10. Grows(r, s, X, {mine.current} \cup C)
      <4>1. X \subseteq DOMAIN r.objects
        BY <1>1
      <4> HIDE DEF X
      <4> QED
        BY <3>6, <3>9, <4>1, GrowsTransitive
    <3>11. LinesOf(r, X) \subseteq Line(r) /\ {Tree(r, x).ledger : x \in X} \subseteq Tips(r)
           /\ {mine.current} \subseteq CurrentsOf(r)
      BY <1>3, <3>1 DEF LinesOf, Line, Tips, HeadTree, Tree
    <3> HIDE DEF X
    <3> QED
      BY <3>10, <3>11 DEF Grows, LinesOf
  <2> QED
    BY <1>4, <2>10, <2>12, <2>13, <2>14
<1> QED
  BY <1>6, <1>8, <1>9, <1>10

LEMMA PullAndPushGrows ==
  ASSUME NEW r, HistoryOK(r), NEW C PROVE Grows(r, PullAndPush(r), {}, C)
<1>1. CASE Dirty(r)
  BY <1>1, GrowsReflexive DEF PullAndPush
<1>2. CASE ~Dirty(r)
  <2>1. PICK t : t = PullRebase(r)
    OBVIOUS
  <2>2. Grows(r, t, {}, C) /\ HistoryOK(t)
    BY <2>1, PullCases
  <2>3. Grows(t, Push(t), {}, C)
    BY <2>2, PushGrows
  <2>4. Grows(r, Push(t), {}, C)
    BY <2>2, <2>3, GrowsTransitive
  <2> QED
    BY <1>2, <2>1, <2>4 DEF PullAndPush
<1> QED
  BY <1>1, <1>2

\* git merge of a workpiece that starts at commit `at`.
LEMMA MergeGrows ==
  ASSUME NEW r, HistoryOK(r), NEW at \in DOMAIN r.objects, NEW edits \in SUBSET Edits, NEW C
  PROVE  Grows(r, MergeWorkpiece(r, at, edits), {at}, C)
<1> DEFINE base == MergeBase(r, r.head, at)
           theirs == r.objects[at]
           merged == [ledger |-> ThreeWay(base.ledger, HeadTree(r).ledger, theirs.ledger),
                      current |-> ThreeWay(base.current, HeadTree(r).current, theirs.current),
                      edits |-> HeadTree(r).edits \cup edits, parent |-> r.head, older |-> {}]
           s == CommitTree(r, merged, {r.head, at})
<1>1. MergeWorkpiece(r, at, edits) = IF UpToDate(r, at, edits) THEN r ELSE Checkout(s, s.head)
  BY DEF MergeWorkpiece
<1>2. r.head \in DOMAIN r.objects /\ r.head \in Nat
  BY HistoryFacts DEF HistoryOK, Repositories
<1>3. base \in Trees /\ HeadTree(r) \in Trees /\ theirs \in Trees /\ theirs = Tree(r, at)
      /\ theirs.current \in CurrentsOf(r) /\ HeadTree(r).current \in CurrentsOf(r)
  <2>1. PICK c \in DOMAIN r.objects : base = Tree(r, c)
    BY <1>2, MergeBaseFacts
  <2>2. theirs = Tree(r, at)
    BY DEF Tree
  <2> HIDE DEF base, theirs
  <2> QED
    BY <1>2, <2>1, <2>2, HistoryFacts
<1> HIDE DEF base, theirs
<1>4. merged \in Trees
  BY <1>2, <1>3 DEF ThreeWay, Trees
<1>5. merged.ledger \in {HeadTree(r).ledger, theirs.ledger}
      /\ merged.current \in {HeadTree(r).current, theirs.current}
  BY DEF ThreeWay
<1>6. PICK P : P = {r.head, at}
  OBVIOUS
<1>7. PICK X : X = {at}
  OBVIOUS
<1> HIDE DEF merged
<1>8. P \in SUBSET DOMAIN r.objects /\ r.head \in P /\ s = CommitTree(r, merged, P)
      /\ X \in SUBSET DOMAIN r.objects /\ P \subseteq {r.head, r.origin} \cup X
  BY <1>2, <1>6, <1>7
<1> HIDE DEF s
<1>9. HistoryOK(s) /\ s.head \in DOMAIN s.objects
  BY <1>4, <1>8, CommitTreeFacts DEF HistoryOK
<1>10. Grows(r, s, X, CurrentsOf(r) \cup C)
  <2>1. merged.ledger \in Tips(r) \cup {Tree(r, x).ledger : x \in X}
    BY <1>3, <1>5, <1>7 DEF Tips
  <2>2. merged.current \in CurrentsOf(r) \cup (CurrentsOf(r) \cup C)
    BY <1>3, <1>5
  <2> QED
    BY <1>4, <1>8, <2>1, <2>2, CommitGrows
<1>11. Grows(s, Checkout(s, s.head), X, CurrentsOf(r) \cup C)
  <2>1. Grows(s, Checkout(s, s.head), {s.head}, CurrentsOf(r) \cup C)
    BY <1>9, CheckoutGrows
  <2>2. PICK t : t = Checkout(s, s.head)
    OBVIOUS
  <2>3. HistoryOK(t) /\ t.objects = s.objects /\ t.head = s.head /\ t.origin = s.origin
        /\ t.file = HeadTree(t).ledger /\ t.current \in CurrentsOf(s)
    BY <1>9, <2>2, CheckoutFacts, HistoryFacts
  <2>4. Grows(s, t, {}, CurrentsOf(r) \cup C)
    BY <1>9, <2>3, MovesGrow
  <2> QED
    BY <2>2, <2>4, GrowsWiden
<1>12. Grows(r, Checkout(s, s.head), X, CurrentsOf(r) \cup C)
  BY <1>8, <1>10, <1>11, GrowsTransitive
<1>13. Grows(r, Checkout(s, s.head), X, C)
  BY <1>12 DEF Grows
<1> QED
  BY <1>1, <1>7, <1>13, GrowsReflexive

-----------------------------------------------------------------------------
(* An opening that reached the ledger in the working tree and nothing else.  *)

LEMMA PushContains ==
  ASSUME NEW r, HistoryOK(r), NEW m, Contained(r, m)
  PROVE  Contained(Push(r), m)
<1>1. PICK s : s = Push(r)
  OBVIOUS
<1>2. /\ s.head = r.head /\ s.file = r.file /\ s.origin \in {r.head, r.origin}
      /\ \A a : Ancestors(s, a) = Ancestors(r, a) /\ LineOf(s, a) = LineOf(r, a)
  BY <1>1, PushFacts
<1>3. Line(s) \subseteq Line(r)
  BY <1>2 DEF Line
<1>4. r.head \in Ancestors(r, r.head)
  BY DEF Ancestors
<1>5. Contained(s, m)
  BY <1>2, <1>3, <1>4 DEF Contained
<1> QED
  BY <1>1, <1>5

LEMMA CommitLedgerContains ==
  ASSUME NEW r, HistoryOK(r), NEW m, Contained(r, m), NEW s, s = CommitLedger(r)
  PROVE  Contained(s, m)
<1>1. /\ s.file = r.file /\ s.origin = r.origin
      /\ \A c \in DOMAIN r.objects : Ancestors(s, c) = Ancestors(r, c) /\ LineOf(s, c) = LineOf(r, c)
      /\ Ancestors(s, s.head) = {s.head} \cup Ancestors(r, r.head)
      /\ LineOf(s, s.head) = {r.file} \cup LineOf(r, r.head)
  BY CommitLedgerFacts
<1>2. r.origin \in DOMAIN r.objects
  BY DEF HistoryOK
<1>3. Line(s) \subseteq Line(r) \cup {r.file}
  BY <1>1, <1>2 DEF Line
<1> QED
  BY <1>1, <1>2, <1>3 DEF Contained

\* An opening that no other branch has survives a pull, or is gone without a trace.
LEMMA PullKeepsOpening ==
  ASSUME NEW r, HistoryOK(r), ~Dirty(r), NEW m, OpenedIn(r.file, m),
         r.origin \notin Ancestors(r, r.head),
         \A l \in LineOf(r, r.origin) : ~OpenedIn(l, m),
         NEW s, s = PullRebase(r), s # r
  PROVE  /\ HistoryOK(s) /\ s.origin = r.origin /\ LineOf(s, s.origin) = LineOf(r, r.origin)
         /\ \/ /\ s.objects = r.objects /\ s.head = r.origin /\ s.rebase = "conflict"
               /\ ~OpenedIn(s.file, m) /\ \A l \in Line(s) : ~OpenedIn(l, m)
            \/ /\ s.rebase = "none" /\ s.origin \in Ancestors(s, s.head)
               /\ s.file = HeadTree(s).ledger /\ OpenedIn(s.file, m)
<1>1. HistoryOK(s) /\ s.origin = r.origin /\ (FastForward(r, s) \/ Stopped(r, s) \/ Rebased(r, s))
  BY PullCases
<1>2. r.head \in DOMAIN r.objects /\ r.origin \in DOMAIN r.objects /\ HeadTree(r) = Tree(r, r.head)
      /\ HeadTree(r).ledger = r.file
  BY HistoryFacts DEF HistoryOK, Dirty
<1>3. ~FastForward(r, s)
  BY <1>2, LinesAreNested DEF FastForward
<1>4. CASE Stopped(r, s)
  <2>1. LineOf(s, r.origin) = LineOf(r, r.origin)
    BY <1>4 DEF Stopped, LineOf, Ancestors, Tree
  <2>2. s.file \in LineOf(r, r.origin)
    BY <1>2, <1>4, HistoryFacts DEF Stopped, HeadTree, Tree
  <2> QED
    BY <1>1, <1>4, <2>1, <2>2 DEF Stopped, Line
<1>5. CASE Rebased(r, s)
  <2>1. PICK c \in Ancestors(r, r.origin) :
          HeadTree(r).ledger # Tree(r, c).ledger => s.file = HeadTree(r).ledger
    BY <1>5 DEF Rebased
  <2>2. ~OpenedIn(Tree(r, c).ledger, m)
    BY <1>2, LinesAreNested
  <2>3. s.file = r.file
    BY <1>2, <2>1, <2>2
  <2> QED
    BY <1>1, <1>5, <2>3 DEF Rebased
<1> QED
  BY <1>1, <1>3, <1>4, <1>5

LEMMA PullAndPushContains ==
  ASSUME NEW r, HistoryOK(r), NEW m, Contained(r, m)
  PROVE  Contained(PullAndPush(r), m)
<1>1. PICK s : s = PullRebase(r)
  OBVIOUS
<1>2. HistoryOK(s) /\ s.origin = r.origin /\ Grows(r, s, {}, {})
  BY <1>1, PullCases
<1>3. ASSUME ~Dirty(r), s # r PROVE Contained(s, m)
  <2>1. r.origin \notin Ancestors(r, r.head)
    BY <1>1, <1>3, PullCases
  <2>2. CASE ~\E l \in Line(r) \cup {r.file} : OpenedIn(l, m)
    <3>1. Line(s) \cup {s.file} \subseteq Line(r) \cup {r.file}
      BY <1>2, TipsAreCommitted DEF Grows, LinesOf, Tips
    <3> QED
      BY <2>2, <3>1 DEF Contained
  <2>3. CASE \E l \in Line(r) \cup {r.file} : OpenedIn(l, m)
    <3>1. OpenedIn(r.file, m) /\ \A l \in LineOf(r, r.origin) : ~OpenedIn(l, m)
      BY <2>1, <2>3 DEF Contained
    <3>2. \/ ~OpenedIn(s.file, m) /\ \A l \in Line(s) : ~OpenedIn(l, m)
          \/ s.origin \in Ancestors(s, s.head) /\ OpenedIn(s.file, m)
      BY <1>1, <1>3, <2>1, <3>1, PullKeepsOpening
    <3> QED
      BY <3>2 DEF Contained
  <2> QED
    BY <2>2, <2>3
<1>4. Contained(r, m) /\ ~Dirty(r) => Contained(Push(s), m)
  BY <1>2, <1>3, PushContains
<1> QED
  BY <1>1, <1>4 DEF PullAndPush

\* What the ledger routine makes of the repository.
Recorded(r) == {CommitLedger(r), PullAndPush(CommitLedger(r))}

LEMMA RecordedGrows ==
  ASSUME NEW r, HistoryOK(r), NEW s \in Recorded(r)
  PROVE  Grows(r, s, {}, {}) /\ \A m : Contained(r, m) => Contained(s, m)
<1>1. PICK t : t = CommitLedger(r)
  OBVIOUS
<1>2. Grows(r, t, {}, {}) /\ HistoryOK(t) /\ \A m : Contained(r, m) => Contained(t, m)
  BY <1>1, CommitLedgerFacts, CommitLedgerContains
<1>3. Grows(t, PullAndPush(t), {}, {}) /\ \A m : Contained(t, m) => Contained(PullAndPush(t), m)
  BY <1>2, PullAndPushGrows, PullAndPushContains
<1>4. Grows(r, PullAndPush(t), {}, {})
  BY <1>2, <1>3, GrowsTransitive
<1> QED
  BY <1>1, <1>2, <1>3, <1>4 DEF Recorded

\* An opening is published on every branch, or the clone can go back behind it.
LEMMA OpeningRecorded ==
  ASSUME NEW r, HistoryOK(r), NEW m, OpenedIn(r.file, m), \A l \in Line(r) : ~OpenedIn(l, m),
         NEW s \in Recorded(r)
  PROVE  /\ Published(s) => \A l \in Tips(s) : OpenedIn(l, m)
         /\ ~Published(s) =>
              /\ s.head # 1
              /\ \A l \in LineOf(s, HeadTree(s).parent) \cup LineOf(s, s.origin) : ~OpenedIn(l, m)
<1>1. PICK t : t = CommitLedger(r)
  OBVIOUS
<1>2. /\ HistoryOK(t) /\ HeadTree(t).ledger = r.file /\ t.file = r.file /\ HeadTree(t).parent = r.head
      /\ t.rebase = r.rebase /\ t.origin = r.origin /\ t.head \notin DOMAIN r.objects
      /\ \A c \in DOMAIN r.objects : Ancestors(t, c) = Ancestors(r, c) /\ LineOf(t, c) = LineOf(r, c)
  BY <1>1, CommitLedgerFacts
<1>3. r.head \in DOMAIN r.objects /\ r.origin \in DOMAIN r.objects /\ 1 \in DOMAIN r.objects
  BY HistoryFacts DEF HistoryOK
<1>4. ~Published(t) /\ t.head # 1
      /\ \A l \in LineOf(t, HeadTree(t).parent) \cup LineOf(t, t.origin) : ~OpenedIn(l, m)
  BY <1>2, <1>3 DEF Published, Line
<1>5. CASE s = t
  BY <1>4, <1>5
<1>6. CASE s = PullAndPush(t) /\ s # t
  <2>1. PICK u : u = PullRebase(t)
    OBVIOUS
  <2>2. ~Dirty(t) /\ s = Push(u)
    BY <1>6, <2>1 DEF PullAndPush
  <2>3. CASE u = t
    <3>1. s.origin = s.head /\ s.rebase = "none" /\ s.head = t.head /\ s.file = t.file /\ s.objects = t.objects
      BY <1>2, <1>6, <2>2, <2>3, PushFacts DEF Push
    <3> QED
      BY <1>2, <3>1 DEF Published, Tips, HeadTree, Tree
  <2>4. CASE u # t
    <3>1. t.origin \notin Ancestors(t, t.head)
      BY <1>2, <2>1, <2>4, PullCases
    <3>2. \A l \in LineOf(t, t.origin) : ~OpenedIn(l, m)
      BY <1>4
    <3>3. HistoryOK(u) /\ u.origin = t.origin /\ LineOf(u, u.origin) = LineOf(t, t.origin)
          /\ \/ u.objects = t.objects /\ u.head = t.origin /\ u.rebase = "conflict"
             \/ /\ u.rebase = "none" /\ u.origin \in Ancestors(u, u.head)
                /\ u.file = HeadTree(u).ledger /\ OpenedIn(u.file, m)
      BY <1>2, <2>1, <2>2, <2>4, <3>1, <3>2, PullKeepsOpening
    <3>4. /\ s.objects = u.objects /\ s.head = u.head /\ s.file = u.file /\ s.rebase = u.rebase
          /\ s.origin = IF u.rebase = "none" /\ u.origin \in Ancestors(u, u.head) THEN u.head ELSE u.origin
          /\ \A a : LineOf(s, a) = LineOf(u, a)
      BY <2>2, <3>3, PushFacts
    <3>5. CASE u.objects = t.objects /\ u.head = t.origin /\ u.rebase = "conflict"
      <4>1. t.origin # 1 /\ t.origin \in DOMAIN t.objects
        BY <1>2, <3>1 DEF HistoryOK
      <4>2. t.objects[t.origin].parent \in Ancestors(t, t.origin)
        BY <1>2, <4>1 DEF HistoryOK, Ancestors
      <4>3. LineOf(t, t.objects[t.origin].parent) \subseteq LineOf(t, t.origin)
        BY <1>2, <4>1, <4>2, LinesAreNested
      <4>4. LineOf(u, t.objects[t.origin].parent) = LineOf(t, t.objects[t.origin].parent)
        BY <3>5 DEF LineOf, Ancestors, Tree
      <4>5. HeadTree(s).parent = t.objects[t.origin].parent
        BY <3>4, <3>5 DEF HeadTree
      <4>6. ~Published(s) /\ s.head # 1
        BY <3>4, <3>5, <4>1 DEF Published
      <4> QED
        BY <3>2, <3>3, <3>4, <3>5, <4>3, <4>4, <4>5, <4>6
    <3>6. CASE u.rebase = "none" /\ u.origin \in Ancestors(u, u.head)
                /\ u.file = HeadTree(u).ledger /\ OpenedIn(u.file, m)
      BY <3>4, <3>6 DEF Published, Tips, HeadTree, Tree
    <3> QED
      BY <3>3, <3>5, <3>6
  <2> QED
    BY <2>3, <2>4
<1> QED
  BY <1>1, <1>5, <1>6 DEF Recorded

-----------------------------------------------------------------------------
(* What one more entry makes of a sound ledger.                             *)

LEMMA SoundIsValid ==
  ASSUME NEW ledger, Sound(ledger), NEW current
  PROVE  Violations(ledger, current) \subseteq {"unmatched-mission-open"}
<1>1. \A i, j \in DOMAIN ledger :
        {ledger[i].kind, ledger[j].kind} \subseteq Opening
          => ledger[i].kind \in Opening /\ ledger[j].kind \in Opening
  OBVIOUS
<1> QED
  BY <1>1 DEF Sound, Violations

\* A mission the ledger opened, and that is not the current one, has ended.
LEMMA NoUnmatched ==
  ASSUME NEW ledger, NEW current, Violations(ledger, current) = {}, NEW m, m # current,
         OpenedIn(ledger, m)
  PROVE  EndedIn(ledger, m)
<1>1. Unmatched(ledger) \ {current} = {}
  BY DEF Violations
<1>2. PICK i \in DOMAIN ledger : ledger[i].mission = m /\ ledger[i].kind \in Opening
  BY DEF OpenedIn, OfMission
<1>3. \E k \in OfMission(ledger, Terminal, m) : i < k
  BY <1>1, <1>2 DEF Unmatched
<1> QED
  BY <1>3 DEF EndedIn

Longer(ledger, kind, m) == Append(ledger, Entry(kind, m, Len(ledger)))

LEMMA EntriesAfter ==
  ASSUME NEW ledger \in Ledgers, NEW kind \in Kinds, NEW m \in 0 .. MaxMissions,
         NEW longer, longer = Longer(ledger, kind, m)
  PROVE  /\ longer \in Ledgers
         /\ \A x : OpenedIn(longer, x) <=> OpenedIn(ledger, x) \/ (kind \in Opening /\ x = m)
         /\ \A x : EndedIn(longer, x) <=> EndedIn(ledger, x) \/ (kind \in Terminal /\ x = m)
         /\ (Sound(ledger) /\ (kind \in Opening => ~OpenedIn(ledger, m))
               /\ (kind \in Terminal => OpenedIn(ledger, m) /\ ~EndedIn(ledger, m)))
              => Sound(longer)
<1> DEFINE n == Len(ledger) + 1
           e == Entry(kind, m, Len(ledger))
           Entries == [kind : Kinds, mission : 0 .. MaxMissions, prev : Nat]
<1>1. ledger \in Seq(Entries) /\ Len(ledger) \in Nat /\ e \in Entries
  BY DEF Ledgers, Entry
<1>2. e.kind = kind /\ e.mission = m /\ e.prev = Len(ledger)
  BY DEF Entry
<1> HIDE DEF e, Entries
<1>3. /\ longer \in Seq(Entries) /\ Len(longer) = n
      /\ longer[n] = e /\ \A i \in 1 .. Len(ledger) : longer[i] = ledger[i]
  BY <1>1, AppendProperties DEF e, Longer
<1>4. DOMAIN ledger = 1 .. Len(ledger) /\ DOMAIN longer = 1 .. n
  BY <1>1, <1>3
<1>5. /\ DOMAIN longer = DOMAIN ledger \cup {n} /\ n \notin DOMAIN ledger /\ n \in Nat
      /\ \A i \in DOMAIN ledger : longer[i] = ledger[i] /\ i \in Nat /\ i < n
  BY <1>1, <1>3, <1>4
<1> HIDE DEF n
<1>6. \A x, K : OfMission(longer, K, x) =
                  OfMission(ledger, K, x) \cup (IF kind \in K /\ x = m THEN {n} ELSE {})
  BY <1>2, <1>3, <1>5 DEF OfMission
<1>7. \A x : OpenedIn(longer, x) <=> OpenedIn(ledger, x) \/ (kind \in Opening /\ x = m)
  BY <1>6 DEF OpenedIn
<1>8. \A x : EndedIn(longer, x) <=> EndedIn(ledger, x) \/ (kind \in Terminal /\ x = m)
  BY <1>6 DEF EndedIn
<1>9. ASSUME Sound(ledger), kind \in Opening => ~OpenedIn(ledger, m),
             kind \in Terminal => OpenedIn(ledger, m) /\ ~EndedIn(ledger, m)
      PROVE  Sound(longer)
  <2>1. ASSUME NEW i \in DOMAIN longer PROVE longer[i].prev = i - 1
    BY <1>1, <1>2, <1>3, <1>5, <1>9 DEF Sound, n
  <2>2. ASSUME NEW i \in DOMAIN longer, NEW j \in DOMAIN longer,
               longer[i].kind \in Opening, longer[j].kind \in Opening,
               longer[i].mission = longer[j].mission
        PROVE  i = j
    <3>1. CASE i \in DOMAIN ledger /\ j \in DOMAIN ledger
      BY <1>5, <1>9, <2>2, <3>1 DEF Sound
    <3>2. ASSUME NEW a \in DOMAIN ledger, longer[a].kind \in Opening, longer[a].mission = m,
                 kind \in Opening
          PROVE  FALSE
      BY <1>5, <1>9, <3>2 DEF OpenedIn, OfMission
    <3> QED
      BY <1>2, <1>3, <1>5, <2>2, <3>1, <3>2
  <2>3. ASSUME NEW i \in DOMAIN longer, longer[i].kind \in Terminal PROVE OpenBefore(longer, i)
    <3>1. CASE i \in DOMAIN ledger
      <4>1. OpenBefore(ledger, i)
        BY <1>5, <1>9, <2>3, <3>1 DEF Sound, Orphans
      <4>2. PICK j \in OfMission(ledger, Opening, ledger[i].mission) :
              j < i /\ \A k \in OfMission(ledger, Terminal, ledger[i].mission) : ~(j < k /\ k < i)
        BY <4>1 DEF OpenBefore
      <4>3. longer[i] = ledger[i] /\ i < n /\ ~(n < i)
        BY <1>5, <3>1
      <4>4. j \in OfMission(longer, Opening, longer[i].mission)
        BY <1>6, <4>2, <4>3
      <4>5. \A k \in OfMission(longer, Terminal, longer[i].mission) : ~(j < k /\ k < i)
        BY <1>6, <4>2, <4>3
      <4> QED
        BY <4>2, <4>4, <4>5 DEF OpenBefore
    <3>2. CASE i = n
      <4>1. longer[i].mission = m /\ OpenedIn(ledger, m) /\ ~EndedIn(ledger, m)
        BY <1>2, <1>3, <1>9, <2>3, <3>2
      <4>2. PICK j : j \in OfMission(ledger, Opening, m)
        BY <4>1 DEF OpenedIn
      <4>3. j < i /\ j \in OfMission(longer, Opening, m)
        BY <1>5, <1>6, <3>2, <4>2 DEF OfMission
      <4>4. \A k \in OfMission(longer, Terminal, m) : ~(k < i)
        BY <1>5, <1>6, <3>2, <4>1 DEF EndedIn
      <4> QED
        BY <4>1, <4>3, <4>4 DEF OpenBefore
    <3> QED
      BY <1>5, <3>1, <3>2
  <2> QED
    BY <2>1, <2>2, <2>3 DEF Sound, Orphans
<1> QED
  BY <1>1, <1>3, <1>7, <1>8, <1>9 DEF Ledgers, Entries

\* The number mission.open chooses is free.
LEMMA NextMissionIsFree ==
  ASSUME StateOK, repo.file \in Ledgers
  PROVE  /\ NextMission \in Nat \ {0}
         /\ NextMission \in Missions =>
              manifest[NextMission].state = "none" /\ ~OpenedIn(repo.file, NextMission)
<1> DEFINE S == {0} \cup {m \in Missions : manifest[m].state # "none"}
                \cup {repo.file[i].mission : i \in {j \in DOMAIN repo.file : repo.file[j].kind \in Opening}}
<1>1. MaxMissions \in Nat
  BY LifecycleAssumption
<1>2. S \in SUBSET (0 .. MaxMissions) /\ 0 \in S
  <2>1. \A i \in DOMAIN repo.file : repo.file[i].mission \in 0 .. MaxMissions
    <3> DEFINE Entries == [kind : Kinds, mission : 0 .. MaxMissions, prev : Nat]
    <3>1. repo.file \in Seq(Entries)
      BY DEF Ledgers
    <3> HIDE DEF Entries
    <3>2. \A i \in DOMAIN repo.file : repo.file[i] \in Entries
      BY <3>1
    <3> QED
      BY <3>2 DEF Entries
  <2> QED
    BY <1>1, <2>1 DEF Missions
<1>3. NextMission = 1 + Max(S)
  BY DEF NextMission
<1> HIDE DEF S
<1>4. Max(S) \in S /\ \A x \in S : Max(S) >= x
  BY <1>1, <1>2, MaxIsIn
<1>5. Max(S) \in Nat /\ NextMission \notin S
  <2>1. \A x \in S : x \in Nat
    BY <1>1, <1>2
  <2>2. PICK max : max = Max(S)
    OBVIOUS
  <2> QED
    BY <1>3, <1>4, <2>1, <2>2
<1>6. NextMission \in Nat \ {0}
  BY <1>3, <1>5
<1>7. \A m \in Missions : manifest[m].state # "none" => m \in S
  BY DEF S
<1>8. OpenedIn(repo.file, NextMission) => NextMission \in S
  BY DEF S, OpenedIn, OfMission
<1> QED
  BY <1>5, <1>6, <1>7, <1>8

-----------------------------------------------------------------------------
(* What every step keeps of the record.                                     *)

\* A commit that holds what a branch, the working tree or one of the commits X holds.
Drawn(c, X) ==
  /\ LineOf(repo', c) \subseteq Line(repo) \cup {repo.file} \cup LinesOf(repo, X)
  /\ Tree(repo', c).ledger \in Tips(repo) \cup {Tree(repo, x).ledger : x \in X}

LEMMA RecordKept ==
  ASSUME Record, StateOK, NEW X \in SUBSET DOMAIN repo.objects, NEW C, Grows(repo, repo', X, C),
         \A x \in X : \E n \in Missions : Engaged(n) /\ x \in Bases(n),
         \A m \in Missions : Bases(m) \subseteq DOMAIN repo.objects,
         \A m \in Missions :
           /\ manifest[m].state \in {"closed", "aborted"}
                => manifest'[m].state \in {"closed", "aborted"}
           /\ manifest'[m].state = "none" => manifest[m].state = "none"
           /\ Engaged(m)' => Engaged(m)
           /\ Held(m)' => Held(m) \/ (Bases(m)' = {} /\ \A l \in Tips(repo') : OpenedIn(l, m))
           /\ Engaged(m)' => \A c \in Bases(m)' : c \in Bases(m) \/ Drawn(c, X),
         \A m \in C \ {None} :
           manifest'[m].state # "none" /\ ~\E p \in Procs : proc'[p].cmd = "open" /\ proc'[p].m = m,
         \A p \in Procs : proc'[p].cmd = "open" =>
           proc'[p].m = None \/ (proc[p].cmd = "open" /\ proc[p].m = proc'[p].m),
         \/ \E n \in Missions : Engaged(n)
         \/ X = {} /\ \A m \in Missions : Contained(repo, m) => Contained(repo', m)
  PROVE  Record'
<1>0. HistoryOK(repo) /\ HistoryOK(repo') /\ CurrentsOf(repo') \subseteq Missions \cup {None}
  BY HistoryFacts DEF StateOK, Grows
<1>1. \A m, n \in Missions : Engaged(m)' /\ Engaged(n)' => m = n
  BY DEF Record
<1>2. \A l \in LedgersOf(repo') :
        Sound(l) /\ \A m \in Missions : EndedIn(l, m) => manifest'[m].state \in {"closed", "aborted"}
  BY DEF Record, Grows
<1>3. \A m \in CurrentsOf(repo') \ {None} :
        manifest'[m].state # "none" /\ ~\E p \in Procs : proc'[p].cmd = "open" /\ proc'[p].m = m
  BY <1>0 DEF Record, Grows
<1>4. ASSUME NEW m \in Missions, Held(m)'
      PROVE  /\ \A l \in Tips(repo') : OpenedIn(l, m)
             /\ \A c \in Bases(m)' : OpenedIn(Tree(repo', c).ledger, m)
  <2>1. CASE Bases(m)' = {} /\ \A l \in Tips(repo') : OpenedIn(l, m)
    BY <2>1
  <2>2. CASE Held(m)
    <3>1. /\ \A l \in Tips(repo) : OpenedIn(l, m)
          /\ \A c \in Bases(m) : OpenedIn(Tree(repo, c).ledger, m)
          /\ Engaged(m)
      BY <2>2 DEF Record, Held
    <3>2. \A x \in X : x \in Bases(m)
      BY <3>1 DEF Record
    <3>3. \A l \in Tips(repo) \cup {Tree(repo, x).ledger : x \in X} : OpenedIn(l, m)
      BY <3>1, <3>2
    <3>4. \A l \in Tips(repo') : OpenedIn(l, m)
      BY <3>3 DEF Grows
    <3>5. ASSUME NEW c \in Bases(m)' PROVE OpenedIn(Tree(repo', c).ledger, m)
      <4>1. Engaged(m)'
        BY <1>4 DEF Held
      <4>2. CASE Drawn(c, X)
        BY <3>3, <4>2 DEF Drawn
      <4>3. CASE c \in Bases(m)
        <5>1. Tree(repo', c) = Tree(repo, c)
          BY <4>3 DEF Tree, Grows
        <5> QED
          BY <3>1, <4>3, <5>1
      <4> QED
        BY <4>1, <4>2, <4>3
    <3> QED
      BY <3>4, <3>5
  <2> QED
    BY <1>4, <2>1, <2>2
<1>5. ASSUME NEW m \in Missions, manifest'[m].state = "none"
      PROVE  /\ Contained(repo', m)
             /\ \A n \in Missions : Engaged(n)' => \A l \in Reach(n)' : ~OpenedIn(l, m)
  <2>1. manifest[m].state = "none" /\ Contained(repo, m)
    BY <1>5 DEF Record
  <2>2. Line(repo') \cup {repo'.file} \subseteq Line(repo) \cup {repo.file} \cup LinesOf(repo, X)
    <3>1. repo'.file \in Tips(repo') /\ Tips(repo) \subseteq Line(repo) \cup {repo.file}
      BY <1>0, TipsAreCommitted DEF Tips
    <3>2. \A x \in X : Tree(repo, x).ledger \in LinesOf(repo, X)
      BY <1>0, HistoryFacts DEF LinesOf
    <3> QED
      BY <3>1, <3>2 DEF Grows
  <2>3. ASSUME NEW n \in Missions, Engaged(n)
        PROVE  \A l \in Line(repo) \cup {repo.file} \cup LinesOf(repo, X) : ~OpenedIn(l, m)
    <3>1. X \subseteq Bases(n)
      BY <2>3 DEF Record
    <3>2. Line(repo) \cup {repo.file} \cup LinesOf(repo, X) \subseteq Reach(n)
      BY <3>1 DEF Reach, LinesOf
    <3> QED
      BY <2>1, <2>3, <3>2 DEF Record
  <2>4. Contained(repo', m)
    <3>1. CASE \E n \in Missions : Engaged(n)
      BY <2>2, <2>3, <3>1 DEF Contained
    <3> QED
      BY <2>1, <3>1
  <2>5. ASSUME NEW n \in Missions, Engaged(n)', NEW l \in Reach(n)'
        PROVE  ~OpenedIn(l, m)
    <3>1. Engaged(n)
      BY <2>5
    <3>2. CASE l \in Line(repo') \cup {repo'.file}
      BY <2>2, <2>3, <3>1, <3>2
    <3>3. CASE l \in LinesOf(repo', Bases(n)')
      <4>1. PICK c \in Bases(n)' : l \in LineOf(repo', c)
        BY <3>3 DEF LinesOf
      <4>2. CASE Drawn(c, X)
        BY <2>3, <3>1, <4>1, <4>2 DEF Drawn
      <4>3. CASE c \in Bases(n)
        <5>1. c \in DOMAIN repo.objects /\ Ancestors(repo, c) \subseteq DOMAIN repo.objects
          BY <1>0, <4>3, HistoryFacts
        <5>2. Ancestors(repo', c) = Ancestors(repo, c)
          BY <5>1 DEF Ancestors, Grows
        <5>3. l \in LineOf(repo, c)
          BY <4>1, <5>1, <5>2 DEF LineOf, Tree, Grows
        <5>4. l \in Reach(n)
          BY <4>3, <5>3 DEF Reach, LinesOf
        <5> QED
          BY <2>1, <3>1, <5>4 DEF Record
      <4> QED
        BY <2>5, <4>1, <4>2, <4>3
    <3> QED
      BY <2>5, <3>2, <3>3 DEF Reach
  <2> QED
    BY <2>4, <2>5
<1> QED
  BY <1>1, <1>2, <1>3, <1>4, <1>5 DEF Record

LEMMA BasesExist ==
  ASSUME RegisterInv, NEW m \in Missions PROVE Bases(m) \subseteq DOMAIN repo.objects
BY DEF RegisterInv, StateOK, FilesOK, Places, PlaceOK, Bases

\* A command that goes on, comes or goes, other than into and out of an opening.
Steady(c, rec) ==
  \/ rec.cmd = c.cmd /\ rec.m = c.m
  \/ rec.cmd = "none" /\ (c.cmd = "open" => c.m = None)
  \/ /\ c.cmd = "none"
     /\ rec.cmd = "open" => rec.m = None
     /\ rec.cmd \in {"close", "abort"} => On(rec, "open")

\* No mission is opened or withdrawn.
StatesKept ==
  \A m \in Missions :
    \/ manifest'[m].state = manifest[m].state
    \/ manifest[m].state = "open" /\ manifest'[m].state \in {"closed", "aborted"}

LEMMA CommandKeepsRecord ==
  ASSUME RegisterInv, NEW p, Procs = {p}, NEW rec, proc'[p] = rec,
         Steady(proc[p], rec), StatesKept,
         NEW X \in SUBSET DOMAIN repo.objects, Grows(repo, repo', X, {None}),
         X = {} \/ \E n \in Missions : Engaged(n) /\ X \subseteq Bases(n),
         \A m \in Missions : Engaged(m)' => \A c \in Bases(m)' : c \in Bases(m) \/ Drawn(c, X),
         \/ \E n \in Missions : Engaged(n)
         \/ X = {} /\ \A m \in Missions : Contained(repo, m) => Contained(repo', m)
  PROVE  Record'
<1>1. proc'[p] = rec /\ StateOK /\ Record
  BY DEF RegisterInv, StateOK
<1>2. \A m \in Missions : Bases(m) \subseteq DOMAIN repo.objects
  BY BasesExist
<1>3. ASSUME NEW m \in Missions
      PROVE  /\ manifest[m].state \in {"closed", "aborted"}
                  => manifest'[m].state \in {"closed", "aborted"}
             /\ manifest'[m].state = "none" => manifest[m].state = "none"
             /\ Engaged(m)' => Engaged(m)
             /\ Held(m)' => Held(m)
  <2>1. m # None
    BY DEF Missions, None
  <2>2. Engaged(m)' => Engaged(m)
    BY <1>1 DEF Engaged, StatesKept, Steady, On
  <2>3. Held(m)' => Held(m)
    BY <1>1, <2>1, <2>2 DEF Held, Steady
  <2> QED
    BY <2>2, <2>3 DEF StatesKept
<1>4. proc'[p].cmd = "open" => proc'[p].m = None \/ (proc[p].cmd = "open" /\ proc[p].m = proc'[p].m)
  BY <1>1 DEF Steady
<1>5. \A x \in X : \E n \in Missions : Engaged(n) /\ x \in Bases(n)
  OBVIOUS
<1> QED
  BY <1>1, <1>2, <1>3, <1>4, <1>5, RecordKept

\* The variables other than the record.
LEMMA StateKept ==
  ASSUME StateOK, HistoryOK(repo'), DOMAIN repo.objects \subseteq DOMAIN repo'.objects,
         manifest' \in [Missions -> Manifests], DOMAIN evidence' = Missions,
         DOMAIN workpiece' = Missions, DOMAIN proc' = Procs,
         \A m \in Missions :
           \/ FilesOK(m)'
           \/ /\ evidence'[m] = evidence[m] /\ workpiece'[m] = workpiece[m]
              /\ manifest'[m].state = "none" => manifest[m].state = "none"
  PROVE  StateOK'
BY DEF StateOK, FilesOK

\* The commits a command may go back to are no others than before.
BaseKept(c, rec) == rec.pre = None \/ (rec.pre = c.pre /\ rec.cmd = c.cmd /\ rec.m = c.m)

\* What the files of a mission say of its commits.
FilesKept(c, m) ==
  /\ DOMAIN evidence'[m] = EvidenceFields /\ DOMAIN workpiece'[m] = WorkpieceFields
  /\ workpiece'[m].edits \subseteq Edits /\ workpiece'[m].dirty \subseteq Edits
  /\ workpiece'[m].at = workpiece[m].at
  /\ \/ evidence'[m].pre = evidence[m].pre
     \/ c.cmd = "reconcile" /\ c.m = m /\ evidence'[m].pre = c.pre

\* A step that goes back to no commit.
LEMMA StepForward ==
  ASSUME RegisterInv, NEW p, Procs = {p}, NEW rec, proc'[p] = rec, DOMAIN proc' = Procs,
         Steady(proc[p], rec), BaseKept(proc[p], rec),
         StatesKept, manifest' \in [Missions -> Manifests],
         DOMAIN evidence' = Missions, DOMAIN workpiece' = Missions,
         \A m \in Missions : FilesKept(proc[p], m),
         Grows(repo, repo', {}, {None}),
         \/ \E n \in Missions : Engaged(n)
         \/ \A m \in Missions : Contained(repo, m) => Contained(repo', m),
         Places(rec)'
  PROVE  RegisterInv'
<1>1. StateOK /\ HistoryOK(repo') /\ DOMAIN repo.objects \subseteq DOMAIN repo'.objects
      /\ PlaceOK(proc[p])
  BY DEF RegisterInv, Grows, Places
<1>2. ASSUME NEW m \in Missions PROVE Bases(m)' \subseteq Bases(m)
  BY DEF FilesKept, BaseKept, Bases
<1>3. Record'
  BY <1>2, CommandKeepsRecord
<1>4. ASSUME NEW m \in Missions PROVE FilesOK(m)'
  <2>1. FilesOK(m) /\ FilesKept(proc[p], m)
    BY <1>1 DEF StateOK
  <2>2. evidence'[m].pre \in {None} \cup DOMAIN repo'.objects
        /\ workpiece'[m].at \in {None} \cup DOMAIN repo'.objects
    BY <1>1, <2>1 DEF FilesOK, FilesKept, PlaceOK
  <2>3. manifest'[m].state = "none" => evidence'[m].pre = None /\ workpiece'[m].at = None
    <3>1. SUFFICES ASSUME manifest'[m].state = "none"
                   PROVE  evidence'[m].pre = None /\ workpiece'[m].at = None
      OBVIOUS
    <3>2. manifest[m].state = "none"
      BY <3>1 DEF StatesKept
    <3>3. ~(proc[p].cmd = "reconcile" /\ proc[p].m = m)
      BY <1>1, <3>2 DEF PlaceOK, Place, Entered, On, Idle
    <3> QED
      BY <2>1, <3>2, <3>3 DEF FilesOK, FilesKept
  <2> QED
    BY <2>1, <2>2, <2>3 DEF FilesOK, FilesKept
<1>5. StateOK'
  BY <1>1, <1>4, StateKept
<1> QED
  BY <1>3, <1>5 DEF RegisterInv

LEMMA FilesUnchanged ==
  ASSUME RegisterInv, NEW p, UNCHANGED <<evidence, workpiece>>
  PROVE  /\ DOMAIN evidence' = Missions /\ DOMAIN workpiece' = Missions
         /\ \A m \in Missions : FilesKept(proc[p], m)
BY DEF RegisterInv, StateOK, FilesOK, FilesKept

\* A step that changes no file.
LEMMA QuietStep ==
  ASSUME RegisterInv, NEW p, Procs = {p}, NEW rec, proc'[p] = rec, DOMAIN proc' = Procs,
         Steady(proc[p], rec), BaseKept(proc[p], rec),
         UNCHANGED <<manifest, evidence, workpiece, repo>>, Places(rec)
  PROVE  RegisterInv'
<1>1. Grows(repo, repo', {}, {None})
  BY GrowsReflexive DEF RegisterInv, StateOK
<1>2. StatesKept /\ manifest' \in [Missions -> Manifests]
  BY DEF StatesKept, RegisterInv, StateOK
<1>3. Places(rec)'
  BY DEF Places, PlaceOK, Place, OpeningOK, WritingOK, On, Entered, HasTerminal, Line, LineOf,
         Tree, Tips, HeadTree
<1> QED
  BY <1>1, <1>2, <1>3, FilesUnchanged, StepForward

LEMMA IdlePlace == ASSUME RegisterInv PROVE Places(Idle) /\ Places(Idle)'
<1>1. <<>> \in Ledgers /\ NoManifest \in Manifests
  BY DEF Ledgers, NoManifest, Manifests, States
<1> QED
  BY <1>1 DEF Places, PlaceOK, Place, OpeningOK, WritingOK, Idle, Fields

\* A command that changes nothing and ends, or begins.
LEMMA ExitKeeps ==
  ASSUME RegisterInv, NEW p, Procs = {p}, Exit(p), proc[p].cmd = "open" => proc[p].m = None,
         UNCHANGED <<manifest, evidence, workpiece, repo>>
  PROVE  RegisterInv'
<1>1. proc'[p] = Idle /\ DOMAIN proc' = Procs
  BY DEF Exit, Step, RegisterInv, StateOK
<1>2. Steady(proc[p], Idle) /\ BaseKept(proc[p], Idle)
  BY DEF Steady, BaseKept, Idle
<1> QED
  BY <1>1, <1>2, IdlePlace, QuietStep

LEMMA StartKeeps ==
  ASSUME RegisterInv, NEW p, Procs = {p}, proc[p].at = "idle",
         NEW rec, proc' = [proc EXCEPT ![p] = rec], DOMAIN rec = Fields,
         rec.pre = None, rec.read = <<>>, rec.seen \in Manifests, rec.m \in Missions \cup {None},
         \/ /\ rec.cmd = "open" /\ rec.at = "lock" /\ rec.m = None
            /\ Readable(repo) /\ Violations(repo.file, repo.current) = {}
         \/ rec.cmd \in {"materialize", "reconcile", "close", "abort"} /\ rec.at = "lock" /\ Entered(rec)
         \/ rec.cmd = "sync" /\ rec.at = "sync" /\ rec.next = "exit",
         UNCHANGED <<manifest, evidence, workpiece, repo>>
  PROVE  RegisterInv'
<1>1. proc'[p] = rec /\ DOMAIN proc' = Procs /\ PlaceOK(proc[p])
  BY DEF RegisterInv, StateOK, Places
<1>2. proc[p].cmd = "none"
  BY <1>1 DEF PlaceOK, Place, Idle, Appends, Syncs, Ledgering, Mirroring
<1>3. Steady(proc[p], rec) /\ BaseKept(proc[p], rec)
  BY <1>2 DEF Steady, BaseKept, Entered
<1>4. Places(rec)
  <2>1. <<>> \in Ledgers
    BY DEF Ledgers
  <2>2. Place(rec)
    BY DEF Place, Syncs, Mirroring
  <2>3. OpeningOK(rec) /\ WritingOK(rec)
    BY DEF OpeningOK, WritingOK, Ledgering
  <2> QED
    BY <2>1, <2>2, <2>3 DEF Places, PlaceOK
<1> QED
  BY <1>1, <1>3, <1>4, QuietStep

-----------------------------------------------------------------------------
(* One command at a time: what each of its steps does to the invariant.     *)

LEMMA ManifestFacts ==
  ASSUME RegisterInv, NEW m \in Missions
  PROVE  /\ manifest[m] \in Manifests /\ m # None
         /\ FilesOK(m)
BY DEF RegisterInv, StateOK, Missions, None

\* No step is left to repair: the ledger of the clone is sound.
LEMMA NothingToRepair == ASSUME RegisterInv, NEW p, OpenRepair(p) PROVE FALSE
<1>1. Sound(repo.file)
  BY DEF RegisterInv, Record, LedgersOf
<1>2. Violations(repo.file, repo.current) \subseteq {"unmatched-mission-open"}
  BY <1>1, SoundIsValid
<1> QED
  BY <1>2 DEF OpenRepair

LEMMA StartsKeep ==
  ASSUME RegisterInv, NEW p \in Procs, Procs = {p},
         \/ OpenPreflight(p) \/ SyncStart(p)
         \/ \E m \in Missions : MaterializeStart(p, m) \/ ReconcileStart(p, m) \/ AbortStart(p, m)
  PROVE  RegisterInv'
<1>0. NoManifest \in Manifests
  BY DEF NoManifest, Manifests, States
<1>1. CASE OpenPreflight(p)
  <2> DEFINE rec == [Idle EXCEPT !.cmd = "open", !.at = "lock"]
  <2>1. /\ rec.cmd = "open" /\ rec.at = "lock" /\ rec.m = None /\ DOMAIN rec = Fields
        /\ rec.pre = None /\ rec.read = <<>> /\ rec.seen \in Manifests
    BY <1>0 DEF Idle, Fields
  <2>2. proc' = [proc EXCEPT ![p] = rec] /\ proc[p].at = "idle" /\ Readable(repo)
        /\ Violations(repo.file, repo.current) = {} /\ UNCHANGED <<manifest, evidence, workpiece, repo>>
    BY <1>1 DEF OpenPreflight, Issue
  <2> HIDE DEF rec
  <2> QED
    BY <2>1, <2>2, StartKeeps
<1>2. CASE SyncStart(p)
  <2> DEFINE rec == Syncing([Idle EXCEPT !.cmd = "sync"], "exit")
  <2>1. /\ rec.cmd = "sync" /\ rec.at = "sync" /\ rec.m = None /\ DOMAIN rec = Fields
        /\ rec.pre = None /\ rec.read = <<>> /\ rec.seen \in Manifests /\ rec.next = "exit"
    BY <1>0 DEF Idle, Fields, Syncing
  <2>2. proc' = [proc EXCEPT ![p] = rec] /\ proc[p].at = "idle"
        /\ UNCHANGED <<manifest, evidence, workpiece, repo>>
    BY <1>2 DEF SyncStart, Issue
  <2> HIDE DEF rec
  <2> QED
    BY <2>1, <2>2, StartKeeps
<1>3. ASSUME NEW m \in Missions, NEW cmd \in {"materialize", "reconcile", "abort"}, Start(p, cmd, m),
             UNCHANGED <<manifest, evidence, workpiece, repo>>
      PROVE  RegisterInv'
  <2> DEFINE rec == [Idle EXCEPT !.cmd = cmd, !.at = "lock", !.m = m, !.seen = manifest[m]]
  <2>1. /\ rec.cmd = cmd /\ rec.at = "lock" /\ rec.m = m /\ DOMAIN rec = Fields
        /\ rec.pre = None /\ rec.read = <<>> /\ rec.seen = manifest[m]
    BY DEF Idle, Fields
  <2>2. proc' = [proc EXCEPT ![p] = rec] /\ proc[p].at = "idle" /\ manifest[m].state = "open"
    BY <1>3 DEF Start, Issue
  <2> HIDE DEF rec
  <2>3. Entered(rec) /\ rec.seen \in Manifests
    BY <2>1, <2>2, ManifestFacts DEF Entered, On
  <2> QED
    BY <1>3, <2>1, <2>2, <2>3, StartKeeps
<1> QED
  BY <1>1, <1>2, <1>3 DEF MaterializeStart, ReconcileStart, AbortStart

LEMMA ContentIsEdits ==
  ASSUME RegisterInv, NEW m \in Missions
  PROVE  Content(m) \subseteq Edits /\ workpiece[m].edits \subseteq Edits
BY ManifestFacts DEF FilesOK, Content

\* The operator's edits.
LEMMA EditsKeep ==
  ASSUME RegisterInv, NEW p \in Procs, Procs = {p}, NEW m \in Missions, Edit(p, m) \/ GitCommit(p, m)
  PROVE  RegisterInv'
<1>1. UNCHANGED <<manifest, evidence, repo, proc>>
  BY DEF Edit, GitCommit
<1>2. Unused # {} => Min(Unused) \in Edits
  <2>1. Unused \subseteq Edits /\ Edits \subseteq Nat
    BY LifecycleAssumption DEF Unused
  <2>2. Unused # {} => Min(Unused) \in Unused
    BY <2>1, MinIsIn
  <2> QED
    BY <2>1, <2>2
<1>3. PICK w : /\ workpiece' = [workpiece EXCEPT ![m] = w] /\ w.at = workpiece[m].at
               /\ DOMAIN w = WorkpieceFields /\ w.edits \subseteq Edits /\ w.dirty \subseteq Edits
  <2>1. DOMAIN workpiece[m] = WorkpieceFields /\ workpiece[m].edits \subseteq Edits
        /\ workpiece[m].dirty \subseteq Edits
    BY ManifestFacts DEF FilesOK
  <2>2. CASE Edit(p, m)
    <3> DEFINE w == [workpiece[m] EXCEPT !.dirty = workpiece[m].dirty \cup {Min(Unused)}]
    <3>1. workpiece' = [workpiece EXCEPT ![m] = w]
      BY <2>2 DEF Edit
    <3>2. w.at = workpiece[m].at /\ DOMAIN w = WorkpieceFields /\ w.edits \subseteq Edits
          /\ w.dirty \subseteq Edits
      BY <1>2, <2>1, <2>2 DEF Edit, WorkpieceFields
    <3> QED
      BY <3>1, <3>2
  <2>3. CASE GitCommit(p, m)
    <3>1. PICK written \in {{}} \cup {{Min(Unused)} : x \in Unused} :
            workpiece' = [workpiece EXCEPT ![m].edits = Content(m) \cup written, ![m].dirty = {}]
      BY <2>3 DEF GitCommit
    <3>2. written \subseteq Edits
      BY <1>2
    <3> DEFINE w == [workpiece[m] EXCEPT !.edits = Content(m) \cup written, !.dirty = {}]
    <3>3. workpiece' = [workpiece EXCEPT ![m] = w]
      BY <3>1, ManifestFacts DEF RegisterInv, StateOK
    <3>4. w.at = workpiece[m].at /\ DOMAIN w = WorkpieceFields /\ w.edits \subseteq Edits
          /\ w.dirty \subseteq Edits
      BY <2>1, <3>2, ContentIsEdits DEF WorkpieceFields
    <3> QED
      BY <3>3, <3>4
  <2> QED
    BY <2>2, <2>3
<1>4. PICK rec : rec = proc[p]
  OBVIOUS
<1>5. /\ DOMAIN evidence' = Missions /\ DOMAIN workpiece' = Missions
      /\ \A n \in Missions : FilesKept(proc[p], n)
  BY <1>1, <1>3 DEF RegisterInv, StateOK, FilesOK, FilesKept
<1>6. Grows(repo, repo', {}, {None})
  BY <1>1, GrowsReflexive DEF RegisterInv, StateOK
<1>7. StatesKept /\ manifest' \in [Missions -> Manifests] /\ proc'[p] = rec /\ DOMAIN proc' = Procs
  BY <1>1, <1>4 DEF StatesKept, RegisterInv, StateOK
<1>8. manifest[m].state = "open"
  BY DEF Edit, GitCommit
<1>9. Engaged(m)
  BY <1>8 DEF Engaged
<1>10. Steady(proc[p], rec) /\ BaseKept(proc[p], rec)
  BY <1>4 DEF Steady, BaseKept
<1>11. Places(rec)'
  <2>1. rec.at = "idle" /\ PlaceOK(rec)
    BY <1>4 DEF Edit, GitCommit, Issue, RegisterInv, Places
  <2>2. rec = Idle
    BY <2>1 DEF PlaceOK, Place, Appends, Syncs, Ledgering, Mirroring
  <2> QED
    BY <2>2, IdlePlace
<1> QED
  BY <1>1, <1>5, <1>6, <1>7, <1>9, <1>10, <1>11, StepForward

\* The report of a validation, and the commit of the clone's generated files.
LEMMA ValidationFacts ==
  ASSUME RegisterInv, NEW p, NEW m \in Missions, NEW passed, ValidateOutcome(m, passed),
         UNCHANGED workpiece
  PROVE  /\ DOMAIN evidence' = Missions /\ DOMAIN workpiece' = Missions
         /\ \A n \in Missions : FilesKept(proc[p], n)
         /\ Grows(repo, repo', {}, {None}) /\ HistoryOK(repo')
<1>1. Grows(repo, repo', {}, {None})
  BY CommitAllFacts, GrowsReflexive DEF ValidateOutcome, RegisterInv, StateOK
<1>2. \A n \in Missions : FilesOK(n)
  BY DEF RegisterInv, StateOK
<1>3. /\ DOMAIN evidence' = Missions
      /\ \A n \in Missions : DOMAIN evidence'[n] = EvidenceFields /\ evidence'[n].pre = evidence[n].pre
  <2>1. evidence' = [evidence EXCEPT ![m] =
          [evidence[m] EXCEPT !.validation = IF passed THEN "passed" ELSE "failed",
                              !.validated = Content(m)]]
    BY DEF ValidateOutcome, RegisterInv, StateOK
  <2> DEFINE e == [evidence[m] EXCEPT !.validation = IF passed THEN "passed" ELSE "failed",
                                      !.validated = Content(m)]
  <2>2. DOMAIN e = EvidenceFields /\ e.pre = evidence[m].pre
    BY <1>2 DEF FilesOK, EvidenceFields
  <2>3. DOMAIN evidence = Missions
    BY DEF RegisterInv, StateOK
  <2> HIDE DEF e
  <2> QED
    BY <1>2, <2>1, <2>2, <2>3 DEF FilesOK, e
<1> QED
  BY <1>1, <1>2, <1>3 DEF FilesKept, FilesOK, RegisterInv, StateOK, Grows

LEMMA ValidateKeeps ==
  ASSUME RegisterInv, NEW p \in Procs, Procs = {p}, NEW m \in Missions, Validate(p, m)
  PROVE  RegisterInv'
<1>1. PICK rec : rec = proc[p]
  OBVIOUS
<1>2. rec.at = "idle" /\ PlaceOK(rec) /\ manifest[m].state = "open"
  BY <1>1 DEF Validate, Issue, RegisterInv, Places
<1>3. rec = Idle
  BY <1>2 DEF PlaceOK, Place, Appends, Syncs, Ledgering, Mirroring
<1>4. Engaged(m)
  BY <1>2 DEF Engaged
<1>5. StatesKept /\ manifest' \in [Missions -> Manifests] /\ proc'[p] = rec /\ DOMAIN proc' = Procs
  BY <1>1 DEF Validate, StatesKept, RegisterInv, StateOK
<1>6. PICK passed : ValidateOutcome(m, passed)
  BY DEF Validate
<1>7. UNCHANGED workpiece
  BY DEF Validate
<1>8. Steady(proc[p], rec) /\ BaseKept(proc[p], rec)
  BY <1>1 DEF Steady, BaseKept
<1>9. /\ DOMAIN evidence' = Missions /\ DOMAIN workpiece' = Missions
      /\ \A n \in Missions : FilesKept(proc[p], n)
      /\ Grows(repo, repo', {}, {None})
  BY <1>6, <1>7, ValidationFacts
<1> QED
  BY <1>3, <1>4, <1>5, <1>8, <1>9, IdlePlace, StepForward

LEMMA CloseStartKeeps ==
  ASSUME RegisterInv, NEW p \in Procs, Procs = {p}, NEW m \in Missions, CloseStart(p, m)
  PROVE  RegisterInv'
<1>1. PICK flags : proc' = [proc EXCEPT ![p] = [Idle EXCEPT !.cmd = "close", !.at = "lock", !.m = m,
                                                !.seen = manifest[m], !.flags = flags]]
  BY DEF CloseStart
<1>2. PICK rec : rec = [Idle EXCEPT !.cmd = "close", !.at = "lock", !.m = m,
                                    !.seen = manifest[m], !.flags = flags]
  OBVIOUS
<1>3. /\ proc[p].at = "idle" /\ PlaceOK(proc[p]) /\ manifest[m].state = "open"
      /\ UNCHANGED <<manifest, workpiece>> /\ ValidateOutcome(m, TRUE)
  BY DEF CloseStart, Issue, RegisterInv, Places
<1>4. proc[p].cmd = "none"
  BY <1>3 DEF PlaceOK, Place, Appends, Syncs, Ledgering, Mirroring, Idle
<1>5. rec.cmd = "close" /\ rec.at = "lock" /\ rec.m = m /\ rec.seen = manifest[m] /\ rec.pre = None
      /\ rec.read = <<>> /\ DOMAIN rec = Fields
  BY <1>2 DEF Idle, Fields
<1>6. Engaged(m)
  BY <1>3 DEF Engaged
<1>7. StatesKept /\ manifest' \in [Missions -> Manifests] /\ proc'[p] = rec /\ DOMAIN proc' = Procs
  BY <1>1, <1>2, <1>3 DEF StatesKept, RegisterInv, StateOK
<1>8. Steady(proc[p], rec) /\ BaseKept(proc[p], rec)
  BY <1>3, <1>4, <1>5 DEF Steady, BaseKept, On
<1>9. /\ DOMAIN evidence' = Missions /\ DOMAIN workpiece' = Missions
      /\ \A n \in Missions : FilesKept(proc[p], n)
      /\ Grows(repo, repo', {}, {None})
  BY <1>3, ValidationFacts
<1>10. Places(rec)'
  <2>1. <<>> \in Ledgers /\ rec.seen \in Manifests /\ Entered(rec)'
    BY <1>3, <1>5, ManifestFacts DEF Ledgers, Entered, On
  <2>2. Place(rec)'
    BY <1>5, <2>1 DEF Place
  <2> QED
    BY <1>5, <2>1, <2>2 DEF Places, PlaceOK, OpeningOK, WritingOK
<1> QED
  BY <1>6, <1>7, <1>8, <1>9, <1>10, StepForward

\* An operator's command.
LEMMA BeginKeepsRegister ==
  ASSUME RegisterInv, NEW p \in Procs, Procs = {p}, Begin(p) PROVE RegisterInv'
BY StartsKeep, NothingToRepair, EditsKeep, ValidateKeeps, CloseStartKeeps DEF Begin

-----------------------------------------------------------------------------

\* A command that goes on within the ledger routine, or comes out of it.
Within(c, rec) ==
  /\ c.at \in Ledgering /\ rec.at \in Ledgering \cup {c.ret}
  /\ DOMAIN rec = Fields /\ rec.cmd = c.cmd /\ rec.m = c.m /\ rec.seen = c.seen /\ rec.pre = c.pre
  /\ rec.kind = c.kind /\ rec.ret = c.ret /\ rec.next = c.next

LEMMA LedgeringPlace ==
  ASSUME NEW c, NEW rec, PlaceOK(c), Within(c, rec), rec.read \in Ledgers PROVE PlaceOK(rec)
<1>1. c # Idle
  BY DEF Within, Ledgering, Idle
<1>2. Place(rec)
  BY <1>1 DEF PlaceOK, Place, Within, Appends, Syncs, On, Entered, Ledgering, Mirroring
<1> QED
  BY <1>2 DEF PlaceOK, Within

\* What a command that appends to the ledger writes.
LEMMA LedgeringFacts ==
  ASSUME NEW c, PlaceOK(c), c.at \in Ledgering
  PROVE  /\ c.kind \in Kinds /\ c.m \in 0 .. MaxMissions
         /\ c.cmd = "open" => c.kind = "mission-open" /\ c.ret = "opened" /\ On(c, "open")
         /\ c.kind \in Opening => c.cmd = "open" /\ On(c, "open")
         /\ c.kind \in Terminal =>
              (On(c, "closed") /\ c.cmd = "close") \/ (On(c, "aborted") /\ c.cmd = "abort")
         /\ c.ret \notin Ledgering
<1>1. c # Idle
  BY DEF Ledgering, Idle
<1>2. c.m \in 0 .. MaxMissions
  BY LifecycleAssumption DEF PlaceOK, Missions, None
<1>3. \/ c.cmd = "open" /\ On(c, "open") /\ c.kind = "mission-open" /\ c.ret = "opened"
      \/ c.cmd = "materialize" /\ c.kind = "preflight-skipped" /\ c.ret = "materialized"
      \/ c.cmd \in {"sync", "reconcile", "close"} /\ c.kind = "mirror-sync" /\ c.ret = "mirrors"
      \/ c.cmd = "close" /\ On(c, "closed") /\ c.kind = "mission-close" /\ c.ret \in {"audit", "archive"}
      \/ c.cmd = "abort" /\ On(c, "aborted") /\ c.kind = "mission-abort" /\ c.ret = "aborted"
  BY <1>1 DEF PlaceOK, Place, Appends, Syncs, Ledgering, Mirroring
<1>4. c.kind \in Kinds /\ c.ret \notin Ledgering
  BY <1>3 DEF Kinds, Ledgering
<1>5. c.cmd = "open" => c.kind = "mission-open" /\ c.ret = "opened" /\ On(c, "open")
  BY <1>3
<1>6. c.kind \in Opening => c.cmd = "open" /\ On(c, "open")
  BY <1>3 DEF Opening
<1>7. c.kind \in Terminal => (On(c, "closed") /\ c.cmd = "close") \/ (On(c, "aborted") /\ c.cmd = "abort")
  BY <1>3 DEF Terminal
<1> QED
  BY <1>2, <1>4, <1>5, <1>6, <1>7

LEMMA AppendReadKeeps ==
  ASSUME RegisterInv, NEW p \in Procs, Procs = {p}, AppendRead(p) PROVE RegisterInv'
<1>1. PICK c : c = proc[p]
  OBVIOUS
<1>2. c.at = "append" /\ Places(c) /\ DOMAIN c = Fields /\ repo.file \in Ledgers /\ c.at \in Ledgering
  BY <1>1, HistoryFacts DEF AppendRead, RegisterInv, StateOK, Places, PlaceOK, HistoryOK, Repositories, Ledgering
<1>3. PICK rec : /\ proc' = [proc EXCEPT ![p] = rec]
                 /\ \/ rec = [c EXCEPT !.at = c.ret, !.result = "refused"]
                    \/ /\ rec = [c EXCEPT !.at = "write", !.read = repo.file]
                       /\ c.kind \in Terminal => ~HasTerminal(c.m)
  BY <1>1 DEF AppendRead, Step
<1>4. /\ Within(c, rec) /\ rec.read \in Ledgers
      /\ \/ rec.at = c.ret /\ rec.result = "refused"
         \/ rec.at = "write" /\ rec.read = repo.file /\ (rec.kind \in Terminal => ~HasTerminal(rec.m))
  BY <1>2, <1>3 DEF Within, Fields, Ledgering, Places, PlaceOK
<1>5. PlaceOK(rec)
  BY <1>2, <1>4, LedgeringPlace DEF Places
<1>6. OpeningOK(rec)
  <2>1. SUFFICES ASSUME rec.cmd = "open" PROVE OpeningOK(rec)
    BY DEF OpeningOK
  <2>2. c.cmd = "open" /\ c.ret = "opened" /\ rec.m = c.m
    BY <1>2, <1>4, <2>1, LedgeringFacts DEF Within, Places
  <2> QED
    BY <1>2, <1>4, <2>2 DEF OpeningOK, Places, Ledgering
<1>7. WritingOK(rec)
  <2>1. c.ret # "write"
    BY <1>2, LedgeringFacts DEF Places, Ledgering
  <2> QED
    BY <1>4, <2>1 DEF WritingOK
<1>8. Steady(proc[p], rec) /\ BaseKept(proc[p], rec)
  BY <1>1, <1>4 DEF Steady, BaseKept, Within
<1>9. proc'[p] = rec /\ DOMAIN proc' = Procs /\ UNCHANGED <<manifest, evidence, workpiece, repo>>
  BY <1>3 DEF AppendRead, RegisterInv, StateOK
<1> QED
  BY <1>5, <1>6, <1>7, <1>8, <1>9, QuietStep DEF Places

LEMMA AppendSilencedKeeps ==
  ASSUME RegisterInv, NEW p \in Procs, Procs = {p}, AppendSilenced(p) PROVE RegisterInv'
<1>1. PICK c : c = proc[p]
  OBVIOUS
<1>2. c.at = "append" /\ Places(c) /\ DOMAIN c = Fields /\ c.at \in Ledgering
  BY <1>1 DEF AppendSilenced, RegisterInv, Places, PlaceOK, Ledgering
<1>3. PICK rec : rec = [c EXCEPT !.at = c.ret, !.result = "refused"]
  OBVIOUS
<1>4. Within(c, rec) /\ rec.read \in Ledgers /\ rec.at = c.ret /\ rec.result = "refused"
  BY <1>2, <1>3 DEF Within, Fields, Ledgering, Places, PlaceOK
<1>5. PlaceOK(rec)
  BY <1>2, <1>4, LedgeringPlace DEF Places
<1>6. OpeningOK(rec)
  <2>1. SUFFICES ASSUME rec.cmd = "open" PROVE OpeningOK(rec)
    BY DEF OpeningOK
  <2>2. c.cmd = "open" /\ c.ret = "opened" /\ rec.m = c.m
    BY <1>2, <1>4, <2>1, LedgeringFacts DEF Within, Places
  <2> QED
    BY <1>2, <1>4, <2>2 DEF OpeningOK, Places, Ledgering
<1>7. WritingOK(rec)
  <2>1. c.ret # "write"
    BY <1>2, LedgeringFacts DEF Places, Ledgering
  <2> QED
    BY <1>4, <2>1 DEF WritingOK
<1>8. Steady(proc[p], rec) /\ BaseKept(proc[p], rec)
  BY <1>1, <1>4 DEF Steady, BaseKept, Within
<1>9. proc'[p] = rec /\ DOMAIN proc' = Procs /\ UNCHANGED <<manifest, evidence, workpiece, repo>>
  BY <1>1, <1>3 DEF AppendSilenced, RegisterInv, StateOK
<1> QED
  BY <1>5, <1>6, <1>7, <1>8, <1>9, QuietStep DEF Places

LEMMA AppendWriteKeeps ==
  ASSUME RegisterInv, NEW p \in Procs, Procs = {p}, AppendWrite(p) PROVE RegisterInv'
<1>1. PICK c : c = proc[p]
  OBVIOUS
<1>2. /\ c.at = "write" /\ c.at \in Ledgering /\ Places(c) /\ PlaceOK(c) /\ c.read = repo.file
      /\ HistoryOK(repo) /\ Record /\ StateOK
  BY <1>1 DEF AppendWrite, RegisterInv, StateOK, Places, WritingOK, Ledgering
<1>3. repo.file \in Ledgers /\ c.kind \in Kinds /\ c.m \in 0 .. MaxMissions
  BY <1>2, LedgeringFacts DEF HistoryOK, Repositories
<1>4. PICK longer : longer = Longer(repo.file, c.kind, c.m)
  OBVIOUS
<1>5. repo' = [repo EXCEPT !.file = longer]
  BY <1>1, <1>2, <1>4 DEF AppendWrite, Longer
<1>6. PICK rec : rec = [c EXCEPT !.at = "commit", !.read = <<>>]
  OBVIOUS
<1>7. proc'[p] = rec /\ DOMAIN proc' = Procs /\ UNCHANGED <<manifest, evidence, workpiece>>
  BY <1>1, <1>2, <1>6 DEF AppendWrite, Step, StateOK
<1>8. /\ Within(c, rec) /\ rec.read = <<>> /\ rec.at = "commit" /\ rec.cmd = c.cmd /\ rec.m = c.m
      /\ rec.pre = c.pre
  BY <1>2, <1>6 DEF PlaceOK, Within, Fields, Ledgering
\* The entry is one the ledger may take.
<1>9. Sound(repo.file) /\ \A m \in Missions : EndedIn(repo.file, m) => manifest[m].state \in {"closed", "aborted"}
  BY <1>2 DEF Record, LedgersOf
<1>10. c.kind \in Opening => ~OpenedIn(repo.file, c.m) /\ On(c, "open")
  BY <1>2, LedgeringFacts DEF Places, OpeningOK
<1>11. c.kind \in Terminal =>
         OpenedIn(repo.file, c.m) /\ ~EndedIn(repo.file, c.m) /\ (On(c, "closed") \/ On(c, "aborted"))
  <2>1. SUFFICES ASSUME c.kind \in Terminal
                 PROVE  OpenedIn(repo.file, c.m) /\ ~EndedIn(repo.file, c.m)
                        /\ (On(c, "closed") \/ On(c, "aborted"))
    OBVIOUS
  <2>2. (On(c, "closed") \/ On(c, "aborted")) /\ c.cmd \in {"close", "abort"} /\ c.m \in Missions
    BY <1>2, <2>1, LedgeringFacts DEF On
  <2>3. Held(c.m)
    BY <1>1, <2>2 DEF Held, Engaged
  <2>4. OpenedIn(repo.file, c.m)
    BY <1>2, <2>2, <2>3 DEF Record, Tips
  <2> QED
    BY <1>2, <2>1, <2>2, <2>4 DEF Places, WritingOK, HasTerminal, EndedIn
<1>12. /\ longer \in Ledgers /\ Sound(longer)
       /\ \A x : OpenedIn(longer, x) <=> OpenedIn(repo.file, x) \/ (c.kind \in Opening /\ x = c.m)
       /\ \A x : EndedIn(longer, x) <=> EndedIn(repo.file, x) \/ (c.kind \in Terminal /\ x = c.m)
  <2>1. c.kind \in Opening => ~OpenedIn(repo.file, c.m)
    BY <1>10
  <2>2. c.kind \in Terminal => OpenedIn(repo.file, c.m) /\ ~EndedIn(repo.file, c.m)
    BY <1>11
  <2>3. longer \in Ledgers
    BY <1>3, <1>4, EntriesAfter
  <2>4. Sound(longer)
    BY <1>3, <1>4, <1>9, <2>1, <2>2, EntriesAfter
  <2>5. \A x : OpenedIn(longer, x) <=> OpenedIn(repo.file, x) \/ (c.kind \in Opening /\ x = c.m)
    BY <1>3, <1>4, EntriesAfter
  <2>6. \A x : EndedIn(longer, x) <=> EndedIn(repo.file, x) \/ (c.kind \in Terminal /\ x = c.m)
    BY <1>3, <1>4, EntriesAfter
  <2> QED
    BY <2>3, <2>4, <2>5, <2>6
\* The repository with the longer working tree.
<1>13. /\ repo' \in Repositories /\ repo'.objects = repo.objects /\ repo'.head = repo.head
       /\ repo'.origin = repo.origin /\ repo'.file = longer /\ repo'.current = repo.current
  BY <1>2, <1>5, <1>12 DEF HistoryOK, Repositories
<1>14. \A a : /\ Ancestors(repo', a) = Ancestors(repo, a) /\ Tree(repo', a) = Tree(repo, a)
              /\ LineOf(repo', a) = LineOf(repo, a)
  BY <1>13 DEF Ancestors, Tree, LineOf
<1>15. HistoryOK(repo')
  BY <1>2, <1>13, <1>14 DEF HistoryOK
<1>16. Line(repo') = Line(repo) /\ CurrentsOf(repo') = CurrentsOf(repo)
       /\ Tips(repo') \subseteq Tips(repo) \cup {longer} /\ LedgersOf(repo') \subseteq LedgersOf(repo) \cup {longer}
       /\ \A X : LinesOf(repo', X) = LinesOf(repo, X)
  BY <1>13, <1>14 DEF Line, LinesOf, CurrentsOf, Tips, LedgersOf, HeadTree, Tree
<1>17. StateOK'
  BY <1>2, <1>7, <1>13, <1>15 DEF StateOK, FilesOK
<1>18. \A m \in Missions : /\ Engaged(m)' <=> Engaged(m)
                           /\ Held(m)' <=> Held(m)
                           /\ Bases(m)' = Bases(m)
  BY <1>1, <1>7, <1>8 DEF Engaged, Held, Bases
<1>19. Record'
  <2>1. \A l \in LedgersOf(repo') :
          Sound(l) /\ \A m \in Missions : EndedIn(l, m) => manifest'[m].state \in {"closed", "aborted"}
    <3>1. \A m \in Missions : EndedIn(longer, m) => manifest[m].state \in {"closed", "aborted"}
      BY <1>9, <1>11, <1>12 DEF On
    <3> QED
      BY <1>2, <1>7, <1>12, <1>16, <3>1 DEF Record
  <2>2. \A m \in CurrentsOf(repo') \ {None} :
          manifest'[m].state # "none" /\ ~\E q \in Procs : proc'[q].cmd = "open" /\ proc'[q].m = m
    BY <1>1, <1>2, <1>7, <1>8, <1>16 DEF Record
  <2>3. ASSUME NEW m \in Missions, Held(m)'
        PROVE  /\ \A l \in Tips(repo') : OpenedIn(l, m)
               /\ \A b \in Bases(m)' : OpenedIn(Tree(repo', b).ledger, m)
    <3>1. /\ \A l \in Tips(repo) : OpenedIn(l, m)
          /\ \A b \in Bases(m) : OpenedIn(Tree(repo, b).ledger, m)
      BY <1>2, <1>18, <2>3 DEF Record
    <3>2. OpenedIn(longer, m)
      BY <1>12, <3>1 DEF Tips
    <3> QED
      BY <1>14, <1>16, <1>18, <3>1, <3>2
  <2>4. ASSUME NEW m \in Missions, manifest'[m].state = "none"
        PROVE  /\ Contained(repo', m)
               /\ \A n \in Missions : Engaged(n)' => \A l \in Reach(n)' : ~OpenedIn(l, m)
    <3>1. Contained(repo, m) /\ \A n \in Missions : Engaged(n) => \A l \in Reach(n) : ~OpenedIn(l, m)
      BY <1>2, <1>7, <2>4 DEF Record
    <3>2. OpenedIn(longer, m) <=> OpenedIn(repo.file, m)
      BY <1>7, <1>10, <1>12, <2>4 DEF On
    <3>3. Contained(repo', m)
      BY <1>13, <1>14, <1>16, <3>1, <3>2 DEF Contained
    <3>4. ASSUME NEW n \in Missions, Engaged(n)', NEW l \in Reach(n)' PROVE ~OpenedIn(l, m)
      <4>1. l \in Reach(n) \/ l = longer
        BY <1>13, <1>16, <1>18, <3>4 DEF Reach
      <4>2. repo.file \in Reach(n)
        BY DEF Reach
      <4> QED
        BY <1>18, <3>1, <3>2, <3>4, <4>1, <4>2
    <3> QED
      BY <3>3, <3>4
  <2> QED
    BY <1>2, <1>18, <2>1, <2>2, <2>3, <2>4 DEF Record
<1>20. Places(rec)'
  <2>1. <<>> \in Ledgers
    BY DEF Ledgers
  <2>2. PlaceOK(rec)
    BY <1>2, <1>8, <2>1, LedgeringPlace
  <2>3. PlaceOK(rec)'
    BY <1>7, <1>13, <2>2 DEF PlaceOK, Place, On, Entered
  <2>4. OpeningOK(rec)'
    <3>1. c.cmd = "open" => c.kind \in Opening
      BY <1>2, LedgeringFacts DEF Opening
    <3> QED
      BY <1>2, <1>8, <1>12, <1>13, <1>16, <3>1 DEF OpeningOK, Places, Ledgering
  <2> QED
    BY <1>8, <2>3, <2>4 DEF Places, WritingOK
<1> QED
  BY <1>1, <1>7, <1>17, <1>19, <1>20 DEF RegisterInv

LEMMA CommitLedgerKeeps ==
  ASSUME RegisterInv, NEW p \in Procs, Procs = {p}, CommitLedgerStep(p) PROVE RegisterInv'
<1>1. PICK c : c = proc[p]
  OBVIOUS
<1>2. c.at = "commit" /\ c.at \in Ledgering /\ Places(c) /\ PlaceOK(c) /\ HistoryOK(repo)
  BY <1>1 DEF CommitLedgerStep, RegisterInv, StateOK, Places, Ledgering
<1>3. PICK rec : /\ proc' = [proc EXCEPT ![p] = rec]
                 /\ \/ rec = [c EXCEPT !.at = c.ret, !.result = "uncommitted"] /\ repo' = repo
                    \/ /\ rec = [c EXCEPT !.at = c.ret,
                                          !.result = IF Published(repo') THEN "pushed" ELSE "unpushed"]
                       /\ repo' \in Recorded(repo)
  BY <1>1 DEF CommitLedgerStep, Step, Recorded
<1>4. proc'[p] = rec /\ DOMAIN proc' = Procs /\ UNCHANGED <<manifest, evidence, workpiece>>
  BY <1>3 DEF CommitLedgerStep, RegisterInv, StateOK
<1>5. /\ Within(c, rec) /\ rec.at = c.ret /\ rec.cmd = c.cmd /\ rec.m = c.m /\ rec.read = c.read
      /\ \/ rec.result = "uncommitted" /\ repo' = repo
         \/ /\ rec.result = IF Published(repo') THEN "pushed" ELSE "unpushed"
            /\ repo' \in Recorded(repo)
  BY <1>2, <1>3 DEF Within, Fields, Ledgering, PlaceOK
<1>6. Grows(repo, repo', {}, {None}) /\ \A m \in Missions : Contained(repo, m) => Contained(repo', m)
  <2>1. CASE repo' = repo
    BY <1>2, <2>1, GrowsReflexive
  <2>2. CASE repo' \in Recorded(repo)
    <3>1. Grows(repo, repo', {}, {}) /\ \A m : Contained(repo, m) => Contained(repo', m)
      BY <1>2, <2>2, RecordedGrows
    <3> QED
      BY <3>1, GrowsWiden
  <2> QED
    BY <1>5, <2>1, <2>2
<1>7. PlaceOK(rec)'
  <2>1. PlaceOK(rec)
    BY <1>2, <1>5, LedgeringPlace DEF PlaceOK
  <2>2. DOMAIN repo.objects \subseteq DOMAIN repo'.objects
    BY <1>6 DEF Grows
  <2> QED
    BY <1>4, <2>1, <2>2 DEF PlaceOK, Place, On, Entered
<1>8. OpeningOK(rec)'
  <2>1. SUFFICES ASSUME rec.cmd = "open" PROVE OpeningOK(rec)'
    BY DEF OpeningOK
  <2>2. c.cmd = "open" /\ rec.at = "opened"
    BY <1>2, <1>5, <2>1, LedgeringFacts
  <2>3. OpenedIn(repo.file, c.m) /\ \A l \in Line(repo) : ~OpenedIn(l, c.m)
    BY <1>2, <2>2 DEF Places, OpeningOK
  <2>4. CASE rec.result = "uncommitted" /\ repo' = repo
    BY <1>5, <2>2, <2>3, <2>4 DEF OpeningOK, Ledgering
  <2>5. CASE rec.result = (IF Published(repo') THEN "pushed" ELSE "unpushed") /\ repo' \in Recorded(repo)
    <3>1. /\ Published(repo') => \A l \in Tips(repo') : OpenedIn(l, c.m)
          /\ ~Published(repo') =>
               /\ repo'.head # 1
               /\ \A l \in LineOf(repo', HeadTree(repo').parent) \cup LineOf(repo', repo'.origin) :
                    ~OpenedIn(l, c.m)
      BY <1>2, <2>3, <2>5, OpeningRecorded
    <3> QED
      BY <1>5, <2>2, <2>5, <3>1 DEF OpeningOK, Ledgering
  <2> QED
    BY <1>5, <2>4, <2>5
<1>9. WritingOK(rec)'
  BY <1>2, <1>5, LedgeringFacts DEF WritingOK, Ledgering
<1>10. StatesKept /\ manifest' \in [Missions -> Manifests]
  BY <1>4 DEF StatesKept, RegisterInv, StateOK
<1>11. Steady(proc[p], rec) /\ BaseKept(proc[p], rec)
  BY <1>1, <1>5 DEF Steady, BaseKept, Within
<1> QED
  BY <1>4, <1>6, <1>7, <1>8, <1>9, <1>10, <1>11, FilesUnchanged, StepForward DEF Places

\* A passed preflight and no current mission: every mission the ledger knows has ended.
LEMMA NothingIsOpen ==
  ASSUME RegisterInv, NEW p \in Procs, Procs = {p}, NEW c, c = proc[p],
         c.cmd = "open", c.at = "lock", repo.current = None
  PROVE  /\ \A m \in Missions : OpenedIn(repo.file, m) => manifest[m].state \in {"closed", "aborted"}
         /\ \A n \in Missions : ~Engaged(n)
<1>1. PlaceOK(c) /\ OpeningOK(c) /\ Record /\ c # Idle
  BY DEF RegisterInv, Places, Idle
<1>2. c.m = None
  BY <1>1 DEF PlaceOK, Place, Appends, Ledgering
<1>3. ASSUME NEW m \in Missions, OpenedIn(repo.file, m)
      PROVE  manifest[m].state \in {"closed", "aborted"}
  <2>1. m # repo.current
    BY ManifestFacts
  <2>2. EndedIn(repo.file, m)
    BY <1>1, <1>3, <2>1, NoUnmatched DEF OpeningOK
  <2> QED
    BY <1>1, <2>2 DEF Record, LedgersOf
<1>4. ASSUME NEW n \in Missions, Engaged(n) PROVE FALSE
  <2>1. manifest[n].state = "open" /\ n # None
    BY <1>4, ManifestFacts DEF Engaged
  <2>2. Held(n)
    BY <1>2, <1>4, <2>1 DEF Held
  <2>3. OpenedIn(repo.file, n)
    BY <1>1, <2>2 DEF Record, Tips
  <2> QED
    BY <1>3, <2>1, <2>3
<1> QED
  BY <1>3, <1>4

\* mission.open takes its lock: the ledger has nothing open, and the number is new.
LEMMA OpenLockedKeeps ==
  ASSUME RegisterInv, NEW p \in Procs, Procs = {p}, OpenLocked(p) PROVE RegisterInv'
<1>1. PICK c : c = proc[p]
  OBVIOUS
<1>2. /\ c.cmd = "open" /\ c.at = "lock" /\ c.m = None /\ Places(c) /\ PlaceOK(c)
      /\ StateOK /\ Record /\ HistoryOK(repo)
      /\ UNCHANGED <<evidence, workpiece, repo>>
  BY <1>1 DEF OpenLocked, RegisterInv, StateOK, Places, PlaceOK, Place, Idle, Appends, Syncs,
              Ledgering, Mirroring
<1>3. CASE UNCHANGED <<lock, manifest>> /\ Exit(p)
  BY <1>1, <1>2, <1>3, ExitKeeps
<1>4. CASE ~(UNCHANGED <<lock, manifest>> /\ Exit(p))
  <2>1. PICK N : N = NextMission
    OBVIOUS
  <2>2. PICK rec : rec = Appending([c EXCEPT !.m = N], "mission-open", "opened")
    OBVIOUS
  <2>3. /\ repo.current = None /\ N =< MaxMissions
        /\ manifest' = [manifest EXCEPT ![N] = [NoManifest EXCEPT !.state = "open"]]
        /\ proc' = [proc EXCEPT ![p] = rec]
    <3>1. N \in Nat /\ MaxMissions \in Nat
      BY <1>2, <2>1, LifecycleAssumption, NextMissionIsFree DEF HistoryOK, Repositories
    <3> QED
      BY <1>1, <1>4, <2>1, <2>2, <3>1 DEF OpenLocked, Step
  <2>4. N \in Missions /\ N # None /\ manifest[N].state = "none" /\ ~OpenedIn(repo.file, N)
    <3>1. N \in Nat \ {0} /\ MaxMissions \in Nat /\ repo.file \in Ledgers
      BY <1>2, <2>1, LifecycleAssumption, NextMissionIsFree DEF HistoryOK, Repositories
    <3>2. N \in Missions
      BY <2>3, <3>1 DEF Missions
    <3> QED
      BY <1>2, <2>1, <3>1, <3>2, NextMissionIsFree DEF None
  <2>5. /\ rec.cmd = "open" /\ rec.m = N /\ rec.at = "append" /\ rec.kind = "mission-open"
        /\ rec.ret = "opened" /\ rec.seen = c.seen /\ rec.pre = c.pre /\ rec.read = c.read
        /\ DOMAIN rec = Fields
    BY <1>2, <2>2 DEF Appending, Fields, PlaceOK
  <2>6. proc'[p] = rec /\ DOMAIN proc' = Procs
    BY <1>2, <2>3 DEF StateOK
  <2>7. \A m \in Missions : OpenedIn(repo.file, m) => manifest[m].state \in {"closed", "aborted"}
    BY <1>1, <1>2, <2>3, NothingIsOpen
  <2>8. \A n \in Missions : ~Engaged(n)
    BY <1>1, <1>2, <2>3, NothingIsOpen
  <2>9. \A m \in Missions : manifest[m].state = "none" =>
          ~OpenedIn(repo.file, m) /\ \A l \in Line(repo) : ~OpenedIn(l, m)
    BY <1>2, <2>7 DEF Record, Contained
  <2>10. evidence[N].pre = None /\ workpiece[N].at = None
    BY <2>4, ManifestFacts DEF FilesOK
  <2>11. /\ manifest' \in [Missions -> Manifests] /\ manifest'[N].state = "open"
         /\ \A m \in Missions \ {N} : manifest'[m] = manifest[m]
    <3>1. [NoManifest EXCEPT !.state = "open"] \in Manifests
          /\ [NoManifest EXCEPT !.state = "open"].state = "open"
      BY DEF NoManifest, Manifests, States
    <3> QED
      BY <1>2, <2>3, <2>4, <3>1 DEF StateOK
  <2>12. StateOK'
    BY <1>2, <2>4, <2>6, <2>11, StateKept DEF StateOK
  <2>13. Record'
    <3>1. \A m \in Missions : Engaged(m)' => m = N
      BY <1>1, <2>5, <2>6, <2>8, <2>11 DEF Engaged
    <3>2. \A m \in Missions : ~Held(m)'
      BY <2>5, <2>6, <3>1 DEF Held
    <3>3. \A l \in LedgersOf(repo') :
            Sound(l) /\ \A m \in Missions : EndedIn(l, m) => manifest'[m].state \in {"closed", "aborted"}
      BY <1>2, <2>4, <2>11 DEF Record
    <3>4. \A m \in CurrentsOf(repo') \ {None} :
            manifest'[m].state # "none" /\ ~\E q \in Procs : proc'[q].cmd = "open" /\ proc'[q].m = m
      <4>1. CurrentsOf(repo) \subseteq Missions \cup {None}
        BY <1>2, HistoryFacts
      <4> QED
        BY <1>2, <2>4, <2>5, <2>6, <2>11, <4>1 DEF Record
    <3>5. ASSUME NEW m \in Missions, manifest'[m].state = "none"
          PROVE  /\ Contained(repo', m)
                 /\ \A n \in Missions : Engaged(n)' => \A l \in Reach(n)' : ~OpenedIn(l, m)
      <4>1. m # N /\ manifest[m].state = "none"
        BY <2>11, <3>5
      <4>2. Contained(repo', m)
        BY <1>2, <4>1 DEF Record
      <4>3. Bases(N)' = {}
        BY <1>2, <2>5, <2>6, <2>10 DEF Bases
      <4>4. Reach(N)' = Line(repo) \cup {repo.file}
        BY <1>2, <4>3 DEF Reach, LinesOf
      <4> QED
        BY <2>9, <3>1, <4>1, <4>2, <4>4
    <3> QED
      BY <3>1, <3>2, <3>3, <3>4, <3>5 DEF Record
  <2>14. Places(rec)'
    <3>1. PlaceOK(rec)'
      BY <1>2, <2>4, <2>5, <2>10, <2>11 DEF PlaceOK, Place, On, Appends, Ledgering
    <3>2. OpeningOK(rec)'
      BY <1>2, <2>4, <2>5, <2>9 DEF OpeningOK, Ledgering
    <3> QED
      BY <2>5, <3>1, <3>2 DEF Places, WritingOK
  <2> QED
    BY <2>6, <2>12, <2>13, <2>14 DEF RegisterInv
<1> QED
  BY <1>3, <1>4

LEMMA OpenedKeeps ==
  ASSUME RegisterInv, NEW p \in Procs, Procs = {p}, Opened(p) PROVE RegisterInv'
<1>1. PICK c : c = proc[p]
  OBVIOUS
<1>2. /\ c.at = "opened" /\ c # Idle /\ Places(c) /\ PlaceOK(c) /\ StateOK /\ Record /\ HistoryOK(repo)
      /\ proc'[p] = Idle /\ DOMAIN proc' = Procs
  BY <1>1 DEF Opened, ExitReleasing, Exit, Step, RegisterInv, StateOK, Places, Idle
<1>3. c.cmd = "open" /\ On(c, "open") /\ evidence[c.m].pre = None /\ workpiece[c.m].at = None
  BY <1>2 DEF PlaceOK, Place, Appends, Syncs, Ledgering, Mirroring
<1>4. PICK m : m = c.m
  OBVIOUS
<1>5. m \in Missions /\ m # None /\ manifest[m].state = "open" /\ Engaged(m)
  BY <1>3, <1>4, ManifestFacts DEF On, Engaged
<1>6. Places(Idle)'
  BY IdlePlace
<1>7. CASE c.result = "pushed"
  <2>1. PICK reachable \in BOOLEAN : repo' = WriteState(repo, m, reachable)
    <3>1. PICK pushFails \in Fails("push") : repo' = WriteState(repo, m, ~pushFails)
      BY <1>1, <1>4, <1>7 DEF Opened
    <3>2. PICK reachable : reachable = ~pushFails
      OBVIOUS
    <3>3. reachable \in BOOLEAN
      BY <3>2 DEF Fails
    <3> QED
      BY <3>1, <3>2, <3>3
  <2>2. UNCHANGED <<manifest, evidence, workpiece>>
    BY <1>1, <1>7 DEF Opened
  <2>3. Grows(repo, repo', {}, {m}) /\ HistoryOK(repo')
    BY <1>2, <1>5, <2>1, WriteStateFacts DEF Grows
  <2>4. \A l \in Tips(repo') : OpenedIn(l, m)
    BY <1>2, <1>3, <1>4, <1>7, <2>3 DEF OpeningOK, Places, Grows
  <2>5. Idle.cmd = "none" /\ Idle.m = None
    BY DEF Idle
  <2>6. Bases(m)' = {}
    BY <1>2, <1>3, <1>4, <2>2, <2>5 DEF Bases
  <2>7. Record'
    <3>1. ASSUME NEW n \in Missions
          PROVE  /\ manifest[n].state \in {"closed", "aborted"}
                      => manifest'[n].state \in {"closed", "aborted"}
                 /\ manifest'[n].state = "none" => manifest[n].state = "none"
                 /\ Engaged(n)' => Engaged(n)
                 /\ Held(n)' => Held(n) \/ (Bases(n)' = {} /\ \A l \in Tips(repo') : OpenedIn(l, n))
                 /\ Engaged(n)' => \A b \in Bases(n)' : b \in Bases(n) \/ Drawn(b, {})
      <4>1. Engaged(n)' => Engaged(n)
        BY <1>2, <2>2, <2>5 DEF Engaged
      <4>2. Held(n)' => n = m
        BY <1>2, <1>5, <4>1 DEF Held, Record
      <4>3. Engaged(n)' => n = m
        BY <1>2, <1>5, <4>1 DEF Record
      <4> QED
        BY <2>2, <2>4, <2>6, <4>1, <4>2, <4>3
    <3>2. manifest'[m].state # "none" /\ ~\E q \in Procs : proc'[q].cmd = "open" /\ proc'[q].m = m
      BY <1>2, <1>5, <2>2, <2>5
    <3>3. \A n \in Missions : Bases(n) \subseteq DOMAIN repo.objects
      BY BasesExist
    <3>4. \A q \in Procs : proc'[q].cmd # "open"
      BY <1>2, <2>5
    <3>5. PICK X, C : X = {} /\ C = {m}
      OBVIOUS
    <3>6. Grows(repo, repo', X, C) /\ X \in SUBSET DOMAIN repo.objects
      BY <2>3, <3>5
    <3> QED
      BY <1>2, <1>5, <3>1, <3>2, <3>3, <3>4, <3>5, <3>6, RecordKept
  <2>8. StateOK'
    BY <1>2, <2>2, <2>3, StateKept DEF Grows, StateOK
  <2> QED
    BY <1>2, <1>6, <2>7, <2>8 DEF RegisterInv
<1>8. CASE c.result # "pushed"
  <2>1. /\ repo' = IF c.result = "unpushed" THEN Checkout(repo, HeadTree(repo).parent) ELSE repo
        /\ RemoveMission(m)
    BY <1>1, <1>4, <1>8 DEF Opened
  <2>2. Idle.cmd = "none" /\ Idle.m = None
    BY DEF Idle
  <2>3. /\ manifest' \in [Missions -> Manifests] /\ manifest'[m].state = "none"
        /\ \A n \in Missions \ {m} : manifest'[n] = manifest[n]
    <3>1. NoManifest \in Manifests /\ NoManifest.state = "none"
      BY DEF NoManifest, Manifests, States
    <3> QED
      BY <1>2, <1>5, <2>1, <3>1 DEF StateOK, RemoveMission
  <2>4. OpeningOK(c) /\ c.at = "opened" /\ c.cmd = "open"
    BY <1>2, <1>3 DEF Places
  <2>5. /\ c.result = "unpushed" =>
             /\ repo.head # 1
             /\ \A l \in LineOf(repo, HeadTree(repo).parent) \cup LineOf(repo, repo.origin) : ~OpenedIn(l, m)
        /\ c.result # "unpushed" =>
             /\ \A l \in Line(repo) : ~OpenedIn(l, m)
    BY <1>4, <1>8, <2>4 DEF OpeningOK
  <2>6. ASSUME c.result = "unpushed"
        PROVE  /\ HeadTree(repo).parent \in DOMAIN repo.objects
               /\ LineOf(repo, HeadTree(repo).parent) \subseteq Line(repo)
    <3>1. repo.head \in DOMAIN repo.objects /\ HeadTree(repo).parent \in Ancestors(repo, repo.head)
      BY <1>2, <2>5, <2>6 DEF HistoryOK, HeadTree, Ancestors
    <3> QED
      BY <1>2, <3>1, LinesAreNested DEF Line
  <2>7. /\ HistoryOK(repo') /\ DOMAIN repo.objects = DOMAIN repo'.objects
        /\ LedgersOf(repo') \subseteq LedgersOf(repo) /\ CurrentsOf(repo') \subseteq CurrentsOf(repo)
        /\ Line(repo') \cup {repo'.file} \subseteq Line(repo) \cup {repo.file}
        /\ Contained(repo', m)
    <3>1. CASE c.result # "unpushed"
      <4>1. repo' = repo
        BY <2>1, <3>1
      <4> QED
        BY <1>2, <2>5, <3>1, <4>1 DEF Contained, Line
    <3>2. CASE c.result = "unpushed"
      <4>1. PICK b : b = HeadTree(repo).parent
        OBVIOUS
      <4>2. /\ HistoryOK(repo') /\ repo'.objects = repo.objects /\ repo'.head = b
            /\ repo'.origin = repo.origin /\ repo'.file = Tree(repo, b).ledger
            /\ \A a : LineOf(repo', a) = LineOf(repo, a)
        BY <1>2, <2>1, <2>6, <3>2, <4>1, CheckoutFacts
      <4>3. Line(repo') = LineOf(repo, b) \cup LineOf(repo, repo.origin) /\ repo'.file \in LineOf(repo, b)
        BY <1>2, <2>6, <3>2, <4>1, <4>2, HistoryFacts DEF Line
      <4>4. \A l \in Line(repo') \cup {repo'.file} : ~OpenedIn(l, m)
        BY <2>5, <3>2, <4>1, <4>3
      <4>5. Grows(repo, repo', {b}, {})
        BY <1>2, <2>1, <2>6, <3>2, <4>1, CheckoutGrows
      <4>6. LineOf(repo, b) \subseteq Line(repo)
        BY <2>6, <3>2, <4>1
      <4>7. Contained(repo', m)
        BY <4>4 DEF Contained
      <4> QED
        BY <4>2, <4>3, <4>5, <4>6, <4>7 DEF Grows, Line
    <3> QED
      BY <3>1, <3>2
  <2>8. StateOK'
    <3>1. /\ DOMAIN NoEvidence = EvidenceFields /\ DOMAIN NoWorkpiece = WorkpieceFields
          /\ NoWorkpiece.edits = {} /\ NoWorkpiece.dirty = {} /\ NoEvidence.pre = None
          /\ NoWorkpiece.at = None
      BY DEF NoEvidence, NoWorkpiece, EvidenceFields, WorkpieceFields
    <3>2. /\ evidence' = [evidence EXCEPT ![m] = NoEvidence]
          /\ workpiece' = [workpiece EXCEPT ![m] = NoWorkpiece]
      BY <2>1 DEF RemoveMission
    <3>3. FilesOK(m)'
      BY <1>2, <1>5, <3>1, <3>2 DEF FilesOK, StateOK
    <3> QED
      BY <1>2, <1>5, <2>3, <2>7, <3>2, <3>3, StateKept DEF StateOK
  <2>9. Record'
    <3>1. \A n \in Missions : ~Engaged(n)'
      BY <1>2, <1>5, <2>2, <2>3 DEF Engaged, Record
    <3>2. \A n \in Missions : ~Held(n)'
      BY <3>1 DEF Held
    <3>3. \A l \in LedgersOf(repo') :
            Sound(l) /\ \A n \in Missions : EndedIn(l, n) => manifest'[n].state \in {"closed", "aborted"}
      BY <1>2, <1>5, <2>3, <2>7 DEF Record
    <3>4. \A n \in CurrentsOf(repo') \ {None} :
            manifest'[n].state # "none" /\ ~\E q \in Procs : proc'[q].cmd = "open" /\ proc'[q].m = n
      <4>1. \A n \in CurrentsOf(repo) \ {None} : n # m /\ manifest[n].state # "none" /\ n \in Missions
        BY <1>1, <1>2, <1>3, <1>4, HistoryFacts DEF Record
      <4> QED
        BY <1>2, <2>2, <2>3, <2>7, <4>1
    <3>5. ASSUME NEW n \in Missions, manifest'[n].state = "none" PROVE Contained(repo', n)
      <4>1. CASE n = m
        BY <2>7, <4>1
      <4>2. CASE n # m
        <5>1. \A l \in Reach(m) : ~OpenedIn(l, n)
          BY <1>2, <1>5, <2>3, <3>5, <4>2 DEF Record
        <5>2. \A l \in Line(repo) \cup {repo.file} : ~OpenedIn(l, n)
          BY <5>1 DEF Reach
        <5> QED
          BY <2>7, <5>2 DEF Contained
      <4> QED
        BY <4>1, <4>2
    <3> QED
      BY <3>1, <3>2, <3>3, <3>4, <3>5 DEF Record
  <2> QED
    BY <1>2, <1>6, <2>8, <2>9 DEF RegisterInv
<1> QED
  BY <1>7, <1>8

-----------------------------------------------------------------------------
(* The mirrors.                                                             *)

\* A command other than mission.open that goes on with what it knows.
SameWork(c, rec) ==
  /\ DOMAIN rec = Fields /\ rec.cmd = c.cmd /\ rec.m = c.m /\ rec.seen = c.seen
  /\ rec.pre = c.pre /\ rec.read = c.read

LEMMA WorkGoesOn ==
  ASSUME NEW c, NEW rec, PlaceOK(c), SameWork(c, rec), c.cmd # "open", rec.at # "write",
         DOMAIN repo.objects \subseteq DOMAIN repo'.objects, Place(rec)'
  PROVE  Places(rec)'
BY DEF Places, PlaceOK, SameWork, OpeningOK, WritingOK

LEMMA RefusalsKeep ==
  ASSUME RegisterInv, NEW p \in Procs, Procs = {p}, LockRefused(p) \/ ReconcileUnvalidated(p)
  PROVE  RegisterInv'
<1>1. Exit(p) /\ proc[p].at = "lock" /\ UNCHANGED <<manifest, evidence, workpiece, repo>>
  BY DEF LockRefused, ReconcileUnvalidated
<1>2. proc[p].cmd = "open" => proc[p].m = None
  BY <1>1 DEF RegisterInv, Places, PlaceOK, Place, Appends, Ledgering, Idle
<1> QED
  BY <1>1, <1>2, ExitKeeps

\* A command within the mirror sync, and where the sync returns to.
LEMMA SyncingPlace ==
  ASSUME NEW c, PlaceOK(c), c.at \in Mirroring
  PROVE  /\ c.cmd \in {"sync", "reconcile", "close"} /\ Syncs(c, c.next)
         /\ c.next = "exit" <=> c.cmd = "sync"
         /\ c.cmd = "reconcile" => Entered(c) /\ c.next = "reconciled"
         /\ c.cmd = "close" => \/ Entered(c) /\ c.next = "gate"
                               \/ On(c, "closed") /\ c.next = "seal"
<1>1. c # Idle
  BY DEF Mirroring, Idle
<1> QED
  BY <1>1 DEF PlaceOK, Place, Appends, Syncs, Ledgering, Mirroring

LEMMA SyncsKeep ==
  ASSUME RegisterInv, NEW p \in Procs, Procs = {p}, SyncPush(p) \/ SyncMirrors(p) \/ SyncRef(p)
  PROVE  RegisterInv'
<1>1. PICK c : c = proc[p]
  OBVIOUS
<1>2. /\ c.at \in Mirroring /\ Places(c) /\ PlaceOK(c) /\ DOMAIN c = Fields /\ StateOK /\ HistoryOK(repo)
      /\ UNCHANGED <<manifest, evidence, workpiece>>
  BY <1>1 DEF SyncPush, SyncMirrors, SyncRef, RegisterInv, StateOK, Places, PlaceOK, Mirroring
<1>3. Grows(repo, repo', {}, {None}) /\ \A m \in Missions : Contained(repo, m) => Contained(repo', m)
  <2>1. CASE repo' = repo
    BY <1>2, <2>1, GrowsReflexive
  <2>2. CASE repo' = Push(repo)
    BY <1>2, <2>2, PushGrows, PushContains
  <2>3. CASE repo' = [repo EXCEPT !.external = repo.origin] \/ repo' = [repo EXCEPT !.mirror = repo.origin]
    <3>1. /\ repo' \in Repositories /\ repo'.objects = repo.objects /\ repo'.head = repo.head
          /\ repo'.origin = repo.origin /\ repo'.file = repo.file /\ repo'.current = repo.current
      BY <1>2, <2>3 DEF HistoryOK, Repositories
    <3>2. \A a : /\ Ancestors(repo', a) = Ancestors(repo, a) /\ LineOf(repo', a) = LineOf(repo, a)
      BY <3>1 DEF Ancestors, Tree, LineOf
    <3>3. HistoryOK(repo')
      BY <1>2, <3>1, <3>2 DEF HistoryOK
    <3>4. repo'.current \in CurrentsOf(repo)
      BY <3>1 DEF CurrentsOf
    <3>5. \A m \in Missions : Contained(repo, m) => Contained(repo', m)
      BY <3>1, <3>2 DEF Contained, Line
    <3> QED
      BY <1>2, <3>1, <3>3, <3>4, <3>5, MovesGrow
  <2> QED
    BY <2>1, <2>2, <2>3 DEF SyncPush, SyncMirrors, SyncRef
<1>4. PICK rec : /\ proc' = [proc EXCEPT ![p] = rec]
                 /\ \/ rec = Idle
                    \/ rec = Appending(c, "mirror-sync", "mirrors")
                    \/ rec = [c EXCEPT !.at = "ref"]
                    \/ rec = [c EXCEPT !.at = c.next] /\ c.next # "exit"
  BY <1>1 DEF SyncPush, SyncMirrors, SyncRef, Step, Goto, Exit
<1>5. proc'[p] = rec /\ DOMAIN proc' = Procs
  BY <1>2, <1>4 DEF StateOK
<1>6. StatesKept /\ manifest' \in [Missions -> Manifests]
  BY <1>2 DEF StatesKept, StateOK
<1>7. CASE rec = Idle
  <2>1. Steady(proc[p], rec) /\ BaseKept(proc[p], rec)
    BY <1>1, <1>2, <1>7, SyncingPlace DEF Steady, BaseKept, Idle
  <2>2. Places(rec)'
    BY <1>7, IdlePlace
  <2> QED
    BY <1>2, <1>3, <1>5, <1>6, <2>1, <2>2, FilesUnchanged, StepForward
<1>8. CASE rec # Idle
  <2>1. /\ SameWork(c, rec) /\ rec.next = c.next
        /\ \/ rec.at = "append" /\ rec.kind = "mirror-sync" /\ rec.ret = "mirrors"
           \/ rec.at = "ref"
           \/ rec.at = c.next /\ c.next # "exit"
    BY <1>2, <1>4, <1>8 DEF SameWork, Appending, Fields
  <2>2. Place(rec)
    BY <1>2, <2>1, SyncingPlace
       DEF SameWork, Place, Syncs, Appends, Ledgering, Mirroring, Entered, On
  <2>3. Place(rec)'
    BY <1>2, <2>2 DEF Place, On, Entered
  <2>4. rec.at # "write" /\ c.cmd # "open" /\ DOMAIN repo.objects \subseteq DOMAIN repo'.objects
    BY <1>2, <1>3, <2>1, SyncingPlace DEF Grows
  <2>5. Places(rec)'
    BY <1>2, <2>1, <2>3, <2>4, WorkGoesOn
  <2>6. Steady(proc[p], rec) /\ BaseKept(proc[p], rec)
    BY <1>1, <2>1 DEF Steady, BaseKept, SameWork
  <2> QED
    BY <1>2, <1>3, <1>5, <1>6, <2>5, <2>6, FilesUnchanged, StepForward
<1> QED
  BY <1>7, <1>8

-----------------------------------------------------------------------------
(* mission.materialize.                                                     *)

\* The clone goes to what is published, and the workpiece starts one commit later.
LEMMA PlacedFacts ==
  ASSUME NEW r, HistoryOK(r), NEW C, NEW synced, synced = Checkout(r, r.origin),
         NEW placed, placed = CommitTree(synced, HeadTree(synced), {synced.head}),
         NEW s, s = [placed EXCEPT !.head = synced.head]
  PROVE  /\ Grows(r, s, {}, C) /\ placed.head \in DOMAIN s.objects
         /\ HeadTree(placed).edits \subseteq Edits
         /\ LineOf(s, placed.head) \subseteq Line(r) /\ Tree(s, placed.head).ledger \in Tips(r)
<1>1. r.origin \in DOMAIN r.objects /\ Tree(r, r.origin) \in Trees
  BY HistoryFacts DEF HistoryOK
<1>2. /\ HistoryOK(synced) /\ synced.objects = r.objects /\ synced.head = r.origin
      /\ synced.origin = r.origin /\ synced.file = Tree(r, r.origin).ledger
      /\ \A a : Ancestors(synced, a) = Ancestors(r, a) /\ LineOf(synced, a) = LineOf(r, a)
      /\ HeadTree(synced) = Tree(r, r.origin)
  BY <1>1, CheckoutFacts
<1>3. PICK tree, P : tree = HeadTree(synced) /\ P = {synced.head}
  OBVIOUS
<1>4. tree \in Trees /\ P \in SUBSET DOMAIN synced.objects /\ synced.head \in P
      /\ placed = CommitTree(synced, tree, P)
  BY <1>1, <1>2, <1>3
<1>5. HistoryOK(placed) /\ placed.head \in DOMAIN placed.objects
  <2>1. HistoryOK(placed)
    BY <1>2, <1>4, CommitTreeFacts
  <2> QED
    BY <2>1 DEF HistoryOK
<1>6. Tree(placed, placed.head).ledger = tree.ledger /\ Tree(placed, placed.head).edits = tree.edits
  BY <1>2, <1>4, CommitTreeFacts
<1>7. \A l : l \in LineOf(placed, placed.head) <=> l = tree.ledger \/ l \in LinesOf(synced, P)
  BY <1>2, <1>4, CommitLine
<1>8. placed.file = synced.file /\ placed.origin = synced.origin /\ placed.current = synced.current
  BY <1>2, <1>4, CommitTreeFacts
<1>9. synced.objects[synced.head] = placed.objects[synced.head]
  <2>1. \A x \in DOMAIN synced.objects : placed.objects[x] = synced.objects[x]
    BY <1>2, <1>4, CommitTreeFacts
  <2> QED
    BY <1>4, <2>1
<1>10. synced.head \in DOMAIN placed.objects
  <2>1. DOMAIN placed.objects = DOMAIN synced.objects \cup {placed.head}
    BY <1>2, <1>4, CommitTreeFacts
  <2> QED
    BY <1>4, <2>1
<1>11. /\ s \in Repositories /\ s.objects = placed.objects /\ s.head = synced.head
       /\ s.origin = placed.origin /\ s.file = placed.file /\ s.current = placed.current
  <2>1. synced.head \in Nat /\ placed \in Repositories
    BY <1>2, <1>5 DEF HistoryOK, Repositories
  <2> QED
    BY <2>1 DEF Repositories
<1>12. \A a : Ancestors(s, a) = Ancestors(placed, a) /\ LineOf(s, a) = LineOf(placed, a)
  BY <1>11 DEF Ancestors, LineOf, Tree
<1>13. HistoryOK(s)
  <2>1. s.head \in DOMAIN s.objects /\ s.origin \in DOMAIN s.objects
    BY <1>5, <1>10, <1>11 DEF HistoryOK
  <2>2. \A x \in DOMAIN placed.objects :
           /\ placed.objects[x].older \subseteq 1 .. x - 1 /\ 1 \in Ancestors(placed, x)
           /\ x # 1 => placed.objects[x].parent \in placed.objects[x].older
           /\ \A a \in placed.objects[x].older : placed.objects[a].older \subseteq placed.objects[x].older
    BY <1>5 DEF HistoryOK
  <2>3. s \in Repositories /\ s.objects = placed.objects
    BY <1>11
  <2>4. \A a : Ancestors(s, a) = Ancestors(placed, a)
    BY <1>12
  <2>5. \A x \in DOMAIN s.objects :
           /\ s.objects[x].older \subseteq 1 .. x - 1 /\ 1 \in Ancestors(s, x)
           /\ x # 1 => s.objects[x].parent \in s.objects[x].older
           /\ \A a \in s.objects[x].older : s.objects[a].older \subseteq s.objects[x].older
    BY <2>2, <2>3, <2>4, ZenonT(60)
  <2> QED
    BY <2>1, <2>3, <2>5 DEF HistoryOK
<1>14. tree.ledger \in Tips(r) /\ tree.ledger \in Line(r)
  BY <1>1, <1>2, <1>3, HistoryFacts DEF Tips, Line
<1>15. Grows(r, synced, {}, C)
  <2>1. synced.file = HeadTree(synced).ledger /\ synced.current \in CurrentsOf(r)
    BY <1>1, <1>2, CheckoutFacts, HistoryFacts
  <2> QED
    BY <1>2, <2>1, MovesGrow
<1>16. Grows(synced, placed, {}, C)
  <2>1. P \subseteq {synced.head, synced.origin} \cup {}
    BY <1>3
  <2>2. tree.ledger \in Tips(synced) /\ tree.current \in CurrentsOf(synced)
    BY <1>2, <1>3, HistoryFacts DEF Tips, HistoryOK
  <2> QED
    BY <1>2, <1>4, <2>1, <2>2, CommitGrows
<1>17. Grows(placed, s, {}, C)
  <2>1. s.file = HeadTree(s).ledger
    BY <1>2, <1>8, <1>9, <1>11 DEF HeadTree, Tree
  <2>2. s.head \in {placed.head, placed.origin} /\ s.origin \in {placed.head, placed.origin}
        /\ s.current \in CurrentsOf(placed)
    BY <1>2, <1>8, <1>11 DEF CurrentsOf
  <2> QED
    BY <1>5, <1>11, <1>13, <2>1, <2>2, MovesGrow
<1>18. Grows(r, s, {}, C)
  <2>1. Grows(r, placed, {}, C)
    BY <1>15, <1>16, GrowsTransitive
  <2> QED
    BY <1>17, <2>1, GrowsTransitive
<1>19. HeadTree(placed).edits \subseteq Edits
  <2>1. HeadTree(placed) = Tree(placed, placed.head)
    BY DEF HeadTree, Tree
  <2>2. tree.edits \in SUBSET Edits
    BY <1>4 DEF Trees
  <2> QED
    BY <1>6, <2>1, <2>2
<1>20. LineOf(s, placed.head) \subseteq Line(r)
  <2>1. LinesOf(synced, P) = LineOf(r, r.origin)
    BY <1>2, <1>3 DEF LinesOf
  <2> QED
    BY <1>7, <1>12, <1>14, <2>1 DEF Line
<1>21. Tree(s, placed.head).ledger \in Tips(r)
  BY <1>6, <1>11, <1>14 DEF Tree
<1> QED
  BY <1>5, <1>11, <1>18, <1>19, <1>20, <1>21

LEMMA MaterializeLockedKeeps ==
  ASSUME RegisterInv, NEW p \in Procs, Procs = {p}, MaterializeLocked(p) PROVE RegisterInv'
<1>1. PICK c : c = proc[p]
  OBVIOUS
<1>2. /\ c.at = "lock" /\ c.cmd = "materialize" /\ Places(c) /\ PlaceOK(c) /\ DOMAIN c = Fields
      /\ StateOK /\ HistoryOK(repo) /\ UNCHANGED <<manifest, evidence>>
  BY <1>1 DEF MaterializeLocked, RegisterInv, StateOK, Places, PlaceOK
<1>3. Entered(c) /\ c.m \in Missions
  BY <1>2 DEF PlaceOK, Place, Idle, Entered, On
<1>4. PICK m : m = c.m
  OBVIOUS
<1>5. m \in Missions /\ manifest[m].state = "open" /\ Engaged(m)
  BY <1>3, <1>4 DEF Entered, On, Engaged
<1>6. PICK synced, placed :
        /\ synced = Checkout(repo, repo.origin)
        /\ placed = CommitTree(synced, HeadTree(synced), {synced.head})
        /\ repo' = [placed EXCEPT !.head = synced.head]
        /\ workpiece' = [workpiece EXCEPT ![m] =
             [NoWorkpiece EXCEPT !.at = placed.head, !.edits = HeadTree(placed).edits]]
  BY <1>1, <1>4 DEF MaterializeLocked
<1>7. /\ Grows(repo, repo', {}, {None}) /\ placed.head \in DOMAIN repo'.objects
      /\ HeadTree(placed).edits \subseteq Edits
      /\ LineOf(repo', placed.head) \subseteq Line(repo) /\ Tree(repo', placed.head).ledger \in Tips(repo)
  BY <1>2, <1>6, PlacedFacts
<1>8. PICK rec : /\ proc' = [proc EXCEPT ![p] = rec]
                 /\ \/ rec = Appending(c, "preflight-skipped", "materialized")
                    \/ rec = [c EXCEPT !.at = "materialized"]
  BY <1>1 DEF MaterializeLocked, Step
<1>9. /\ proc'[p] = rec /\ DOMAIN proc' = Procs
      /\ SameWork(c, rec)
      /\ rec.at = "materialized" \/ Appends(rec, "preflight-skipped", {"materialized"})
      /\ rec.at # "write"
  BY <1>2, <1>8 DEF StateOK, SameWork, Appending, Fields, Appends, Ledgering
<1>10. PICK w : /\ w = [NoWorkpiece EXCEPT !.at = placed.head, !.edits = HeadTree(placed).edits]
                /\ DOMAIN w = WorkpieceFields /\ w.at = placed.head /\ w.edits \subseteq Edits
                /\ w.dirty \subseteq Edits
  <2>1. PICK at, edits : at = placed.head /\ edits = HeadTree(placed).edits
    OBVIOUS
  <2> DEFINE w == [NoWorkpiece EXCEPT !.at = at, !.edits = edits]
  <2>2. DOMAIN w = WorkpieceFields /\ w.at = at /\ w.edits = edits /\ w.dirty = {}
    BY DEF NoWorkpiece, WorkpieceFields
  <2>3. w = [NoWorkpiece EXCEPT !.at = placed.head, !.edits = HeadTree(placed).edits]
    BY <2>1
  <2> HIDE DEF w
  <2> QED
    BY <1>7, <2>1, <2>2, <2>3
<1>11. /\ DOMAIN workpiece' = Missions /\ workpiece'[m] = w
       /\ \A n \in Missions \ {m} : workpiece'[n] = workpiece[n]
  BY <1>2, <1>5, <1>6, <1>10 DEF StateOK
<1>12. Steady(proc[p], rec) /\ StatesKept
  BY <1>1, <1>2, <1>9 DEF Steady, SameWork, StatesKept
<1>13. Record'
  <2>1. Drawn(placed.head, {})
    BY <1>7 DEF Drawn
  <2>2. ASSUME NEW n \in Missions PROVE \A b \in Bases(n)' : b \in Bases(n) \/ b = placed.head
    <3>1. workpiece'[n].at \in {workpiece[n].at, placed.head} /\ evidence'[n].pre = evidence[n].pre
      BY <1>2, <1>10, <1>11
    <3>2. \A q \in Procs : proc'[q].cmd # "reconcile"
      BY <1>2, <1>9 DEF SameWork
    <3> QED
      BY <3>1, <3>2 DEF Bases
  <2>3. \A n \in Missions : Engaged(n)' => \A b \in Bases(n)' : b \in Bases(n) \/ Drawn(b, {})
    BY <2>1, <2>2
  <2> QED
    BY <1>5, <1>7, <1>9, <1>12, <2>3, CommandKeepsRecord
<1>14. StateOK'
  <2>1. HistoryOK(repo') /\ DOMAIN repo.objects \subseteq DOMAIN repo'.objects
    BY <1>7 DEF Grows
  <2>2. FilesOK(m)'
    <3>1. FilesOK(m)
      BY <1>5, ManifestFacts
    <3> QED
      BY <1>2, <1>5, <1>7, <1>10, <1>11, <2>1, <3>1 DEF FilesOK
  <2> QED
    BY <1>2, <1>9, <1>11, <2>1, <2>2, StateKept DEF StateOK
<1>15. Places(rec)'
  <2>1. Place(rec)'
    BY <1>2, <1>3, <1>9 DEF Place, SameWork, Entered, On
  <2> QED
    BY <1>2, <1>7, <1>9, <2>1, WorkGoesOn DEF Grows
<1> QED
  BY <1>9, <1>13, <1>14, <1>15 DEF RegisterInv

\* A command that ends and has written the manifest of its mission.
LEMMA ManifestWritten ==
  ASSUME RegisterInv, NEW p \in Procs, Procs = {p}, NEW c, c = proc[p], c.cmd # "open",
         NEW m \in Missions, manifest[m].state = "open", NEW x \in Manifests, x.state \in {"open", "closed", "aborted"},
         manifest' = [manifest EXCEPT ![m] = x]
  PROVE  /\ StatesKept /\ manifest' \in [Missions -> Manifests] /\ manifest'[m] = x
         /\ Engaged(m)
BY DEF StatesKept, RegisterInv, StateOK, Engaged

LEMMA MaterializedKeeps ==
  ASSUME RegisterInv, NEW p \in Procs, Procs = {p}, Materialized(p) PROVE RegisterInv'
<1>1. PICK c : c = proc[p]
  OBVIOUS
<1>2. /\ c.at = "materialized" /\ PlaceOK(c) /\ c.seen \in Manifests /\ StateOK /\ HistoryOK(repo)
      /\ UNCHANGED <<evidence, workpiece, repo>> /\ Exit(p) /\ proc'[p] = Idle /\ DOMAIN proc' = Procs
  BY <1>1 DEF Materialized, ExitReleasing, Exit, Step, RegisterInv, StateOK, Places, PlaceOK
<1>3. c.cmd = "materialize" /\ Entered(c)
  BY <1>2 DEF PlaceOK, Place, Appends, Syncs, Ledgering, Mirroring, Idle
<1>4. CASE manifest' = manifest
  BY <1>1, <1>2, <1>3, <1>4, ExitKeeps
<1>5. CASE manifest' # manifest
  <2>1. PICK x : x = [c.seen EXCEPT !.materialized = TRUE]
    OBVIOUS
  <2>2. x \in Manifests /\ x.state = "open"
    BY <1>2, <1>3, <2>1 DEF Manifests, Entered
  <2>3. manifest' = [manifest EXCEPT ![c.m] = x]
    BY <1>1, <1>5, <2>1 DEF Materialized
  <2>4. c.m \in Missions /\ manifest[c.m].state = "open"
    BY <1>3 DEF Entered, On
  <2>5. StatesKept /\ manifest' \in [Missions -> Manifests] /\ Engaged(c.m)
    BY <1>1, <1>3, <2>2, <2>3, <2>4, ManifestWritten
  <2>6. Steady(proc[p], Idle) /\ BaseKept(proc[p], Idle)
    BY <1>1, <1>3 DEF Steady, BaseKept, Idle
  <2>7. Grows(repo, repo', {}, {None})
    BY <1>2, GrowsReflexive
  <2> QED
    BY <1>2, <2>4, <2>5, <2>6, <2>7, IdlePlace, FilesUnchanged, StepForward
<1> QED
  BY <1>4, <1>5


-----------------------------------------------------------------------------
(* mission.reconcile.                                                       *)

\* The clone goes back to where an earlier reconcile started, if there was one.
BackTo(clean, pre) == IF pre = None THEN clean ELSE Checkout(clean, pre)
\* The commits a reconcile brings back to the branch.
Taken(pre, at) == {pre, at} \ {None}

LEMMA ReconcileFacts ==
  ASSUME NEW r, HistoryOK(r), NEW pre \in {None} \cup DOMAIN r.objects, NEW at \in DOMAIN r.objects,
         NEW edits \in SUBSET Edits, NEW C,
         NEW clean, clean = CommitAll(r),
         NEW base, base = BackTo(clean, pre),
         NEW merged, merged = MergeWorkpiece(base, at, edits),
         NEW s \in {base, merged, Push(merged)},
         NEW X, X = Taken(pre, at)
  PROVE  /\ X \in SUBSET DOMAIN r.objects /\ Grows(r, s, X, C) /\ clean.head \in DOMAIN s.objects
         /\ LineOf(s, clean.head) \subseteq Line(r) \cup {r.file}
         /\ Tree(s, clean.head).ledger \in Tips(r)
<1>1. None \notin DOMAIN r.objects
  BY HistoryFacts DEF None
<1>2. X \in SUBSET DOMAIN r.objects
  BY DEF Taken
<1>3. at \in X /\ (pre # None => pre \in X)
  BY <1>1 DEF Taken
<1>4. Grows(r, clean, {}, C) /\ HistoryOK(clean)
  BY CommitAllFacts DEF Grows
<1>5. Grows(r, clean, X, C)
  BY <1>4, GrowsWiden
<1>6. X \subseteq DOMAIN clean.objects
  BY <1>2, <1>4 DEF Grows
<1>7. Grows(clean, base, X, C)
  <2>1. CASE pre = None
    BY <1>4, <2>1, GrowsReflexive DEF BackTo
  <2>2. CASE pre # None
    <3>1. pre \in DOMAIN clean.objects
      BY <1>3, <1>6, <2>2
    <3>2. Grows(clean, base, {pre}, C)
      BY <1>4, <2>2, <3>1, CheckoutGrows DEF BackTo
    <3>3. {pre} \subseteq X
      BY <1>3, <2>2
    <3> QED
      BY <3>2, <3>3, GrowsWiden
  <2> QED
    BY <2>1, <2>2
<1>8. HistoryOK(base) /\ at \in DOMAIN base.objects
  BY <1>3, <1>6, <1>7 DEF Grows
<1>9. Grows(base, merged, X, C)
  <2>1. Grows(base, merged, {at}, C)
    BY <1>8, MergeGrows
  <2>2. {at} \subseteq X
    BY <1>3
  <2> QED
    BY <2>1, <2>2, GrowsWiden
<1>10. Grows(clean, merged, X, C)
  BY <1>4, <1>6, <1>7, <1>9, GrowsTransitive
<1>11. HistoryOK(merged)
  BY <1>10 DEF Grows
<1>12. Grows(merged, Push(merged), X, C)
  <2>1. Grows(merged, Push(merged), {}, C)
    BY <1>11, PushGrows
  <2> QED
    BY <2>1, GrowsWiden
<1>13. Grows(clean, Push(merged), X, C)
  BY <1>4, <1>6, <1>10, <1>12, GrowsTransitive
<1>14. Grows(clean, s, X, C)
  BY <1>7, <1>10, <1>13
<1>15. Grows(r, s, X, C)
  BY <1>2, <1>5, <1>14, GrowsTransitive
<1>16. clean.head \in DOMAIN clean.objects
  BY <1>4 DEF HistoryOK
<1>17. clean.head \in DOMAIN s.objects /\ Tree(s, clean.head) = Tree(clean, clean.head)
  BY <1>14, <1>16 DEF Grows, Tree
<1>18. LineOf(s, clean.head) = LineOf(clean, clean.head)
  <2>1. Ancestors(clean, clean.head) \subseteq DOMAIN clean.objects
    BY <1>4, <1>16, HistoryFacts
  <2>2. Ancestors(s, clean.head) = Ancestors(clean, clean.head)
    BY <1>14, <1>16 DEF Ancestors, Grows
  <2>3. \A a \in Ancestors(clean, clean.head) : Tree(s, a) = Tree(clean, a)
    BY <1>14, <2>1 DEF Tree, Grows
  <2> QED
    BY <2>2, <2>3 DEF LineOf
<1>19. Line(clean) \subseteq Line(r) \cup {r.file} /\ Tips(clean) \subseteq Tips(r)
  BY <1>4 DEF Grows, LinesOf
<1>20. LineOf(clean, clean.head) \subseteq Line(clean) /\ Tree(clean, clean.head).ledger \in Tips(clean)
  BY DEF Line, Tips, HeadTree, Tree
<1> QED
  BY <1>2, <1>15, <1>17, <1>18, <1>19, <1>20

\* The operator's pending edits become a commit of the workpiece.
LEMMA CommitWorkpieceFacts ==
  ASSUME RegisterInv, NEW m \in Missions, workpiece' = CommitWorkpiece(m)
  PROVE  /\ DOMAIN workpiece' = Missions
         /\ \A n \in Missions :
              /\ DOMAIN workpiece'[n] = WorkpieceFields /\ workpiece'[n].at = workpiece[n].at
              /\ workpiece'[n].edits \subseteq Edits /\ workpiece'[n].dirty \subseteq Edits
<1>1. DOMAIN workpiece = Missions /\ \A n \in Missions : FilesOK(n)
  BY DEF RegisterInv, StateOK
<1>2. PICK content : content = Content(m) /\ content \subseteq Edits
  BY ContentIsEdits
<1>3. PICK w : /\ w = [workpiece[m] EXCEPT !.edits = content, !.dirty = {}]
               /\ DOMAIN w = WorkpieceFields /\ w.at = workpiece[m].at
               /\ w.edits \subseteq Edits /\ w.dirty \subseteq Edits
  <2> DEFINE w == [workpiece[m] EXCEPT !.edits = content, !.dirty = {}]
  <2>1. DOMAIN w = WorkpieceFields /\ w.at = workpiece[m].at /\ w.edits = content /\ w.dirty = {}
    BY <1>1 DEF FilesOK, WorkpieceFields
  <2>2. w = [workpiece[m] EXCEPT !.edits = content, !.dirty = {}]
    OBVIOUS
  <2> HIDE DEF w
  <2> QED
    BY <1>2, <2>1, <2>2
<1>4. workpiece' = [workpiece EXCEPT ![m] = w]
  BY <1>1, <1>2, <1>3 DEF CommitWorkpiece
<1> QED
  BY <1>1, <1>3, <1>4 DEF FilesOK

LEMMA ReconcileLockedKeeps ==
  ASSUME RegisterInv, NEW p \in Procs, Procs = {p}, ReconcileLocked(p) PROVE RegisterInv'
<1>1. PICK c : c = proc[p]
  OBVIOUS
<1>2. /\ c.at = "lock" /\ c.cmd = "reconcile" /\ Places(c) /\ PlaceOK(c) /\ DOMAIN c = Fields
      /\ StateOK /\ HistoryOK(repo) /\ UNCHANGED <<manifest, evidence>>
  BY <1>1 DEF ReconcileLocked, RegisterInv, StateOK, Places, PlaceOK
<1>3. Entered(c) /\ c.m \in Missions
  BY <1>2 DEF PlaceOK, Place, Idle, Entered, On
<1>4. CASE UNCHANGED <<workpiece, repo>> /\ Exit(p)
  BY <1>1, <1>2, <1>4, ExitKeeps
<1>5. CASE ~(UNCHANGED <<workpiece, repo>> /\ Exit(p))
  <2>1. PICK m : m = c.m
    OBVIOUS
  <2>2. m \in Missions /\ manifest[m].state = "open" /\ Engaged(m) /\ FilesOK(m)
    BY <1>3, <2>1, ManifestFacts DEF Entered, On, Engaged
  <2>3. workpiece[m].at # None /\ workpiece' = CommitWorkpiece(m)
    BY <1>1, <1>5, <2>1 DEF ReconcileLocked
  <2>4. PICK pre, at, edits :
          /\ pre = evidence[m].pre /\ at = workpiece[m].at /\ edits = Content(m)
          /\ pre \in {None} \cup DOMAIN repo.objects /\ at \in DOMAIN repo.objects
          /\ edits \in SUBSET Edits /\ at # None
    BY <2>2, <2>3, ContentIsEdits DEF FilesOK
  <2>5. PICK clean : clean = CommitAll(repo)
    OBVIOUS
  <2>6. PICK base : base = BackTo(clean, pre)
    OBVIOUS
  <2>7. PICK merged : merged = MergeWorkpiece(base, at, edits)
    OBVIOUS
  <2>8. PICK rec : /\ proc' = [proc EXCEPT ![p] = rec] /\ repo' \in {base, merged, Push(merged)}
                   /\ \/ rec = Idle
                      \/ \E head :
                           LET done == [c EXCEPT !.pre = clean.head, !.head = head]
                           IN  rec = Syncing(done, "reconciled") \/ rec = [done EXCEPT !.at = "reconciled"]
    <3>1. CASE repo' = base /\ Exit(p)
      BY <3>1 DEF Exit, Step
    <3>2. CASE ~(repo' = base /\ Exit(p))
      <4>1. repo' \in {merged, Push(merged)}
        BY <1>1, <1>5, <2>1, <2>4, <2>5, <2>6, <2>7, <3>2 DEF ReconcileLocked, BackTo
      <4>2. PICK head : head = WorkpieceHead(workpiece'[m])
        OBVIOUS
      <4> DEFINE done == [c EXCEPT !.pre = clean.head, !.head = head]
      <4>3. Step(p, Syncing(done, "reconciled")) \/ Step(p, [done EXCEPT !.at = "reconciled"])
        BY <1>1, <1>5, <2>1, <2>4, <2>5, <2>6, <3>2, <4>2 DEF ReconcileLocked, BackTo
      <4> HIDE DEF done
      <4> QED
        BY <4>1, <4>3 DEF Step, done
    <3> QED
      BY <3>1, <3>2
  <2>9. PICK X : X = Taken(pre, at)
    OBVIOUS
  <2>10. /\ X \in SUBSET DOMAIN repo.objects /\ Grows(repo, repo', X, {None})
         /\ clean.head \in DOMAIN repo'.objects
         /\ LineOf(repo', clean.head) \subseteq Line(repo) \cup {repo.file}
         /\ Tree(repo', clean.head).ledger \in Tips(repo)
    <3>1. PICK s, C : s = repo' /\ C = {None}
      OBVIOUS
    <3>2. s \in {base, merged, Push(merged)}
      BY <2>8, <3>1
    <3>3. /\ X \in SUBSET DOMAIN repo.objects /\ Grows(repo, s, X, C) /\ clean.head \in DOMAIN s.objects
          /\ LineOf(s, clean.head) \subseteq Line(repo) \cup {repo.file}
          /\ Tree(s, clean.head).ledger \in Tips(repo)
      BY <1>2, <2>4, <2>5, <2>6, <2>7, <2>9, <3>2, ReconcileFacts
    <3> QED
      BY <3>1, <3>3
  <2>11. X \subseteq Bases(m)
    BY <2>4, <2>9 DEF Bases, Taken
  <2>12. Drawn(clean.head, X)
    BY <2>10 DEF Drawn
  <2>13. /\ proc'[p] = rec /\ DOMAIN proc' = Procs
         /\ \/ rec = Idle
            \/ /\ DOMAIN rec = Fields /\ rec.cmd = c.cmd /\ rec.m = c.m /\ rec.seen = c.seen
               /\ rec.read = c.read /\ rec.pre = clean.head
               /\ (rec.at = "sync" /\ rec.next = "reconciled") \/ rec.at = "reconciled"
    BY <1>2, <2>8 DEF Syncing, Fields, StateOK
  <2>14. /\ DOMAIN workpiece' = Missions
         /\ \A n \in Missions :
              /\ DOMAIN workpiece'[n] = WorkpieceFields /\ workpiece'[n].at = workpiece[n].at
              /\ workpiece'[n].edits \subseteq Edits /\ workpiece'[n].dirty \subseteq Edits
    BY <2>2, <2>3, CommitWorkpieceFacts
  <2>15. Steady(proc[p], rec) /\ StatesKept
    BY <1>1, <1>2, <2>13 DEF Steady, StatesKept, Idle
  <2>16. Record'
    <3>1. ASSUME NEW n \in Missions PROVE \A b \in Bases(n)' : b \in Bases(n) \/ b = clean.head
      <4>1. workpiece'[n].at = workpiece[n].at /\ evidence'[n].pre = evidence[n].pre
        BY <1>2, <2>14
      <4>2. \A q \in Procs : proc'[q].cmd = "reconcile" => proc'[q].pre = clean.head
        BY <2>13 DEF Idle
      <4> QED
        BY <4>1, <4>2 DEF Bases
    <3>2. \A n \in Missions : Engaged(n)' => \A b \in Bases(n)' : b \in Bases(n) \/ Drawn(b, X)
      BY <2>12, <3>1
    <3> QED
      BY <2>2, <2>10, <2>11, <2>13, <2>15, <3>2, CommandKeepsRecord
  <2>17. StateOK'
    <3>1. HistoryOK(repo') /\ DOMAIN repo.objects \subseteq DOMAIN repo'.objects
      BY <2>10 DEF Grows
    <3>2. ASSUME NEW n \in Missions PROVE FilesOK(n)'
      <4>1. FilesOK(n)
        BY ManifestFacts
      <4> QED
        BY <1>2, <2>14, <3>1, <4>1 DEF FilesOK
    <3> QED
      BY <1>2, <2>13, <2>14, <3>1, <3>2, StateKept DEF StateOK
  <2>18. Places(rec)'
    <3>1. CASE rec = Idle
      BY <3>1, IdlePlace
    <3>2. CASE rec # Idle
      <4>1. Place(rec)'
        BY <1>2, <1>3, <2>13, <3>2 DEF Place, Entered, On, Syncs, Mirroring
      <4>2. PlaceOK(rec)'
        BY <1>2, <2>10, <2>13, <3>2, <4>1 DEF PlaceOK
      <4> QED
        BY <1>2, <2>13, <3>2, <4>2 DEF Places, OpeningOK, WritingOK
    <3> QED
      BY <3>1, <3>2
  <2> QED
    BY <2>13, <2>16, <2>17, <2>18 DEF RegisterInv
<1> QED
  BY <1>4, <1>5

LEMMA ReconciledKeeps ==
  ASSUME RegisterInv, NEW p \in Procs, Procs = {p}, Reconciled(p) PROVE RegisterInv'
<1>1. PICK c : c = proc[p]
  OBVIOUS
<1>2. /\ c.at = "reconciled" /\ PlaceOK(c) /\ c.seen \in Manifests /\ StateOK /\ HistoryOK(repo)
      /\ UNCHANGED <<workpiece, repo>> /\ proc'[p] = Idle /\ DOMAIN proc' = Procs
  BY <1>1 DEF Reconciled, ExitReleasing, Exit, Step, RegisterInv, StateOK, Places, PlaceOK
<1>3. c.cmd = "reconcile" /\ Entered(c)
  BY <1>2 DEF PlaceOK, Place, Appends, Syncs, Ledgering, Mirroring, Idle
<1>4. PICK m : m = c.m
  OBVIOUS
<1>5. m \in Missions /\ manifest[m].state = "open"
  BY <1>3, <1>4 DEF Entered, On
<1>6. PICK x : x = [c.seen EXCEPT !.reconciled = TRUE]
  OBVIOUS
<1>7. x \in Manifests /\ x.state = "open" /\ manifest' = [manifest EXCEPT ![m] = x]
  BY <1>1, <1>2, <1>3, <1>4, <1>6 DEF Manifests, Entered, Reconciled
<1>8. StatesKept /\ manifest' \in [Missions -> Manifests] /\ Engaged(m)
  BY <1>1, <1>3, <1>5, <1>7, ManifestWritten
<1>9. /\ DOMAIN evidence' = Missions /\ DOMAIN workpiece' = Missions
      /\ \A n \in Missions : FilesKept(proc[p], n)
  <2>1. \A n \in Missions : FilesOK(n)
    BY <1>2 DEF StateOK
  <2>2. PICK e : /\ e = [evidence[m] EXCEPT !.pre = c.pre, !.head = c.head]
                 /\ DOMAIN e = EvidenceFields /\ e.pre = c.pre
    <3> DEFINE e == [evidence[m] EXCEPT !.pre = c.pre, !.head = c.head]
    <3>1. DOMAIN e = EvidenceFields /\ e.pre = c.pre
      BY <1>5, <2>1 DEF FilesOK, EvidenceFields
    <3>2. e = [evidence[m] EXCEPT !.pre = c.pre, !.head = c.head]
      OBVIOUS
    <3> HIDE DEF e
    <3> QED
      BY <3>1, <3>2
  <2>3. evidence' = [evidence EXCEPT ![m] = e]
    BY <1>1, <1>2, <1>4, <1>5, <2>2 DEF Reconciled, StateOK
  <2> QED
    BY <1>1, <1>2, <1>3, <1>4, <2>1, <2>2, <2>3 DEF FilesKept, FilesOK, StateOK
<1>10. Steady(proc[p], Idle) /\ BaseKept(proc[p], Idle)
  BY <1>1, <1>3 DEF Steady, BaseKept, Idle
<1>11. Grows(repo, repo', {}, {None})
  BY <1>2, GrowsReflexive
<1> QED
  BY <1>2, <1>5, <1>8, <1>9, <1>10, <1>11, IdlePlace, StepForward


-----------------------------------------------------------------------------
(* mission.close and mission.abort.                                         *)

\* A closing or aborting command that goes on or ends, with its mission.
LEMMA EndingGoesOn ==
  ASSUME RegisterInv, NEW p \in Procs, Procs = {p}, NEW c, c = proc[p], c.cmd \in {"close", "abort"},
         c.m \in Missions, NEW rec, proc' = [proc EXCEPT ![p] = rec],
         rec = Idle \/ (SameWork(c, rec) /\ rec.at # "write" /\ Place(rec)'),
         StatesKept, manifest' \in [Missions -> Manifests],
         DOMAIN evidence' = Missions, DOMAIN workpiece' = Missions,
         \A n \in Missions : FilesKept(c, n),
         Grows(repo, repo', {}, {None})
  PROVE  RegisterInv'
<1>1. PlaceOK(c) /\ StateOK /\ proc'[p] = rec /\ DOMAIN proc' = Procs
  BY DEF RegisterInv, StateOK, Places
<1>2. Engaged(c.m)
  BY DEF Engaged
<1>3. Steady(proc[p], rec) /\ BaseKept(proc[p], rec)
  BY DEF Steady, BaseKept, SameWork, Idle
<1>4. Places(rec)'
  <2>1. CASE rec = Idle
    BY <2>1, IdlePlace
  <2>2. CASE rec # Idle
    <3>1. DOMAIN repo.objects \subseteq DOMAIN repo'.objects
      BY DEF Grows
    <3> QED
      BY <1>1, <2>2, <3>1, WorkGoesOn
  <2> QED
    BY <2>1, <2>2
<1> QED
  BY <1>1, <1>2, <1>3, <1>4, StepForward

\* Where a closing command is.
LEMMA ClosingPlace ==
  ASSUME RegisterInv, NEW p \in Procs, NEW c, c = proc[p],
         \/ c.cmd \in {"close", "abort"} /\ c.at = "lock"
         \/ c.at \in {"gate", "audit", "archive", "settle", "seal", "aborted"}
  PROVE  /\ PlaceOK(c) /\ DOMAIN c = Fields /\ c.seen \in Manifests /\ c.m \in Missions
         /\ c.at \in {"lock", "gate"} => Entered(c)
         /\ c.at \in {"gate", "audit", "archive", "settle", "seal"} => c.cmd = "close"
         /\ c.at = "aborted" => c.cmd = "abort"
         /\ c.at \in {"audit", "archive", "settle", "seal"} => On(c, "closed")
         /\ c.at = "aborted" => On(c, "aborted")
         /\ StateOK /\ HistoryOK(repo)
<1>1. PlaceOK(c) /\ StateOK /\ HistoryOK(repo)
  BY DEF RegisterInv, StateOK, Places
<1>2. c # Idle
  BY DEF Idle
<1>3. /\ c.at \in {"lock", "gate"} => Entered(c)
      /\ c.at \in {"gate", "audit", "archive", "settle", "seal"} => c.cmd = "close"
      /\ c.at = "aborted" => c.cmd = "abort"
      /\ c.at \in {"audit", "archive", "settle", "seal"} => On(c, "closed")
      /\ c.at = "aborted" => On(c, "aborted")
  BY <1>1, <1>2 DEF PlaceOK, Place, Appends, Syncs, Ledgering, Mirroring
<1>4. c.m \in Missions
  BY <1>3 DEF Entered, On
<1> QED
  BY <1>1, <1>3, <1>4 DEF PlaceOK

\* The report of the reconcile may name another head, and nothing else.
LEMMA CloseReportFacts ==
  ASSUME RegisterInv, NEW m \in Missions, evidence' = CloseReport(m)
  PROVE  /\ DOMAIN evidence' = Missions
         /\ \A n \in Missions : DOMAIN evidence'[n] = EvidenceFields /\ evidence'[n].pre = evidence[n].pre
<1>1. DOMAIN evidence = Missions /\ \A n \in Missions : DOMAIN evidence[n] = EvidenceFields
  BY DEF RegisterInv, StateOK, FilesOK
<1>2. evidence' = evidence \/ \E head : evidence' = [evidence EXCEPT ![m] = [evidence[m] EXCEPT !.head = head]]
  BY <1>1 DEF CloseReport
<1>3. CASE evidence' = evidence
  BY <1>1, <1>3
<1>4. ASSUME NEW head, evidence' = [evidence EXCEPT ![m] = [evidence[m] EXCEPT !.head = head]]
      PROVE  /\ DOMAIN evidence' = Missions
             /\ \A n \in Missions : DOMAIN evidence'[n] = EvidenceFields /\ evidence'[n].pre = evidence[n].pre
  <2> DEFINE e == [evidence[m] EXCEPT !.head = head]
  <2>1. DOMAIN e = EvidenceFields /\ e.pre = evidence[m].pre
    BY <1>1 DEF EvidenceFields
  <2> HIDE DEF e
  <2> QED
    BY <1>1, <1>4, <2>1 DEF e
<1> QED
  BY <1>2, <1>3, <1>4

LEMMA CloseLockedKeeps ==
  ASSUME RegisterInv, NEW p \in Procs, Procs = {p}, CloseLocked(p) PROVE RegisterInv'
<1>1. PICK c : c = proc[p]
  OBVIOUS
<1>2. c.at = "lock" /\ c.cmd = "close" /\ UNCHANGED manifest
  BY <1>1 DEF CloseLocked
<1>3. PlaceOK(c) /\ DOMAIN c = Fields /\ c.m \in Missions /\ Entered(c) /\ StateOK /\ HistoryOK(repo)
  BY <1>1, <1>2, ClosingPlace
<1>4. CASE UNCHANGED <<evidence, workpiece, repo>> /\ Exit(p)
  BY <1>1, <1>2, <1>4, ExitKeeps
<1>5. CASE ~(UNCHANGED <<evidence, workpiece, repo>> /\ Exit(p))
  <2>1. PICK m : m = c.m
    OBVIOUS
  <2>2. workpiece' = CommitWorkpiece(m) /\ evidence' = CloseReport(m)
    BY <1>1, <1>5, <2>1 DEF CloseLocked
  <2>3. /\ DOMAIN evidence' = Missions /\ DOMAIN workpiece' = Missions
        /\ \A n \in Missions : FilesKept(c, n)
    BY <1>3, <2>1, <2>2, CommitWorkpieceFacts, CloseReportFacts DEF FilesKept
  <2>4. PICK rec : /\ proc' = [proc EXCEPT ![p] = rec]
                   /\ rec \in {Idle, Syncing(c, "gate"), [c EXCEPT !.at = "gate"]}
                   /\ repo' \in {repo, Push(repo)}
    <3>1. \/ UNCHANGED repo /\ Exit(p)
          \/ /\ repo' \in {repo, Push(repo)}
             /\ Step(p, Syncing(c, "gate")) \/ Step(p, [c EXCEPT !.at = "gate"])
      BY <1>1, <1>5 DEF CloseLocked
    <3> QED
      BY <3>1 DEF Exit, Step
  <2>5. Grows(repo, repo', {}, {None})
    BY <1>3, <2>4, PushGrows, GrowsReflexive
  <2>6. rec = Idle \/ (SameWork(c, rec) /\ rec.at # "write" /\ Place(rec)')
    <3>1. CASE rec # Idle
      <4>1. /\ SameWork(c, rec)
            /\ (rec.at = "sync" /\ rec.next = "gate") \/ rec.at = "gate"
        BY <1>3, <2>4, <3>1 DEF SameWork, Syncing, Fields
      <4>2. Entered(rec)'
        BY <1>2, <1>3, <4>1 DEF SameWork, Entered, On
      <4> QED
        BY <1>2, <4>1, <4>2 DEF Place, SameWork, Syncs, Mirroring
    <3> QED
      BY <3>1
  <2>7. StatesKept /\ manifest' \in [Missions -> Manifests]
    BY <1>2, <1>3 DEF StatesKept, StateOK
  <2> QED
    BY <1>1, <1>2, <1>3, <2>3, <2>4, <2>5, <2>6, <2>7, EndingGoesOn
<1> QED
  BY <1>4, <1>5

\* The manifest is written, then the ledger's entry is on its way.
LEMMA EndWritten ==
  ASSUME RegisterInv, NEW p \in Procs, Procs = {p}, NEW c, c = proc[p],
         UNCHANGED <<evidence, workpiece, repo>>,
         NEW end \in {"closed", "aborted"}, NEW kind, NEW ret,
         \/ /\ c.cmd = "close" /\ c.at = "gate"
            /\ end = "closed" /\ kind = "mission-close" /\ ret = "audit"
         \/ /\ c.cmd = "abort" /\ c.at = "lock"
            /\ end = "aborted" /\ kind = "mission-abort" /\ ret = "aborted",
         manifest' = [manifest EXCEPT ![c.m] = [c.seen EXCEPT !.state = end]],
         Exit(p) \/ Step(p, Appending(c, kind, ret))
  PROVE  RegisterInv'
<1>1. /\ PlaceOK(c) /\ DOMAIN c = Fields /\ c.seen \in Manifests /\ c.m \in Missions /\ Entered(c)
      /\ StateOK /\ HistoryOK(repo) /\ manifest[c.m].state = "open"
  BY ClosingPlace DEF Entered, On
<1>2. PICK x : x = [c.seen EXCEPT !.state = end]
  OBVIOUS
<1>3. x \in Manifests /\ x.state = end
  BY <1>1, <1>2 DEF Manifests, States
<1>4. StatesKept /\ manifest' \in [Missions -> Manifests] /\ manifest'[c.m] = x
  BY <1>1, <1>2, <1>3, ManifestWritten
<1>5. PICK rec : proc' = [proc EXCEPT ![p] = rec] /\ rec \in {Idle, Appending(c, kind, ret)}
  BY DEF Exit, Step
<1>6. rec = Idle \/ (SameWork(c, rec) /\ rec.at # "write" /\ Place(rec)')
  <2>1. CASE rec # Idle
    <3>1. SameWork(c, rec) /\ rec.at = "append" /\ rec.kind = kind /\ rec.ret = ret
      BY <1>1, <1>5, <2>1 DEF SameWork, Appending, Fields
    <3>2. On(rec, end)'
      BY <1>1, <1>3, <1>4, <3>1 DEF On, SameWork
    <3> QED
      BY <3>1, <3>2 DEF Place, SameWork, Appends, Ledgering
  <2> QED
    BY <2>1
<1>7. Grows(repo, repo', {}, {None})
  BY <1>1, GrowsReflexive
<1>8. /\ DOMAIN evidence' = Missions /\ DOMAIN workpiece' = Missions
      /\ \A n \in Missions : FilesKept(c, n)
  BY FilesUnchanged
<1> QED
  BY <1>1, <1>4, <1>5, <1>6, <1>7, <1>8, EndingGoesOn

LEMMA CloseGateKeeps ==
  ASSUME RegisterInv, NEW p \in Procs, Procs = {p}, CloseGate(p) PROVE RegisterInv'
<1>1. PICK c : c = proc[p]
  OBVIOUS
<1>2. c.at = "gate" /\ c.cmd = "close" /\ UNCHANGED <<evidence, workpiece, repo>>
  BY <1>1, ClosingPlace DEF CloseGate
<1>3. CASE Exit(p) /\ UNCHANGED manifest
  BY <1>1, <1>2, <1>3, ExitKeeps
<1>4. CASE ~(Exit(p) /\ UNCHANGED manifest)
  <2>1. /\ manifest' = [manifest EXCEPT ![c.m] = [c.seen EXCEPT !.state = "closed"]]
        /\ Exit(p) \/ Step(p, Appending(c, "mission-close", "audit"))
    BY <1>1, <1>4 DEF CloseGate, ExitReleasing
  <2> QED
    BY <1>1, <1>2, <2>1, EndWritten
<1> QED
  BY <1>3, <1>4

LEMMA AbortLockedKeeps ==
  ASSUME RegisterInv, NEW p \in Procs, Procs = {p}, AbortLocked(p) PROVE RegisterInv'
<1>1. PICK c : c = proc[p]
  OBVIOUS
<1>2. c.at = "lock" /\ c.cmd = "abort" /\ UNCHANGED <<evidence, workpiece, repo>>
  BY <1>1 DEF AbortLocked
<1>3. CASE Exit(p) /\ UNCHANGED manifest
  BY <1>1, <1>2, <1>3, ExitKeeps
<1>4. CASE ~(Exit(p) /\ UNCHANGED manifest)
  <2>1. /\ manifest' = [manifest EXCEPT ![c.m] = [c.seen EXCEPT !.state = "aborted"]]
        /\ Step(p, Appending(c, "mission-abort", "aborted"))
    BY <1>1, <1>4 DEF AbortLocked
  <2> QED
    BY <1>1, <1>2, <2>1, EndWritten
<1> QED
  BY <1>3, <1>4

\* The system's state forgets the mission, or nothing is written.
LEMMA StateForgotten ==
  ASSUME RegisterInv, NEW reachable \in BOOLEAN,
         repo' = repo \/ repo' = WriteState(repo, None, reachable)
  PROVE  Grows(repo, repo', {}, {None})
<1>1. HistoryOK(repo) /\ None \in Missions \cup {None}
  BY DEF RegisterInv, StateOK
<1> QED
  BY <1>1, WriteStateFacts, GrowsReflexive

LEMMA ClosedStepsKeep ==
  ASSUME RegisterInv, NEW p \in Procs, Procs = {p},
         CloseAudit(p) \/ CloseArchive(p) \/ CloseSettle(p) \/ CloseSeal(p) \/ Aborted(p)
  PROVE  RegisterInv'
<1>1. PICK c : c = proc[p]
  OBVIOUS
<1>2. c.at \in {"audit", "archive", "settle", "seal", "aborted"} /\ UNCHANGED manifest
  BY <1>1 DEF CloseAudit, CloseArchive, CloseSettle, CloseSeal, Aborted
<1>3. /\ PlaceOK(c) /\ DOMAIN c = Fields /\ c.m \in Missions /\ c.cmd \in {"close", "abort"}
      /\ c.at # "aborted" => c.cmd = "close" /\ On(c, "closed")
      /\ StateOK /\ HistoryOK(repo)
  BY <1>1, <1>2, ClosingPlace
<1>4. StatesKept /\ manifest' \in [Missions -> Manifests]
  BY <1>2, <1>3 DEF StatesKept, StateOK
<1>5. PICK rec : /\ proc' = [proc EXCEPT ![p] = rec]
                 /\ \/ rec = Idle
                    \/ /\ c.at # "aborted"
                       /\ rec \in {Appending(c, "mission-close", "archive"), Syncing(c, "seal"),
                                   [c EXCEPT !.at = "archive"], [c EXCEPT !.at = "settle"],
                                   [c EXCEPT !.at = "seal"]}
  <2>1. CASE CloseAudit(p)
    BY <1>1, <2>1 DEF CloseAudit, ExitReleasing, Exit, Step, Goto
  <2>2. CASE CloseArchive(p)
    BY <1>1, <2>2 DEF CloseArchive, Step, Goto
  <2>3. CASE CloseSettle(p)
    BY <1>1, <2>3 DEF CloseSettle, ExitReleasing, Exit, Step
  <2>4. CASE CloseSeal(p) \/ Aborted(p)
    BY <1>1, <2>4 DEF CloseSeal, Aborted, ExitReleasing, Exit, Step
  <2> QED
    BY <2>1, <2>2, <2>3, <2>4
<1>6. rec = Idle \/ (SameWork(c, rec) /\ rec.at # "write" /\ Place(rec)')
  <2>1. CASE rec # Idle
    <3>1. /\ SameWork(c, rec)
          /\ \/ rec.at = "append" /\ rec.kind = "mission-close" /\ rec.ret = "archive"
             \/ rec.at = "sync" /\ rec.next = "seal"
             \/ rec.at \in {"archive", "settle", "seal"}
      BY <1>3, <1>5, <2>1 DEF SameWork, Appending, Syncing, Fields
    <3>2. On(rec, "closed")' /\ rec.cmd = "close"
      BY <1>2, <1>3, <1>5, <2>1, <3>1 DEF On, SameWork
    <3> QED
      BY <3>1, <3>2 DEF Place, Appends, Syncs, Ledgering, Mirroring
  <2> QED
    BY <2>1
<1>7. Grows(repo, repo', {}, {None})
  <2>1. CASE CloseAudit(p) \/ CloseArchive(p)
    BY <1>3, <2>1, GrowsReflexive DEF CloseAudit, CloseArchive
  <2>2. CASE CloseSettle(p) \/ Aborted(p)
    <3>1. PICK pushFails \in Fails("push") : repo' = repo \/ repo' = WriteState(repo, None, ~pushFails)
      BY <2>2 DEF CloseSettle, Aborted
    <3>2. PICK reachable : reachable = ~pushFails
      OBVIOUS
    <3>3. reachable \in BOOLEAN
      BY <3>2 DEF Fails
    <3> QED
      BY <3>1, <3>2, <3>3, StateForgotten
  <2>3. CASE CloseSeal(p)
    <3>1. PICK tree, P : tree = HeadTree(repo) /\ P = {repo.head}
      OBVIOUS
    <3>2. repo' = repo \/ repo' = CommitTree(repo, tree, P)
      BY <2>3, <3>1 DEF CloseSeal
    <3>3. tree \in Trees /\ P \in SUBSET DOMAIN repo.objects /\ repo.head \in P
          /\ P \subseteq {repo.head, repo.origin} \cup {}
          /\ tree.ledger \in Tips(repo) /\ tree.current \in CurrentsOf(repo)
      BY <1>3, <3>1, HistoryFacts DEF HistoryOK, Tips
    <3>4. Grows(repo, CommitTree(repo, tree, P), {}, {None})
      BY <1>3, <3>3, CommitGrows
    <3> QED
      BY <1>3, <3>2, <3>4, GrowsReflexive
  <2> QED
    BY <2>1, <2>2, <2>3
<1>8. /\ DOMAIN evidence' = Missions /\ DOMAIN workpiece' = Missions
      /\ \A n \in Missions : FilesKept(c, n)
  <2>1. \A n \in Missions : FilesOK(n)
    BY <1>3 DEF StateOK
  <2>2. CASE CloseAudit(p) \/ CloseSettle(p) \/ Aborted(p)
    BY <1>1, <2>2, FilesUnchanged DEF CloseAudit, CloseSettle, Aborted
  <2>3. CASE CloseArchive(p)
    <3>1. PICK report, archived :
            evidence' = [evidence EXCEPT ![c.m] = [evidence[c.m] EXCEPT !.report = report, !.archived = archived]]
      <4>1. PICK failed \in Fails("evidence") :
              evidence' = [evidence EXCEPT
                ![c.m].report = IF "skip-evidence-sync" \in c.flags THEN "skipped" ELSE "synced",
                ![c.m].archived = ~failed /\ "skip-evidence-sync" \notin c.flags]
        BY <1>1, <2>3 DEF CloseArchive
      <4>2. PICK report, archived :
              /\ report = IF "skip-evidence-sync" \in c.flags THEN "skipped" ELSE "synced"
              /\ archived = (~failed /\ "skip-evidence-sync" \notin c.flags)
        OBVIOUS
      <4>3. evidence' = [evidence EXCEPT ![c.m].report = report, ![c.m].archived = archived]
        BY <4>1, <4>2, Zenon
      <4>4. evidence' = [evidence EXCEPT ![c.m] = [evidence[c.m] EXCEPT !.report = report, !.archived = archived]]
        BY <1>3, <4>3 DEF StateOK
      <4> QED
        BY <4>4
    <3> DEFINE e == [evidence[c.m] EXCEPT !.report = report, !.archived = archived]
    <3>2. DOMAIN e = EvidenceFields /\ e.pre = evidence[c.m].pre
      BY <1>3, <2>1 DEF FilesOK, EvidenceFields
    <3>3. evidence' = [evidence EXCEPT ![c.m] = e] /\ UNCHANGED workpiece
      BY <2>3, <3>1 DEF CloseArchive
    <3> HIDE DEF e
    <3> QED
      BY <1>3, <2>1, <3>2, <3>3 DEF FilesKept, FilesOK, StateOK
  <2>4. CASE CloseSeal(p)
    <3> DEFINE w == [workpiece[c.m] EXCEPT !.sealed = TRUE]
    <3>1. workpiece' = [workpiece EXCEPT ![c.m] = w] /\ UNCHANGED evidence
      BY <1>1, <1>3, <2>4 DEF CloseSeal, StateOK
    <3>2. DOMAIN w = WorkpieceFields /\ w.edits = workpiece[c.m].edits /\ w.dirty = workpiece[c.m].dirty
          /\ w.at = workpiece[c.m].at
      BY <1>3, <2>1 DEF FilesOK, WorkpieceFields
    <3> HIDE DEF w
    <3> QED
      BY <1>3, <2>1, <3>1, <3>2 DEF FilesKept, FilesOK, StateOK
  <2> QED
    BY <2>2, <2>3, <2>4
<1> QED
  BY <1>1, <1>3, <1>4, <1>5, <1>6, <1>7, <1>8, EndingGoesOn

-----------------------------------------------------------------------------

LEMMA InitRegister == ASSUME Init PROVE RegisterInv
<1> DEFINE tree == [ledger |-> <<>>, current |-> None, edits |-> {}, parent |-> 0, older |-> {}]
<1>0. NoManifest \in Manifests /\ NoManifest.state = "none" /\ <<>> \in Ledgers
  BY DEF NoManifest, Manifests, States, Ledgers
<1>1. /\ repo.objects = <<tree>> /\ repo.head = 1 /\ repo.file = <<>> /\ repo.current = None
      /\ repo.rebase = "none" /\ repo.origin = 1 /\ repo.external = 1 /\ repo.mirror = 1
      /\ repo = [objects |-> <<tree>>, head |-> 1, file |-> <<>>, current |-> None, rebase |-> "none",
                 origin |-> 1, external |-> 1, mirror |-> 1]
  BY DEF Init, FreshRepository
<1>2. tree \in Trees /\ tree.ledger = <<>> /\ tree.current = None /\ tree.older = {}
  BY <1>0 DEF Trees, None
<1> HIDE DEF tree
<1>3. DOMAIN repo.objects = {1} /\ repo.objects[1] = tree /\ repo.objects \in Seq(Trees)
  BY <1>1, <1>2
<1>4. repo \in Repositories
  BY <1>0, <1>1, <1>3 DEF Repositories
<1>5. HistoryOK(repo)
  BY <1>1, <1>2, <1>3, <1>4 DEF HistoryOK, Ancestors
<1>6. StateOK
  <2>1. /\ DOMAIN NoEvidence = EvidenceFields /\ NoEvidence.pre = None
        /\ DOMAIN NoWorkpiece = WorkpieceFields /\ NoWorkpiece.at = None
        /\ NoWorkpiece.edits = {} /\ NoWorkpiece.dirty = {}
    BY DEF NoEvidence, EvidenceFields, NoWorkpiece, WorkpieceFields
  <2> QED
    BY <1>0, <1>5, <2>1 DEF StateOK, Init, FilesOK
<1>7. \A m \in Missions : ~Engaged(m) /\ ~Held(m)
  BY <1>0 DEF Engaged, Held, Init, Idle
<1>8. LedgersOf(repo) = {<<>>} /\ CurrentsOf(repo) = {None} /\ Line(repo) = {<<>>}
  BY <1>1, <1>2, <1>3 DEF LedgersOf, CurrentsOf, Line, LineOf, Ancestors, Tree
<1>9. Sound(<<>>) /\ \A m : ~OpenedIn(<<>>, m) /\ ~EndedIn(<<>>, m)
  BY DEF Sound, OpenedIn, EndedIn, OfMission, Orphans
<1>10. \A m \in Missions : Contained(repo, m)
  BY <1>1, <1>8, <1>9 DEF Contained
<1>11. Record
  BY <1>7, <1>8, <1>9, <1>10 DEF Record
<1>12. ASSUME NEW p \in Procs PROVE Places(proc[p])
  <2>1. proc[p] = Idle
    BY DEF Init
  <2> QED
    BY <1>0, <2>1 DEF Places, PlaceOK, Place, OpeningOK, WritingOK, Idle, Fields
<1> QED
  BY <1>6, <1>11, <1>12 DEF RegisterInv

LEMMA RegisterUnchanged ==
  ASSUME RegisterInv, UNCHANGED <<manifest, evidence, workpiece, repo, proc>>
  PROVE  RegisterInv'
<1>1. \A m \in Missions :
        /\ Engaged(m)' <=> Engaged(m)
        /\ Held(m)' <=> Held(m)
        /\ Bases(m)' = Bases(m)
  BY DEF Engaged, Held, Bases
<1>2. \A m \in Missions : Reach(m)' = Reach(m)
  BY <1>1 DEF Reach, Line, LineOf, LinesOf, Tree
<1>3. StateOK'
  BY DEF RegisterInv, StateOK, FilesOK
<1>4. Record'
  BY <1>1, <1>2 DEF RegisterInv, Record
<1>5. \A p \in Procs : Places(proc[p])'
  BY DEF RegisterInv, Places, PlaceOK, Place, OpeningOK, WritingOK, On, Entered, HasTerminal, Line,
         LineOf, Tree, Tips, HeadTree
<1> QED
  BY <1>3, <1>4, <1>5 DEF RegisterInv

LEMMA RegisterStep ==
  ASSUME Solo, RegisterInv, [Next]_vars PROVE RegisterInv'
<1>1. CASE UNCHANGED vars
  BY <1>1, RegisterUnchanged DEF vars
<1>2. ASSUME NEW p \in Procs, Begin(p) \/ Continue(p) PROVE RegisterInv'
  <2>1. Procs = {p}
    BY <1>2 DEF Solo
  <2> QED
    BY <1>2, <2>1, BeginKeepsRegister, RefusalsKeep, AppendReadKeeps, AppendSilencedKeeps, AppendWriteKeeps,
       CommitLedgerKeeps, OpenLockedKeeps, OpenedKeeps, MaterializeLockedKeeps, MaterializedKeeps,
       SyncsKeep, ReconcileLockedKeeps, ReconciledKeeps, CloseLockedKeeps, CloseGateKeeps,
       ClosedStepsKeep, AbortLockedKeeps
       DEF Continue
<1>3. ASSUME NEW p \in Procs, Crash(p) PROVE RegisterInv'
  BY <1>3 DEF Crash, Solo
<1>4. ASSUME NEW l \in Missions \cup {SystemLock}, RecoverLock(l) PROVE RegisterInv'
  BY <1>4, RegisterUnchanged DEF RecoverLock
<1> QED
  BY <1>1, <1>2, <1>3, <1>4 DEF Next

LEMMA RegisterHolds == ASSUME Solo PROVE Spec => []RegisterInv
<1>1. Init => RegisterInv
  BY InitRegister
<1>2. RegisterInv /\ [Next]_vars => RegisterInv'
  BY RegisterStep
<1> QED
  BY <1>1, <1>2, PTL DEF Spec

\* Whatever git command fails, the ledger a single operator's commands commit
\* chains without a gap, opens no mission twice and closes none that is not open.
THEOREM LedgerStaysSound == ASSUME Solo PROVE Spec => []LedgerIsSound
<1>1. RegisterInv => LedgerIsSound
  <2> SUFFICES ASSUME RegisterInv PROVE LedgerIsSound
    OBVIOUS
  <2>1. HistoryOK(repo) /\ Record
    BY DEF RegisterInv, StateOK
  <2>2. repo.head \in DOMAIN repo.objects /\ HeadTree(repo) = Tree(repo, repo.head)
    BY <2>1, HistoryFacts DEF HistoryOK
  <2>3. Ledger \in LedgersOf(repo)
    BY <2>2 DEF LedgersOf, Ledger
  <2>4. Sound(Ledger)
    BY <2>1, <2>3 DEF Record
  <2> QED
    BY <2>4, SoundIsValid DEF LedgerIsSound
<1> QED
  BY <1>1, RegisterHolds, PTL

-----------------------------------------------------------------------------
(* The manifests go through the register of missions.                       *)

\* What a step may do to the states of the missions.
Becomes(m, s) == \E x : x.state = s /\ manifest' = [manifest EXCEPT ![m] = x]
Opens(m) ==
  /\ manifest[m].state = "none" /\ \A n \in Missions : manifest[n].state # "open"
  /\ Becomes(m, "open")
Ends(m) ==
  /\ manifest[m].state = "open"
  /\ \E s \in {"closed", "aborted", "none"} : Becomes(m, s)
Rewrites(m) == Becomes(m, manifest[m].state)

LEMMA RegisterMoves ==
  ASSUME Solo, RegisterInv, [Next]_vars
  PROVE  manifest' = manifest \/ \E m \in Missions : Opens(m) \/ Ends(m) \/ Rewrites(m)
<1>1. CASE UNCHANGED vars
  BY <1>1 DEF vars
<1>2. ASSUME NEW p \in Procs, Begin(p) PROVE UNCHANGED manifest
  BY <1>2 DEF Begin, OpenPreflight, OpenRepair, SyncStart, MaterializeStart, ReconcileStart,
              CloseStart, AbortStart, Edit, GitCommit, Validate
<1>3. ASSUME NEW p \in Procs, Continue(p)
      PROVE  manifest' = manifest \/ \E m \in Missions : Opens(m) \/ Ends(m) \/ Rewrites(m)
  <2>0. PICK c : c = proc[p]
    OBVIOUS
  <2>1. PlaceOK(c) /\ Procs = {p} /\ StateOK
    BY <1>3, <2>0 DEF RegisterInv, Places, Solo
  <2>2. CASE OpenLocked(p)
    <3>1. CASE manifest' = manifest
      BY <3>1
    <3>2. CASE manifest' # manifest
      <4>1. /\ repo.current = None /\ c.at = "lock" /\ c.cmd = "open" /\ ~(NextMission > MaxMissions)
            /\ manifest' = [manifest EXCEPT ![NextMission] = [NoManifest EXCEPT !.state = "open"]]
        BY <2>0, <2>2, <3>2 DEF OpenLocked
      <4>2. \A n \in Missions : manifest[n].state # "open"
        BY <2>0, <2>1, <4>1, NothingIsOpen DEF Engaged
      <4>3. NextMission \in Missions /\ manifest[NextMission].state = "none"
        <5>1. MaxMissions \in Nat /\ repo.file \in Ledgers
          BY <2>1, LifecycleAssumption DEF StateOK, HistoryOK, Repositories
        <5>2. NextMission \in Nat \ {0}
          BY <2>1, <5>1, NextMissionIsFree
        <5>3. NextMission \in Missions
          BY <4>1, <5>1, <5>2 DEF Missions
        <5> QED
          BY <2>1, <5>1, <5>3, NextMissionIsFree
      <4>4. [NoManifest EXCEPT !.state = "open"].state = "open"
        BY DEF NoManifest
      <4> QED
        BY <4>1, <4>2, <4>3, <4>4 DEF Opens, Becomes
    <3> QED
      BY <3>1, <3>2
  <2>3. CASE Opened(p)
    <3>1. c.at = "opened" /\ c # Idle
      BY <2>0, <2>3 DEF Opened, Idle
    <3>2. On(c, "open")
      BY <2>1, <3>1 DEF PlaceOK, Place, Appends, Syncs, Ledgering, Mirroring
    <3>3. manifest' = manifest \/ manifest' = [manifest EXCEPT ![c.m] = NoManifest]
      BY <2>0, <2>3 DEF Opened, RemoveMission
    <3>4. NoManifest.state = "none"
      BY DEF NoManifest
    <3> QED
      BY <3>2, <3>3, <3>4 DEF On, Ends, Becomes
  <2>4. CASE Materialized(p) \/ Reconciled(p)
    <3>1. c.at \in {"materialized", "reconciled"} /\ c # Idle
      BY <2>0, <2>4 DEF Materialized, Reconciled, Idle
    <3>2. Entered(c) /\ c.seen \in Manifests
      BY <2>1, <3>1 DEF PlaceOK, Place, Appends, Syncs, Ledgering, Mirroring
    <3>3. \/ manifest' = manifest
          \/ manifest' = [manifest EXCEPT ![c.m] = [c.seen EXCEPT !.materialized = TRUE]]
          \/ manifest' = [manifest EXCEPT ![c.m] = [c.seen EXCEPT !.reconciled = TRUE]]
      BY <2>0, <2>4 DEF Materialized, Reconciled
    <3>4. /\ [c.seen EXCEPT !.materialized = TRUE].state = "open"
          /\ [c.seen EXCEPT !.reconciled = TRUE].state = "open"
      BY <3>2 DEF Manifests, Entered
    <3> QED
      BY <3>2, <3>3, <3>4 DEF Entered, On, Rewrites, Becomes
  <2>5. CASE CloseGate(p) \/ AbortLocked(p)
    <3>1. Entered(c) /\ c.seen \in Manifests /\ c.m \in Missions
      BY <2>0, <2>5, ClosingPlace DEF CloseGate, AbortLocked
    <3>2. \/ manifest' = manifest
          \/ manifest' = [manifest EXCEPT ![c.m] = [c.seen EXCEPT !.state = "closed"]]
          \/ manifest' = [manifest EXCEPT ![c.m] = [c.seen EXCEPT !.state = "aborted"]]
      BY <2>0, <2>5 DEF CloseGate, AbortLocked
    <3>3. /\ [c.seen EXCEPT !.state = "closed"].state = "closed"
          /\ [c.seen EXCEPT !.state = "aborted"].state = "aborted"
      BY <3>1 DEF Manifests
    <3>4. manifest[c.m].state = "open"
      BY <3>1, <2>1 DEF Entered, On
    <3> QED
      BY <3>1, <3>2, <3>3, <3>4 DEF Ends, Becomes
  <2> QED
    BY <1>3, <2>2, <2>3, <2>4, <2>5
       DEF Continue, LockRefused, AppendRead, AppendSilenced, AppendWrite, CommitLedgerStep,
           MaterializeLocked, SyncPush, SyncMirrors, SyncRef, ReconcileUnvalidated, ReconcileLocked, CloseLocked,
           CloseAudit, CloseArchive, CloseSettle, CloseSeal, Aborted
<1>4. ASSUME NEW p \in Procs, Crash(p) PROVE UNCHANGED manifest
  BY <1>4 DEF Crash
<1>5. ASSUME NEW l \in Missions \cup {SystemLock}, RecoverLock(l) PROVE UNCHANGED manifest
  BY <1>5 DEF RecoverLock
<1> QED
  BY <1>1, <1>2, <1>3, <1>4, <1>5 DEF Next

\* Whatever git command fails, the manifests a single operator's commands write
\* go through the register: one mission open at a time, each ended at most once,
\* and an opening that was not published withdrawn without a trace.
THEOREM ImplementsRegister == ASSUME Solo PROVE Spec => RefinesRegister
<1>1. Init => Register!Init
  BY DEF Init, Register!Init, NoManifest
<1>2. ASSUME Solo, RegisterInv, [Next]_vars
      PROVE  [Register!Next]_([m \in Missions |-> manifest[m].state])
  <2>1. manifest \in [Missions -> Manifests]
    BY <1>2 DEF RegisterInv, StateOK
  <2>2. CASE manifest' = manifest
    BY <2>2
  <2>3. ASSUME NEW m \in Missions, Opens(m) PROVE Register!Open(m)
    BY <2>1, <2>3 DEF Opens, Becomes, Register!Open
  <2>4. ASSUME NEW m \in Missions, Ends(m) PROVE Register!End(m)
    BY <2>1, <2>4 DEF Ends, Becomes, Register!End
  <2>5. ASSUME NEW m \in Missions, Rewrites(m) PROVE UNCHANGED [n \in Missions |-> manifest[n].state]
    BY <2>1, <2>5 DEF Rewrites, Becomes
  <2> QED
    BY <1>2, <2>2, <2>3, <2>4, <2>5, RegisterMoves DEF Register!Next
<1> QED
  BY <1>1, <1>2, RegisterHolds, PTL DEF Spec, RefinesRegister, Register!Spec
-----------------------------------------------------------------------------
(* What the lifecycle promises while the bare repository can be reached: no *)
(* push, commit or pin fails, nobody leaves an edit uncommitted, repeats a  *)
(* reconcile or skips the freshness check.                                  *)

Undisturbed ==
  /\ Solo /\ Faults \cap {"push", "commit", "pin"} = {}
  /\ Commands \cap {"edit", "rereconcile"} = {}
  /\ \A flags \in CloseFlags : "skip-reconcile-check" \notin flags

Same(t, u) == t.ledger = u.ledger /\ t.current = u.current /\ t.edits = u.edits

\* The bare repository has what the clone has, and the clone nothing but what
\* is committed, save for an entry of the ledger.
Level(r) ==
  /\ r.rebase = "none" /\ r.origin \in Ancestors(r, r.head)
  /\ Same(HeadTree(r), Tree(r, r.origin)) /\ r.current = HeadTree(r).current
  /\ r.external \in DOMAIN r.objects /\ r.mirror \in DOMAIN r.objects

\* A workpiece was cloned from a commit the bare repository has.
Forked(r, at) ==
  at # None => LET from == Tree(r, at).parent IN
    /\ from \in Ancestors(r, r.origin) /\ Tree(r, at).older = Ancestors(r, from)
    /\ Same(Tree(r, at), Tree(r, from))

Ended(m) == manifest[m].state \in {"closed", "aborted"}

\* A terminal entry that is not written yet.
Recording(c) == c.at \in {"append", "write"} /\ c.kind \in Terminal /\ c.ret \in {"audit", "aborted"}
\* The mission has ended and the system's state names it still.
Ending(c) ==
  \/ c.cmd = "close" /\ (c.at \in {"audit", "archive", "settle"} \/ (c.at \in Ledgering /\ c.kind = "mission-close"))
  \/ c.cmd = "abort" /\ c.at # "lock"

Started(c) == c.m \in Missions /\ c.cmd # "open" /\ manifest[c.m].state = "open"

\* The edits of a workpiece's head are in the clone.
Delivered(head) == head[2] \subseteq HeadTree(repo).edits

\* What a command relies on.
Course(c) ==
  /\ c.at = "opened" => c.result \in {"pushed", "refused"}
  /\ c.at = "aborted" => c.result = "pushed"
  /\ c.at = "audit" => c.result # "refused"
  /\ c.at = "commit" => repo.file # HeadTree(repo).ledger
  /\ c.at # "commit" => repo.file = HeadTree(repo).ledger
  /\ Recording(c) => ~HasTerminal(c.m)
  /\ Started(c) => c.seen = manifest[c.m]
  /\ "skip-reconcile-check" \notin c.flags
  /\ c.cmd = "reconcile" => evidence[c.m].pre = None
  /\ c.cmd = "reconcile" /\ c.at # "lock" => Delivered(c.head)
  /\ c.cmd = "close" /\ manifest[c.m].state = "open" => workpiece[c.m].edits \subseteq evidence[c.m].validated
  /\ c.cmd = "close" /\ c.at # "lock" => workpiece[c.m].edits \subseteq HeadTree(repo).edits

\* What is known of a mission while command c runs.
Standing(c, m) ==
  /\ Ended(m) => HasTerminal(m) \/ (Recording(c) /\ c.m = m)
  /\ OpenedIn(repo.file, m) => manifest[m].state # "none"
  /\ manifest[m].state = "open" => repo.current = m \/ (c.cmd = "open" /\ c.m = m)
  /\ repo.current = m => manifest[m].state = "open" \/ (Ending(c) /\ c.m = m)
  /\ manifest[m].state = "closed" =>
       workpiece[m].edits \subseteq HeadTree(repo).edits \cap evidence[m].validated

\* What its files say.
Files(m) ==
  /\ evidence[m].validation \in {"none", "passed", "failed"}
  /\ evidence[m].pre # None => manifest[m].reconciled
  /\ evidence[m].head # <<>> => Delivered(evidence[m].head)
  /\ workpiece[m].dirty = {}
  /\ Forked(repo, workpiece[m].at)

Named(ledger) ==
  \A i \in DOMAIN ledger : ledger[i].mission \in Missions \/ ledger[i].kind = "mirror-sync"

OrderInv ==
  /\ Level(repo) /\ Named(repo.file) /\ issued \in 0 .. MaxCommands
  /\ \A m \in Missions : Files(m)
  /\ \A p \in Procs : Course(proc[p]) /\ \A m \in Missions : Standing(proc[p], m)

-----------------------------------------------------------------------------
(* The git commands, as long as the pushes go through.                      *)

\* The bare repository is a fast-forward away.
Ahead(r) ==
  /\ r.rebase = "none" /\ r.origin \in Ancestors(r, r.head)
  /\ r.external \in DOMAIN r.objects /\ r.mirror \in DOMAIN r.objects

\* No commit goes away, no edit leaves the clone, the bare repository only adds.
Onward(r, s) ==
  /\ DOMAIN r.objects \subseteq DOMAIN s.objects
  /\ \A c \in DOMAIN r.objects : s.objects[c] = r.objects[c]
  /\ Ancestors(r, r.origin) \subseteq Ancestors(s, s.origin)
  /\ HeadTree(r).edits \subseteq HeadTree(s).edits

LEMMA OnwardReflexive == ASSUME NEW r PROVE Onward(r, r)
BY DEF Onward

LEMMA OnwardTransitive ==
  ASSUME NEW r, NEW s, NEW t, Onward(r, s), Onward(s, t) PROVE Onward(r, t)
BY DEF Onward

LEMMA ForkedStays ==
  ASSUME NEW r, NEW s, HistoryOK(r), Onward(r, s), NEW at \in {None} \cup DOMAIN r.objects,
         Forked(r, at)
  PROVE  Forked(s, at)
<1> SUFFICES ASSUME at # None PROVE Forked(s, at)
  BY DEF Forked
<1>1. at \in DOMAIN r.objects /\ Tree(s, at) = Tree(r, at)
  BY DEF Onward, Tree
<1>2. PICK from : from = Tree(r, at).parent
  OBVIOUS
<1>3. /\ from \in Ancestors(r, r.origin) /\ Tree(r, at).older = Ancestors(r, from)
      /\ Same(Tree(r, at), Tree(r, from))
  BY <1>2 DEF Forked
<1>4. r.origin \in DOMAIN r.objects
  BY DEF HistoryOK
<1>5. from \in DOMAIN r.objects
  BY <1>3, <1>4, HistoryFacts
<1>6. Tree(s, from) = Tree(r, from) /\ Ancestors(s, from) = Ancestors(r, from)
  BY <1>5 DEF Onward, Tree, Ancestors
<1>7. from \in Ancestors(s, s.origin)
  BY <1>3 DEF Onward
<1> QED
  BY <1>1, <1>2, <1>3, <1>6, <1>7 DEF Forked

LEMMA CommitAhead ==
  ASSUME NEW r, HistoryOK(r), Ahead(r), NEW tree \in Trees,
         NEW P \in SUBSET DOMAIN r.objects, r.head \in P, HeadTree(r).edits \subseteq tree.edits,
         NEW s, s = CommitTree(r, tree, P)
  PROVE  /\ HistoryOK(s) /\ Ahead(s) /\ Onward(r, s)
         /\ HeadTree(s).ledger = tree.ledger /\ HeadTree(s).current = tree.current
         /\ HeadTree(s).edits = tree.edits
         /\ s.file = r.file /\ s.current = r.current /\ s.origin = r.origin
<1>1. /\ HistoryOK(s) /\ DOMAIN s.objects = DOMAIN r.objects \cup {s.head}
  BY CommitTreeFacts
<1>2. \A c \in DOMAIN r.objects : s.objects[c] = r.objects[c] /\ Ancestors(s, c) = Ancestors(r, c)
  BY CommitTreeFacts
<1>3. /\ Tree(s, s.head).ledger = tree.ledger /\ Tree(s, s.head).current = tree.current
      /\ Tree(s, s.head).edits = tree.edits
  BY CommitTreeFacts
<1>4. \A a : a \in Ancestors(s, s.head) <=> a = s.head \/ \E p \in P : a \in Ancestors(r, p)
  BY CommitTreeFacts, SMTT(60)
<1>5. /\ s.file = r.file /\ s.current = r.current /\ s.rebase = r.rebase
      /\ s.origin = r.origin /\ s.external = r.external /\ s.mirror = r.mirror
  BY CommitTreeFacts
<1>6. r.origin \in DOMAIN r.objects
  BY DEF HistoryOK
<1>7. s.origin \in Ancestors(s, s.head)
  BY <1>4, <1>5 DEF Ahead
<1>8. Ahead(s)
  BY <1>1, <1>5, <1>7 DEF Ahead
<1>9. HeadTree(s) = Tree(s, s.head)
  BY DEF HeadTree, Tree
<1>10. Onward(r, s)
  BY <1>1, <1>2, <1>3, <1>5, <1>6, <1>9 DEF Onward
<1> QED
  BY <1>1, <1>3, <1>5, <1>8, <1>9, <1>10

LEMMA PushAhead ==
  ASSUME NEW r, HistoryOK(r), Ahead(r), r.current = HeadTree(r).current, NEW s, s = Push(r)
  PROVE  /\ HistoryOK(s) /\ Level(s) /\ Onward(r, s) /\ Published(s)
         /\ HeadTree(s) = HeadTree(r) /\ s.file = r.file /\ s.current = r.current
<1>1. /\ HistoryOK(s) /\ s.objects = r.objects /\ s.head = r.head /\ s.file = r.file
      /\ s.current = r.current /\ s.rebase = r.rebase /\ s.origin = r.head
      /\ \A a : Ancestors(s, a) = Ancestors(r, a)
  BY PushFacts DEF Ahead
<1>2. s.external = r.external /\ s.mirror = r.mirror
  BY DEF Push, HistoryOK, Repositories
<1>3. HeadTree(s) = HeadTree(r) /\ Tree(s, s.origin) = HeadTree(s)
  BY <1>1 DEF HeadTree, Tree
<1>4. r.head \in DOMAIN r.objects /\ r.origin \in Ancestors(r, r.head)
  BY DEF HistoryOK, Ahead
<1>5. r.head \in Ancestors(r, r.head) /\ Ancestors(r, r.origin) \subseteq Ancestors(r, r.head)
  BY <1>4, HistoryFacts, LinesAreNested
<1>6. Level(s) /\ Published(s)
  BY <1>1, <1>2, <1>3, <1>5 DEF Level, Ahead, Same, Published
<1>7. Onward(r, s)
  BY <1>1, <1>3, <1>5 DEF Onward
<1> QED
  BY <1>1, <1>3, <1>6, <1>7

LEMMA LevelIsAhead ==
  ASSUME NEW r, Level(r) PROVE Ahead(r)
BY DEF Level, Ahead

LEMMA NothingToCommit ==
  ASSUME NEW r, Level(r), r.file = HeadTree(r).ledger
  PROVE  ~Dirty(r) /\ CommitAll(r) = r /\ Readable(r)
BY DEF Level, Dirty, CommitAll, Readable

LEMMA LedgerCommitted ==
  ASSUME NEW r, HistoryOK(r), Level(r), NEW s, s = PullAndPush(CommitLedger(r))
  PROVE  /\ Level(s) /\ Onward(r, s) /\ Published(s)
         /\ HeadTree(s).ledger = r.file /\ s.file = r.file /\ s.current = r.current
<1>1. PICK tree, P, t : /\ tree = [HeadTree(r) EXCEPT !.ledger = r.file] /\ P = {r.head}
                        /\ t = CommitTree(r, tree, P)
  OBVIOUS
<1>2. HeadTree(r) \in Trees /\ r.file \in Ledgers /\ r.head \in DOMAIN r.objects
  BY HistoryFacts DEF HistoryOK, Repositories
<1>3. /\ tree \in Trees /\ tree.ledger = r.file /\ tree.current = HeadTree(r).current
      /\ tree.edits = HeadTree(r).edits
  BY <1>1, <1>2 DEF Trees
<1>4. t = CommitLedger(r) /\ P \in SUBSET DOMAIN r.objects /\ r.head \in P
  BY <1>1, <1>2 DEF CommitLedger
<1>5. Ahead(r) /\ HeadTree(r).edits \subseteq tree.edits
  BY <1>3, LevelIsAhead
<1>6. /\ HistoryOK(t) /\ Ahead(t) /\ Onward(r, t)
      /\ HeadTree(t).ledger = r.file /\ HeadTree(t).current = HeadTree(r).current
      /\ t.file = r.file /\ t.current = r.current
  <2>1. t = CommitTree(r, tree, P)
    BY <1>1
  <2>2. /\ HistoryOK(t) /\ Ahead(t) /\ Onward(r, t)
        /\ HeadTree(t).ledger = tree.ledger /\ HeadTree(t).current = tree.current
        /\ t.file = r.file /\ t.current = r.current
    BY <1>3, <1>4, <1>5, <2>1, CommitAhead
  <2> QED
    BY <1>3, <2>2
<1>7. t.current = HeadTree(t).current /\ ~Dirty(t)
  BY <1>6 DEF Level, Dirty
<1>8. s = Push(t)
  BY <1>4, <1>6, <1>7 DEF PullAndPush, PullRebase, Ahead
<1>9. /\ Level(s) /\ Onward(t, s) /\ Published(s) /\ HeadTree(s) = HeadTree(t)
      /\ s.file = t.file /\ s.current = t.current
  BY <1>6, <1>7, <1>8, PushAhead
<1> QED
  BY <1>6, <1>9, OnwardTransitive

LEMMA StateWritten ==
  ASSUME NEW r, HistoryOK(r), Level(r), NEW m \in Missions \cup {None},
         NEW s, s = WriteState(r, m, TRUE)
  PROVE  /\ Level(s) /\ Onward(r, s)
         /\ HeadTree(s).ledger = HeadTree(r).ledger /\ s.file = r.file /\ s.current = m
<1>1. PICK written : written = [r EXCEPT !.current = m]
  OBVIOUS
<1>2. /\ written \in Repositories /\ written.objects = r.objects /\ written.file = r.file
      /\ written.head = r.head /\ written.origin = r.origin /\ written.current = m
      /\ written.rebase = r.rebase /\ written.external = r.external /\ written.mirror = r.mirror
  BY <1>1 DEF HistoryOK, Repositories
<1>3. \A a : Ancestors(written, a) = Ancestors(r, a)
  BY <1>2 DEF Ancestors
<1>4. HistoryOK(written) /\ HeadTree(written) = HeadTree(r)
  BY <1>2, <1>3 DEF HistoryOK, HeadTree
<1>5. Ahead(written) /\ Onward(r, written)
  BY <1>2, <1>3, <1>4, LevelIsAhead DEF Ahead, Onward
<1>6. PICK tree, P, t : /\ tree = [HeadTree(r) EXCEPT !.current = m] /\ P = {r.head}
                        /\ t = CommitTree(written, tree, P)
  OBVIOUS
<1>7. HeadTree(r) \in Trees /\ r.head \in DOMAIN r.objects
  BY HistoryFacts DEF HistoryOK
<1>8. /\ tree \in Trees /\ tree.ledger = HeadTree(r).ledger /\ tree.current = m
      /\ tree.edits = HeadTree(r).edits
  BY <1>6, <1>7 DEF Trees
<1>9. P \in SUBSET DOMAIN written.objects /\ written.head \in P
  BY <1>2, <1>6, <1>7
<1>10. HeadTree(written).edits \subseteq tree.edits
  BY <1>4, <1>8
<1>11. /\ HistoryOK(t) /\ Ahead(t) /\ Onward(written, t)
       /\ HeadTree(t).ledger = tree.ledger /\ HeadTree(t).current = m
       /\ t.file = written.file /\ t.current = m
  <2>1. t = CommitTree(written, tree, P)
    BY <1>6
  <2>2. /\ HistoryOK(t) /\ Ahead(t) /\ Onward(written, t)
        /\ HeadTree(t).ledger = tree.ledger /\ HeadTree(t).current = tree.current
        /\ t.file = written.file /\ t.current = written.current
    BY <1>4, <1>5, <1>8, <1>9, <1>10, <2>1, CommitAhead
  <2> QED
    BY <1>2, <1>8, <2>2
<1>12. s = Push(IF Readable(r) /\ HeadTree(r).current # m THEN t ELSE written)
  BY <1>1, <1>6 DEF WriteState
<1>13. CASE HeadTree(r).current # m
  <2>1. s = Push(t)
    BY <1>12, <1>13 DEF Readable, Level
  <2>2. /\ Level(s) /\ Onward(t, s) /\ HeadTree(s) = HeadTree(t)
        /\ s.file = t.file /\ s.current = t.current
    BY <1>11, <2>1, PushAhead
  <2> QED
    BY <1>2, <1>5, <1>8, <1>11, <2>2, OnwardTransitive
<1>14. CASE HeadTree(r).current = m
  <2>1. s = Push(written)
    BY <1>12, <1>14
  <2>2. written.current = HeadTree(written).current
    BY <1>2, <1>4, <1>14
  <2>3. /\ Level(s) /\ Onward(written, s) /\ HeadTree(s) = HeadTree(written)
        /\ s.file = written.file /\ s.current = written.current
    BY <1>4, <1>5, <2>1, <2>2, PushAhead
  <2> QED
    BY <1>2, <1>4, <1>5, <2>3, OnwardTransitive
<1> QED
  BY <1>13, <1>14

\* A commit that changes nothing.
LEMMA SealCommitted ==
  ASSUME NEW r, HistoryOK(r), Level(r), NEW s, s = CommitTree(r, HeadTree(r), {r.head})
  PROVE  /\ Level(s) /\ Onward(r, s)
         /\ HeadTree(s).ledger = HeadTree(r).ledger /\ s.file = r.file /\ s.current = r.current
<1>1. PICK tree, P : tree = HeadTree(r) /\ P = {r.head}
  OBVIOUS
<1>2. tree \in Trees /\ P \in SUBSET DOMAIN r.objects /\ r.head \in P
      /\ HeadTree(r).edits \subseteq tree.edits /\ s = CommitTree(r, tree, P)
  BY <1>1, HistoryFacts DEF HistoryOK
<1>3. /\ Ahead(s) /\ Onward(r, s)
      /\ HeadTree(s).ledger = tree.ledger /\ HeadTree(s).current = tree.current
      /\ HeadTree(s).edits = tree.edits
      /\ s.file = r.file /\ s.current = r.current /\ s.origin = r.origin
  BY <1>2, LevelIsAhead, CommitAhead
<1>4. Tree(s, s.origin) = Tree(r, r.origin)
  BY <1>3 DEF Onward, Tree, HistoryOK
<1>5. Level(s)
  BY <1>1, <1>3, <1>4 DEF Level, Ahead, Same
<1> QED
  BY <1>1, <1>3, <1>5

\* A workpiece is cloned: the clone stands where the bare repository stands.
Placing(r, synced, placed, s) ==
  /\ synced = Checkout(r, r.origin)
  /\ placed = CommitTree(synced, HeadTree(synced), {synced.head})
  /\ s = [placed EXCEPT !.head = synced.head]

LEMMA PlacedForked ==
  ASSUME NEW r, HistoryOK(r), Level(r), r.file = HeadTree(r).ledger,
         NEW synced, NEW placed, NEW s, Placing(r, synced, placed, s)
  PROVE  /\ Level(s) /\ Onward(r, s) /\ Forked(s, placed.head)
         /\ HeadTree(s).ledger = HeadTree(r).ledger /\ s.file = r.file /\ s.current = r.current
<1>0. /\ synced = Checkout(r, r.origin)
      /\ placed = CommitTree(synced, HeadTree(synced), {synced.head})
      /\ s = [placed EXCEPT !.head = synced.head]
  BY DEF Placing
<1>1. r.origin \in DOMAIN r.objects /\ Tree(r, r.origin) \in Trees
  BY HistoryFacts DEF HistoryOK
<1>2. /\ HistoryOK(synced) /\ synced.objects = r.objects /\ synced.head = r.origin
      /\ synced.origin = r.origin /\ synced.file = Tree(r, r.origin).ledger
      /\ synced.current = Tree(r, r.origin).current /\ synced.rebase = "none"
      /\ \A a : Ancestors(synced, a) = Ancestors(r, a)
      /\ HeadTree(synced) = Tree(r, r.origin)
  BY <1>0, <1>1, CheckoutFacts DEF Level
<1>3. synced.external = r.external /\ synced.mirror = r.mirror
  BY <1>0 DEF Checkout, HistoryOK, Repositories
<1>4. PICK tree, P : tree = HeadTree(synced) /\ P = {synced.head}
  OBVIOUS
<1>5. tree \in Trees /\ P \in SUBSET DOMAIN synced.objects /\ synced.head \in P
      /\ placed = CommitTree(synced, tree, P)
  BY <1>0, <1>1, <1>2, <1>4
<1>6. /\ HistoryOK(placed) /\ DOMAIN placed.objects = DOMAIN synced.objects \cup {placed.head}
      /\ placed.head \notin DOMAIN synced.objects
  <2>1. HistoryOK(placed)
    BY <1>2, <1>5, CommitTreeFacts
  <2>2. DOMAIN placed.objects = DOMAIN synced.objects \cup {placed.head}
    BY <1>2, <1>5, CommitTreeFacts
  <2>3. placed.head \notin DOMAIN synced.objects
    BY <1>2, <1>5, CommitTreeFacts
  <2> QED
    BY <2>1, <2>2, <2>3
<1>7. \A c \in DOMAIN synced.objects :
        placed.objects[c] = synced.objects[c] /\ Ancestors(placed, c) = Ancestors(synced, c)
  BY <1>2, <1>5, CommitTreeFacts
<1>8. /\ Tree(placed, placed.head).ledger = tree.ledger
      /\ Tree(placed, placed.head).current = tree.current
      /\ Tree(placed, placed.head).edits = tree.edits
      /\ Tree(placed, placed.head).parent = synced.head
  BY <1>2, <1>5, CommitTreeFacts
<1>9. \A a : a \in Ancestors(placed, placed.head) <=> a = placed.head \/ \E p \in P : a \in Ancestors(synced, p)
  BY <1>2, <1>5, CommitTreeFacts
<1>10. /\ placed.file = synced.file /\ placed.current = synced.current
       /\ placed.rebase = synced.rebase /\ placed.origin = synced.origin
       /\ placed.external = synced.external /\ placed.mirror = synced.mirror
  BY <1>2, <1>5, CommitTreeFacts
<1>11. /\ s.objects = placed.objects /\ s.head = r.origin /\ s.origin = r.origin
       /\ s.file = Tree(r, r.origin).ledger /\ s.current = Tree(r, r.origin).current
       /\ s.rebase = "none" /\ s.external = r.external /\ s.mirror = r.mirror
  BY <1>0, <1>2, <1>3, <1>6, <1>10, ZenonT(60) DEF HistoryOK, Repositories
<1>12. /\ DOMAIN r.objects \subseteq DOMAIN s.objects
       /\ \A c \in DOMAIN r.objects : s.objects[c] = r.objects[c] /\ Ancestors(s, c) = Ancestors(r, c)
  BY <1>2, <1>6, <1>7, <1>11 DEF Ancestors
<1>13. HeadTree(s) = Tree(r, r.origin) /\ Tree(s, s.origin) = Tree(r, r.origin)
  BY <1>1, <1>11, <1>12 DEF HeadTree, Tree
<1>14. s.origin \in Ancestors(s, s.head)
  BY <1>11 DEF Ancestors
<1>15. Level(s)
  BY <1>11, <1>12, <1>13, <1>14 DEF Level, Same
<1>16. Onward(r, s)
  BY <1>1, <1>11, <1>12, <1>13 DEF Onward, Level, Same
<1>17. Forked(s, placed.head)
  <2>1. Tree(s, placed.head).parent = r.origin /\ Same(Tree(s, placed.head), Tree(s, r.origin))
    BY <1>2, <1>4, <1>8, <1>11, <1>13 DEF Tree, Same
  <2>2. Tree(placed, placed.head).older \subseteq 1 .. placed.head - 1 /\ placed.head \in DOMAIN placed.objects
    BY <1>6 DEF HistoryOK, Tree
  <2>3. placed.head \notin Tree(placed, placed.head).older
    <3>1. placed.head \in Nat
      BY <1>6 DEF HistoryOK, Repositories
    <3>2. PICK h : h = placed.head
      OBVIOUS
    <3>3. h \in Nat /\ Tree(placed, placed.head).older \subseteq 1 .. h - 1
      BY <2>2, <3>1, <3>2
    <3>4. h \notin 1 .. h - 1
      BY <3>3
    <3> QED
      BY <3>2, <3>3, <3>4
  <2>4. placed.head \notin Ancestors(r, r.origin)
    BY <1>1, <1>2, <1>6, HistoryFacts
  <2>5. \A a : a \in Tree(placed, placed.head).older <=> a \in Ancestors(r, r.origin)
    <3>1. \A a : (\E p \in P : a \in Ancestors(synced, p)) <=> a \in Ancestors(r, r.origin)
      BY <1>2, <1>4
    <3>2. Ancestors(placed, placed.head) = Tree(placed, placed.head).older \cup {placed.head}
      BY DEF Ancestors, Tree
    <3> QED
      BY <1>9, <2>3, <2>4, <3>1, <3>2
  <2>6. Tree(s, placed.head).older = Ancestors(s, r.origin)
    <3>1. \A a : a \in Tree(s, placed.head).older <=> a \in Ancestors(s, r.origin)
      BY <1>1, <1>11, <1>12, <2>5 DEF Tree
    <3> QED
      BY <3>1
  <2>7. r.origin \in Ancestors(s, s.origin)
    BY <1>11 DEF Ancestors
  <2> QED
    BY <2>1, <2>6, <2>7 DEF Forked
<1>18. HeadTree(s).ledger = HeadTree(r).ledger /\ s.file = r.file /\ s.current = r.current
  BY <1>11, <1>13 DEF Level, Same
<1> QED
  BY <1>15, <1>16, <1>17, <1>18

\* The merge base of a workpiece has the ledger and the state it was cloned with.
LEMMA ForkBase ==
  ASSUME NEW r, HistoryOK(r), Level(r), NEW at \in DOMAIN r.objects, at # None, Forked(r, at)
  PROVE  LET base == MergeBase(r, r.head, at)
         IN  base.ledger = Tree(r, at).ledger /\ base.current = Tree(r, at).current
<1>1. PICK from, S : from = Tree(r, at).parent /\ S = Ancestors(r, r.head) \cap Ancestors(r, at)
  OBVIOUS
<1>2. /\ from \in Ancestors(r, r.origin) /\ Tree(r, at).older = Ancestors(r, from)
      /\ Same(Tree(r, at), Tree(r, from))
  BY <1>1 DEF Forked
<1>3. r.head \in DOMAIN r.objects /\ r.origin \in DOMAIN r.objects /\ r.origin \in Ancestors(r, r.head)
  BY DEF HistoryOK, Level
<1>4. Ancestors(r, r.origin) \subseteq Ancestors(r, r.head) /\ from \in DOMAIN r.objects
  BY <1>2, <1>3, LinesAreNested, HistoryFacts
<1>5. Ancestors(r, at) = Ancestors(r, from) \cup {at}
  BY <1>2 DEF Ancestors, Tree
<1>6. from \in Ancestors(r, from) /\ from \in S
  BY <1>1, <1>2, <1>4, <1>5, HistoryFacts
<1>7. /\ Len(r.objects) \in Nat /\ S \in SUBSET (0 .. Len(r.objects))
  BY <1>1, <1>3, HistoryFacts
<1>8. Max(S) \in S /\ Max(S) >= from
  BY <1>6, <1>7, MaxIsIn
<1>9. r.objects[from].older \subseteq 1 .. from - 1 /\ from \in Nat
  BY <1>4, HistoryFacts DEF HistoryOK
<1>10. Max(S) \in {from, at}
  <2>1. CASE Max(S) = at
    BY <2>1
  <2>2. CASE Max(S) \in Ancestors(r, from)
    BY <1>8, <1>9, <2>2 DEF Ancestors
  <2> QED
    BY <1>1, <1>5, <1>8, <2>1, <2>2
<1>11. MergeBase(r, r.head, at) = Tree(r, Max(S))
  BY <1>1 DEF MergeBase, Tree
<1> QED
  BY <1>2, <1>10, <1>11 DEF Same

LEMMA WorkMerged ==
  ASSUME NEW r, HistoryOK(r), Level(r), r.file = HeadTree(r).ledger,
         NEW at \in DOMAIN r.objects, at # None, Forked(r, at), NEW edits \in SUBSET Edits,
         NEW s, s = Push(MergeWorkpiece(r, at, edits))
  PROVE  /\ Level(s) /\ Onward(r, s) /\ edits \subseteq HeadTree(s).edits
         /\ HeadTree(s).ledger = r.file /\ s.file = r.file /\ s.current = r.current
<1>1. PICK base, theirs, ours : /\ base = MergeBase(r, r.head, at) /\ theirs = r.objects[at]
                                /\ ours = HeadTree(r)
  OBVIOUS
<1>2. base.ledger = theirs.ledger /\ base.current = theirs.current
  BY <1>1, ForkBase DEF Tree
<1>3. PICK merged, P, t :
        /\ merged = [ledger |-> ThreeWay(base.ledger, ours.ledger, theirs.ledger),
                     current |-> ThreeWay(base.current, ours.current, theirs.current),
                     edits |-> ours.edits \cup edits, parent |-> r.head, older |-> {}]
        /\ P = {r.head, at} /\ t = CommitTree(r, merged, P)
  OBVIOUS
<1>4. ours \in Trees /\ r.head \in DOMAIN r.objects /\ r.head \in Nat
  BY <1>1, HistoryFacts DEF HistoryOK, Repositories
<1>5. /\ merged.ledger = ours.ledger /\ merged.current = ours.current
      /\ merged.edits = ours.edits \cup edits
  BY <1>2, <1>3 DEF ThreeWay
<1>6. merged \in Trees
  BY <1>3, <1>4, <1>5 DEF Trees
<1>7. P \in SUBSET DOMAIN r.objects /\ r.head \in P /\ HeadTree(r).edits \subseteq merged.edits
  BY <1>1, <1>3, <1>4, <1>5
<1>8. t = CommitTree(r, merged, P)
  BY <1>3
<1>9. /\ HistoryOK(t) /\ Ahead(t) /\ Onward(r, t)
      /\ HeadTree(t).ledger = merged.ledger /\ HeadTree(t).current = merged.current
      /\ HeadTree(t).edits = merged.edits
      /\ t.file = r.file /\ t.current = r.current /\ t.origin = r.origin
  BY <1>6, <1>7, <1>8, LevelIsAhead, CommitAhead
<1>10. PICK u : u = Checkout(t, t.head)
  OBVIOUS
<1>11. t.head \in DOMAIN t.objects /\ HeadTree(t) = Tree(t, t.head)
  BY <1>9 DEF HistoryOK, HeadTree, Tree
<1>12. /\ HistoryOK(u) /\ u.objects = t.objects /\ u.head = t.head /\ u.origin = t.origin
       /\ u.file = HeadTree(t).ledger /\ u.current = HeadTree(t).current /\ u.rebase = "none"
       /\ \A a : Ancestors(u, a) = Ancestors(t, a)
       /\ HeadTree(u) = HeadTree(t)
  BY <1>9, <1>10, <1>11, CheckoutFacts DEF Ahead
<1>13. u.external = t.external /\ u.mirror = t.mirror
  BY <1>9, <1>10 DEF Checkout, HistoryOK, Repositories
<1>14. Ahead(u) /\ u.current = HeadTree(u).current /\ Onward(t, u)
  BY <1>9, <1>12, <1>13 DEF Ahead, Onward
<1>15. MergeWorkpiece(r, at, edits) = IF UpToDate(r, at, edits) THEN r ELSE u
  BY <1>1, <1>3, <1>10 DEF MergeWorkpiece
<1>16. CASE UpToDate(r, at, edits)
  <2>1. s = Push(r) /\ Ahead(r) /\ r.current = HeadTree(r).current
    BY <1>15, <1>16, LevelIsAhead DEF Level
  <2>2. /\ Level(s) /\ Onward(r, s) /\ HeadTree(s) = HeadTree(r) /\ s.file = r.file
        /\ s.current = r.current
    BY <2>1, PushAhead
  <2> QED
    BY <1>16, <2>2 DEF UpToDate
<1>17. CASE ~UpToDate(r, at, edits)
  <2>1. s = Push(u)
    BY <1>15, <1>17
  <2>2. /\ Level(s) /\ Onward(u, s) /\ HeadTree(s) = HeadTree(u) /\ s.file = u.file
        /\ s.current = u.current
    BY <1>12, <1>14, <2>1, PushAhead
  <2>3. Onward(r, s)
    BY <1>9, <1>14, <2>2, OnwardTransitive
  <2>4. edits \subseteq HeadTree(s).edits
    BY <1>5, <1>9, <1>12, <2>2
  <2>5. HeadTree(s).ledger = r.file /\ s.file = r.file
    BY <1>1, <1>5, <1>9, <1>12, <2>2
  <2>6. s.current = r.current
    BY <1>1, <1>5, <1>9, <1>12, <2>2 DEF Level
  <2> QED
    BY <2>2, <2>3, <2>4, <2>5, <2>6
<1> QED
  BY <1>16, <1>17
-----------------------------------------------------------------------------
(* What most steps leave alone.                                             *)

\* The files of a mission keep what they say of it.
Quiet(m) ==
  /\ manifest'[m].state = manifest[m].state
  /\ evidence'[m].validation \in {"none", "passed", "failed"}
  /\ evidence'[m].pre # None => manifest'[m].reconciled
  /\ evidence'[m].head = evidence[m].head \/ evidence'[m].head[2] \subseteq HeadTree(repo').edits
  /\ workpiece'[m].at = workpiece[m].at \/ Forked(repo', workpiece'[m].at)
  /\ workpiece'[m].dirty = {}
  /\ manifest[m].state = "closed" =>
       /\ workpiece'[m].edits = workpiece[m].edits
       /\ evidence'[m].validated = evidence[m].validated

\* A command goes on with what it has begun to write.
Pursues(c, d) ==
  /\ Recording(c) => Recording(d) /\ d.m = c.m
  /\ c.cmd = "open" /\ c.m \in Missions => d.cmd = "open" /\ d.m = c.m
  /\ Ending(c) => Ending(d) /\ d.m = c.m

LEMMA FilesFollow ==
  ASSUME OrderInv, RegisterInv, Onward(repo, repo'), NEW m \in Missions, Quiet(m)
  PROVE  Files(m)'
<1>1. /\ evidence[m].head # <<>> => evidence[m].head[2] \subseteq HeadTree(repo).edits
      /\ Forked(repo, workpiece[m].at)
  BY DEF OrderInv, Files, Delivered
<1>2. HistoryOK(repo) /\ workpiece[m].at \in {None} \cup DOMAIN repo.objects
  BY DEF RegisterInv, StateOK, FilesOK
<1>3. Forked(repo', workpiece[m].at)
  BY <1>1, <1>2, ForkedStays
<1>4. Forked(repo', workpiece'[m].at)
  BY <1>3 DEF Quiet
<1>5. evidence'[m].head # <<>> => evidence'[m].head[2] \subseteq HeadTree(repo').edits
  BY <1>1 DEF Quiet, Onward
<1> QED
  BY <1>4, <1>5 DEF Quiet, Files, Delivered

LEMMA StandingStays ==
  ASSUME NEW c, NEW d, NEW m \in Missions, Standing(c, m), Onward(repo, repo'), Quiet(m),
         repo'.file = repo.file, repo'.current = repo.current, Pursues(c, d)
  PROVE  /\ Ended(m)' => HasTerminal(m)' \/ (Recording(d) /\ d.m = m)
         /\ OpenedIn(repo'.file, m) => manifest'[m].state # "none"
         /\ manifest'[m].state = "open" => repo'.current = m \/ (d.cmd = "open" /\ d.m = m)
         /\ repo'.current = m => manifest'[m].state = "open" \/ (Ending(d) /\ d.m = m)
         /\ manifest'[m].state = "closed" =>
              workpiece'[m].edits \subseteq HeadTree(repo').edits \cap evidence'[m].validated
<1>1. manifest'[m].state = manifest[m].state /\ (HasTerminal(m)' <=> HasTerminal(m))
  BY DEF Quiet, HasTerminal
<1>2. Ended(m)' => HasTerminal(m)' \/ (Recording(d) /\ d.m = m)
  BY <1>1 DEF Standing, Ended, Pursues
<1>3. OpenedIn(repo'.file, m) => manifest'[m].state # "none"
  BY <1>1 DEF Standing
<1>4. manifest'[m].state = "open" => repo'.current = m \/ (d.cmd = "open" /\ d.m = m)
  BY <1>1 DEF Standing, Pursues
<1>5. repo'.current = m => manifest'[m].state = "open" \/ (Ending(d) /\ d.m = m)
  BY <1>1 DEF Standing, Pursues
<1>6. manifest'[m].state = "closed" =>
        workpiece'[m].edits \subseteq HeadTree(repo').edits \cap evidence'[m].validated
  BY <1>1 DEF Standing, Quiet, Onward
<1> QED
  BY <1>2, <1>3, <1>4, <1>5, <1>6

\* A step that changes neither the working tree's ledger nor what it names.
LEMMA OrderStays ==
  ASSUME OrderInv, RegisterInv, NEW p \in Procs, Procs = {p},
         Level(repo'), Onward(repo, repo'), repo'.file = repo.file, repo'.current = repo.current,
         \A m \in Missions : Quiet(m), issued' \in 0 .. MaxCommands,
         Pursues(proc[p], proc'[p]), Course(proc[p])'
  PROVE  OrderInv'
<1>1. \A m \in Missions : Files(m)'
  BY FilesFollow
<1>2. ASSUME NEW m \in Missions PROVE Standing(proc[p], m)'
  <2>1. Standing(proc[p], m) /\ Quiet(m)
    BY DEF OrderInv
  <2> QED
    BY <2>1, StandingStays DEF Standing
<1>3. Named(repo'.file)
  BY DEF OrderInv, Named
<1> QED
  BY <1>1, <1>2, <1>3 DEF OrderInv

\* A step that leaves the files and the repositories alone.
LEMMA OnlyMoves ==
  ASSUME OrderInv, RegisterInv, NEW p \in Procs, Procs = {p},
         UNCHANGED <<manifest, evidence, workpiece, repo>>, issued' \in 0 .. MaxCommands,
         Pursues(proc[p], proc'[p]), Course(proc[p])'
  PROVE  OrderInv'
<1>1. Level(repo') /\ Onward(repo, repo') /\ repo'.file = repo.file /\ repo'.current = repo.current
  BY OnwardReflexive DEF OrderInv
<1>2. ASSUME NEW m \in Missions PROVE Quiet(m)
  BY DEF OrderInv, Files, Quiet
<1> QED
  BY <1>1, <1>2, OrderStays

\* The command ends having finished what it had to write.
LEMMA IdleCourse ==
  ASSUME NEW d, d = Idle, repo'.file = HeadTree(repo').ledger
  PROVE  /\ d.at = "opened" => d.result \in {"pushed", "refused"}
         /\ d.at = "aborted" => d.result = "pushed"
         /\ d.at = "audit" => d.result # "refused"
         /\ d.at = "commit" => repo'.file # HeadTree(repo').ledger
         /\ d.at # "commit" => repo'.file = HeadTree(repo').ledger
         /\ Recording(d) => ~HasTerminal(d.m)'
         /\ d.m = None /\ d.cmd = "none"
         /\ "skip-reconcile-check" \notin d.flags
BY DEF Idle, Recording

LEMMA IdleCourses ==
  ASSUME NEW p \in Procs, proc'[p] = Idle, repo'.file = HeadTree(repo').ledger
  PROVE  Course(proc[p])'
<1>1. PICK d : d = proc'[p]
  OBVIOUS
<1>2. None \notin Missions
  BY LifecycleAssumption DEF Missions, None
<1> QED
  BY <1>1, <1>2, IdleCourse DEF Course, Started

LEMMA CourseFacts ==
  ASSUME OrderInv, NEW p \in Procs
  PROVE  /\ Course(proc[p]) /\ Level(repo)
         /\ proc[p].at # "commit" => repo.file = HeadTree(repo).ledger
BY DEF OrderInv, Course
-----------------------------------------------------------------------------
(* Commands that begin.                                                     *)

Begun(d, cmd, m, seen, flags) ==
  d = [Idle EXCEPT !.cmd = cmd, !.at = "lock", !.m = m, !.seen = seen, !.flags = flags]

\* A command that has only read what it will work on.
Begins(d) ==
  \E cmd \in {"open", "materialize", "reconcile", "close", "abort"} :
  \E m \in Missions \cup {None} : \E seen \in Manifests : \E flags \in {{}} \cup CloseFlags :
    /\ cmd = "open" <=> m = None
    /\ m # None => manifest[m].state = "open" /\ seen = manifest[m]
    /\ cmd = "reconcile" => evidence[m].pre = None
    /\ Begun(d, cmd, m, seen, flags)

LEMMA BeginsWell ==
  ASSUME Undisturbed, NEW d, Begins(d)
  PROVE  /\ d.at = "lock" /\ "skip-reconcile-check" \notin d.flags /\ ~Recording(d)
         /\ d.cmd \in {"open", "materialize", "reconcile", "close", "abort"}
         /\ d.m \in Missions \cup {None} /\ (d.cmd = "open" <=> d.m = None)
         /\ d.m # None => manifest[d.m].state = "open" /\ d.seen = manifest[d.m]
         /\ d.cmd = "reconcile" => evidence[d.m].pre = None
<1>1. PICK cmd \in {"open", "materialize", "reconcile", "close", "abort"},
           m \in Missions \cup {None}, seen \in Manifests, flags \in {{}} \cup CloseFlags :
        /\ cmd = "open" <=> m = None
        /\ m # None => manifest[m].state = "open" /\ seen = manifest[m]
        /\ cmd = "reconcile" => evidence[m].pre = None
        /\ Begun(d, cmd, m, seen, flags)
  BY DEF Begins
<1>4. d.at = "lock" /\ d.cmd = cmd /\ d.m = m /\ d.seen = seen /\ d.flags = flags
  BY <1>1 DEF Idle, Begun
<1>5. "skip-reconcile-check" \notin flags
  BY <1>1 DEF Undisturbed
<1> QED
  BY <1>1, <1>4, <1>5 DEF Recording

\* Nothing was begun before.
LEMMA IdlePursues ==
  ASSUME NEW c, c = Idle, NEW d PROVE Pursues(c, d)
<1>1. c.at = "idle" /\ c.cmd = "none"
  BY DEF Idle
<1> QED
  BY <1>1 DEF Pursues, Recording, Ending

\* A process that is idle runs no command.
LEMMA IdleIs ==
  ASSUME RegisterInv, NEW p \in Procs, proc[p].at = "idle" PROVE proc[p] = Idle
<1>1. Place(proc[p])
  BY DEF RegisterInv, Places, PlaceOK
<1> QED
  BY <1>1 DEF Place, Appends, Syncs, Ledgering, Mirroring

LEMMA BeginsInOrder ==
  ASSUME Undisturbed, OrderInv, RegisterInv, NEW p \in Procs, Procs = {p}, proc[p].at = "idle",
         Begins(proc'[p]), UNCHANGED <<manifest, repo, workpiece>>, issued' \in 0 .. MaxCommands,
         \A m \in Missions :
           /\ evidence'[m].validation \in {"none", "passed", "failed"}
           /\ evidence'[m].pre = evidence[m].pre /\ evidence'[m].head = evidence[m].head
           /\ manifest[m].state = "closed" => evidence'[m].validated = evidence[m].validated,
         proc'[p].cmd = "close" =>
           workpiece[proc'[p].m].edits \subseteq evidence'[proc'[p].m].validated
  PROVE  OrderInv'
<1>1. PICK d : d = proc'[p]
  OBVIOUS
<1>2. /\ d.at = "lock" /\ "skip-reconcile-check" \notin d.flags /\ ~Recording(d)
      /\ d.m \in Missions \cup {None} /\ (d.cmd = "open" <=> d.m = None)
      /\ d.m # None => manifest[d.m].state = "open" /\ d.seen = manifest[d.m]
      /\ d.cmd = "reconcile" => evidence[d.m].pre = None
  BY <1>1, BeginsWell
<1>3. proc[p] = Idle /\ Pursues(proc[p], d)
  BY IdleIs, IdlePursues
<1>4. repo'.file = HeadTree(repo').ledger
  BY CourseFacts
<1>5. Course(proc[p])'
  <2>1. d.cmd = "reconcile" => evidence'[d.m].pre = None
    BY <1>2
  <2>2. None \notin Missions
    BY LifecycleAssumption DEF Missions, None
  <2> QED
    BY <1>1, <1>2, <1>4, <2>1, <2>2 DEF Course, Started
<1>6. ASSUME NEW m \in Missions PROVE Quiet(m)
  BY DEF OrderInv, Files, Quiet
<1>7. Level(repo') /\ Onward(repo, repo') /\ repo'.file = repo.file /\ repo'.current = repo.current
  BY OnwardReflexive DEF OrderInv
<1> QED
  BY <1>1, <1>3, <1>5, <1>6, <1>7, OrderStays

LEMMA IssuedCounts ==
  ASSUME OrderInv, NEW p, NEW cmd, Issue(p, cmd) PROVE issued' \in 0 .. MaxCommands
BY LifecycleAssumption DEF OrderInv, Issue

\* The reads a command begins with.
LEMMA StartBegins ==
  ASSUME RegisterInv, NEW p \in Procs, NEW m \in Missions,
         NEW cmd \in {"materialize", "reconcile", "abort"}, Start(p, cmd, m),
         cmd = "reconcile" => evidence[m].pre = None
  PROVE  /\ proc[p].at = "idle" /\ Begins(proc'[p]) /\ proc'[p].cmd = cmd
<1>1. DOMAIN proc = Procs
  BY DEF RegisterInv, StateOK
<1>2. proc'[p] = [Idle EXCEPT !.cmd = cmd, !.at = "lock", !.m = m, !.seen = manifest[m]]
  BY <1>1 DEF Start
<1>3. manifest[m].state = "open" /\ proc[p].at = "idle" /\ m # None
  BY LifecycleAssumption DEF Start, Issue, Missions, None
<1>4. PICK seen, flags : seen = manifest[m] /\ flags = {}
  OBVIOUS
<1>5. Begun(proc'[p], cmd, m, seen, flags)
  BY <1>2, <1>4 DEF Idle, Begun
<1>6. proc'[p].cmd = cmd
  BY <1>2 DEF Idle
<1>7. seen \in Manifests /\ flags \in {{}} \cup CloseFlags
  BY <1>4 DEF RegisterInv, StateOK
<1> QED
  BY <1>3, <1>4, <1>5, <1>6, <1>7 DEF Begins

LEMMA StartsInOrder ==
  ASSUME Undisturbed, OrderInv, RegisterInv, NEW p \in Procs, Procs = {p}, NEW m \in Missions,
         MaterializeStart(p, m) \/ ReconcileStart(p, m) \/ AbortStart(p, m)
  PROVE  OrderInv'
<1>1. PICK cmd \in {"materialize", "reconcile", "abort"} :
        Start(p, cmd, m) /\ (cmd = "reconcile" => ReconcileStart(p, m))
  BY DEF MaterializeStart, ReconcileStart, AbortStart
<1>2. cmd = "reconcile" => evidence[m].pre = None
  BY <1>1 DEF ReconcileStart, Undisturbed, OrderInv, Files
<1>3. proc[p].at = "idle" /\ Begins(proc'[p]) /\ proc'[p].cmd # "close"
  BY <1>1, <1>2, StartBegins
<1>4. UNCHANGED <<manifest, evidence, workpiece, repo>>
  BY DEF MaterializeStart, ReconcileStart, AbortStart
<1>5. issued' \in 0 .. MaxCommands
  BY <1>1, IssuedCounts DEF Start
<1>6. \A n \in Missions : evidence[n].validation \in {"none", "passed", "failed"}
  BY DEF OrderInv, Files
<1> QED
  BY <1>3, <1>4, <1>5, <1>6, BeginsInOrder

LEMMA OpenBegins ==
  ASSUME Undisturbed, OrderInv, RegisterInv, NEW p \in Procs, Procs = {p}, OpenPreflight(p)
  PROVE  OrderInv'
<1>1. proc'[p] = [Idle EXCEPT !.cmd = "open", !.at = "lock"]
  BY DEF OpenPreflight, RegisterInv, StateOK
<1>2. Begins(proc'[p]) /\ proc'[p].cmd # "close"
  <2>1. PICK m, seen, flags : m = None /\ seen = NoManifest /\ flags = {}
    OBVIOUS
  <2>2. Begun(proc'[p], "open", m, seen, flags)
    <3>1. [Idle EXCEPT !.cmd = "open", !.at = "lock", !.m = m, !.seen = seen, !.flags = flags]
            = [Idle EXCEPT !.cmd = "open", !.at = "lock"]
      <4> DEFINE full == [Idle EXCEPT !.cmd = "open", !.at = "lock", !.m = m, !.seen = seen, !.flags = flags]
                 brief == [Idle EXCEPT !.cmd = "open", !.at = "lock"]
      <4>1. full.m = m /\ full.seen = seen /\ full.flags = flags
        BY DEF Idle
      <4>2. brief.m = m /\ brief.seen = seen /\ brief.flags = flags
        BY <2>1 DEF Idle
      <4>3. \A f \in DOMAIN Idle \ {"m", "seen", "flags"} : full[f] = brief[f]
        BY DEF Idle
      <4>4. DOMAIN full = DOMAIN Idle /\ DOMAIN brief = DOMAIN Idle
        OBVIOUS
      <4>5. \A f \in DOMAIN Idle : full[f] = brief[f]
        BY <4>1, <4>2, <4>3
      <4> QED
        BY <4>4, <4>5
    <3> QED
      BY <1>1, <3>1 DEF Begun
  <2>3. seen \in Manifests
    BY <2>1 DEF NoManifest, Manifests, States
  <2>4. proc'[p].cmd # "close"
    BY <1>1 DEF Idle
  <2> QED
    BY <2>1, <2>2, <2>3, <2>4 DEF Begins
<1>4. proc[p].at = "idle" /\ UNCHANGED <<manifest, evidence, workpiece, repo>>
  BY DEF OpenPreflight, Issue
<1>5. issued' \in 0 .. MaxCommands
  BY IssuedCounts DEF OpenPreflight
<1>6. \A n \in Missions : evidence[n].validation \in {"none", "passed", "failed"}
  BY DEF OrderInv, Files
<1> QED
  BY <1>2, <1>4, <1>5, <1>6, BeginsInOrder

LEMMA SyncBegins ==
  ASSUME OrderInv, RegisterInv, NEW p \in Procs, Procs = {p}, SyncStart(p)
  PROVE  OrderInv'
<1>1. PICK d : d = proc'[p]
  OBVIOUS
<1>2. d = Syncing([Idle EXCEPT !.cmd = "sync"], "exit")
  BY <1>1 DEF SyncStart, RegisterInv, StateOK
<1>3. d.at = "sync" /\ d.cmd = "sync" /\ d.m = None /\ d.flags = {}
  BY <1>2 DEF Syncing, Idle
<1>4. proc[p] = Idle /\ Pursues(proc[p], d)
  BY IdleIs, IdlePursues DEF SyncStart, Issue
<1>5. UNCHANGED <<manifest, evidence, workpiece, repo>> /\ issued' \in 0 .. MaxCommands
  BY IssuedCounts DEF SyncStart
<1>6. proc[p].at # "commit"
  BY DEF SyncStart, Issue
<1>7. repo'.file = HeadTree(repo').ledger
  BY <1>5, <1>6, CourseFacts
<1>8. Course(proc[p])'
  <2>1. None \notin Missions
    BY LifecycleAssumption DEF Missions, None
  <2> QED
    BY <1>1, <1>3, <1>7, <2>1 DEF Course, Started, Recording
<1> QED
  BY <1>1, <1>4, <1>5, <1>8, OnlyMoves

\* A validation writes its report and, where nothing is dirty, nothing else.
LEMMA ValidationWrites ==
  ASSUME OrderInv, RegisterInv, NEW p \in Procs, proc[p].at = "idle", NEW m \in Missions,
         NEW passed \in BOOLEAN, ValidateOutcome(m, passed)
  PROVE  /\ repo' = repo /\ evidence'[m].validated = workpiece[m].edits
         /\ \A n \in Missions :
              /\ evidence'[n].validation \in {"none", "passed", "failed"}
              /\ evidence'[n].pre = evidence[n].pre /\ evidence'[n].head = evidence[n].head
              /\ n # m => evidence'[n] = evidence[n]
<1>1. repo.file = HeadTree(repo).ledger /\ Level(repo)
  BY CourseFacts
<1>2. repo' = repo
  BY <1>1, NothingToCommit DEF ValidateOutcome
<1>3. Content(m) = workpiece[m].edits
  BY DEF OrderInv, Files, Content
<1>4. PICK content, e :
        /\ content = Content(m)
        /\ e = [evidence[m] EXCEPT !.validation = IF passed THEN "passed" ELSE "failed",
                                   !.validated = content]
  OBVIOUS
<1>5. DOMAIN evidence[m] = EvidenceFields /\ DOMAIN evidence = Missions
  BY DEF RegisterInv, StateOK, FilesOK
<1>6. /\ e.validation \in {"passed", "failed"} /\ e.validated = content
      /\ e.pre = evidence[m].pre /\ e.head = evidence[m].head
  BY <1>4, <1>5 DEF EvidenceFields
<1>7. evidence' = [evidence EXCEPT ![m] = e]
  BY <1>4, <1>5 DEF ValidateOutcome
<1>8. evidence'[m] = e /\ \A n \in Missions : n # m => evidence'[n] = evidence[n]
  BY <1>5, <1>7
<1>9. \A n \in Missions : evidence[n].validation \in {"none", "passed", "failed"}
  BY DEF OrderInv, Files
<1> QED
  BY <1>2, <1>3, <1>4, <1>6, <1>8, <1>9

LEMMA ValidateInOrder ==
  ASSUME OrderInv, RegisterInv, NEW p \in Procs, Procs = {p}, NEW m \in Missions, Validate(p, m)
  PROVE  OrderInv'
<1>1. PICK passed \in BOOLEAN : ValidateOutcome(m, passed)
  BY DEF Validate, Fails
<1>2. proc[p].at = "idle" /\ UNCHANGED <<manifest, workpiece, proc>> /\ manifest[m].state = "open"
  BY DEF Validate, Issue
<1>3. /\ repo' = repo
      /\ \A n \in Missions :
           /\ evidence'[n].validation \in {"none", "passed", "failed"}
           /\ evidence'[n].pre = evidence[n].pre /\ evidence'[n].head = evidence[n].head
           /\ n # m => evidence'[n] = evidence[n]
  BY <1>1, <1>2, ValidationWrites
<1>4. ASSUME NEW n \in Missions PROVE Quiet(n)
  BY <1>2, <1>3 DEF OrderInv, Files, Quiet
<1>5. proc[p] = Idle /\ repo'.file = HeadTree(repo').ledger
  BY <1>2, <1>3, IdleIs, CourseFacts
<1>6. Course(proc[p])' /\ Pursues(proc[p], proc'[p])
  BY <1>2, <1>5, IdleCourses, IdlePursues
<1>7. issued' \in 0 .. MaxCommands
  BY IssuedCounts DEF Validate
<1>8. Level(repo') /\ Onward(repo, repo')
  BY <1>3, OnwardReflexive DEF OrderInv
<1> QED
  BY <1>3, <1>4, <1>6, <1>7, <1>8, OrderStays

LEMMA CloseBegins ==
  ASSUME Undisturbed, OrderInv, RegisterInv, NEW p \in Procs, Procs = {p}, NEW m \in Missions,
         CloseStart(p, m)
  PROVE  OrderInv'
<1>1. PICK flags \in CloseFlags :
        proc' = [proc EXCEPT ![p] = [Idle EXCEPT !.cmd = "close", !.at = "lock", !.m = m,
                                                 !.seen = manifest[m], !.flags = flags]]
  BY DEF CloseStart
<1>2. PICK seen : seen = manifest[m]
  OBVIOUS
<1>3. Begun(proc'[p], "close", m, seen, flags)
  BY <1>1, <1>2 DEF Begun, RegisterInv, StateOK
<1>4. /\ proc[p].at = "idle" /\ UNCHANGED <<manifest, workpiece>> /\ manifest[m].state = "open"
      /\ m # None /\ ValidateOutcome(m, TRUE)
  BY ManifestFacts DEF CloseStart, Issue
<1>5. seen \in Manifests /\ flags \in {{}} \cup CloseFlags
  BY <1>1, <1>2 DEF RegisterInv, StateOK
<1>6. Begins(proc'[p])
  BY <1>2, <1>3, <1>4, <1>5 DEF Begins
<1>7. proc'[p].cmd = "close" /\ proc'[p].m = m
  BY <1>3 DEF Begun, Idle
<1>8. /\ repo' = repo /\ evidence'[m].validated = workpiece[m].edits
      /\ \A n \in Missions :
           /\ evidence'[n].validation \in {"none", "passed", "failed"}
           /\ evidence'[n].pre = evidence[n].pre /\ evidence'[n].head = evidence[n].head
           /\ n # m => evidence'[n] = evidence[n]
  BY <1>4, ValidationWrites
<1>9. issued' \in 0 .. MaxCommands
  BY IssuedCounts DEF CloseStart
<1>10. \A n \in Missions : manifest[n].state = "closed" => evidence'[n].validated = evidence[n].validated
  BY <1>4, <1>8
<1> QED
  BY <1>4, <1>6, <1>7, <1>8, <1>9, <1>10, BeginsInOrder

LEMMA CommitInOrder ==
  ASSUME OrderInv, RegisterInv, NEW p \in Procs, Procs = {p}, NEW m \in Missions, GitCommit(p, m)
  PROVE  OrderInv'
<1>1. /\ proc[p].at = "idle" /\ UNCHANGED <<manifest, evidence, repo, proc>>
      /\ manifest[m].state = "open"
  BY DEF GitCommit, Issue
<1>2. PICK edits : workpiece' = [workpiece EXCEPT ![m].edits = edits, ![m].dirty = {}]
  BY DEF GitCommit
<1>3. DOMAIN workpiece = Missions /\ DOMAIN workpiece[m] = WorkpieceFields
  BY DEF RegisterInv, StateOK, FilesOK
<1>4. PICK w : w = [workpiece[m] EXCEPT !.edits = edits, !.dirty = {}]
  OBVIOUS
<1>5. w.at = workpiece[m].at /\ w.dirty = {}
  BY <1>3, <1>4 DEF WorkpieceFields
<1>6. workpiece'[m] = w /\ \A n \in Missions : n # m => workpiece'[n] = workpiece[n]
  BY <1>2, <1>3, <1>4
<1>7. ASSUME NEW n \in Missions PROVE Quiet(n)
  BY <1>1, <1>5, <1>6 DEF OrderInv, Files, Quiet
<1>8. proc[p] = Idle /\ repo'.file = HeadTree(repo').ledger
  BY <1>1, IdleIs, CourseFacts
<1>9. Course(proc[p])' /\ Pursues(proc[p], proc'[p])
  BY <1>1, <1>8, IdleCourses, IdlePursues
<1>10. issued' \in 0 .. MaxCommands
  BY IssuedCounts DEF GitCommit
<1>11. Level(repo') /\ Onward(repo, repo')
  BY <1>1, OnwardReflexive DEF OrderInv
<1> QED
  BY <1>1, <1>7, <1>9, <1>10, <1>11, OrderStays

\* An operator's command.
LEMMA BeginInOrder ==
  ASSUME Undisturbed, OrderInv, RegisterInv, NEW p \in Procs, Procs = {p}, Begin(p)
  PROVE  OrderInv'
<1>1. ASSUME NEW m \in Missions, Edit(p, m) PROVE FALSE
  BY <1>1 DEF Edit, Issue, Undisturbed
<1> QED
  BY <1>1, OpenBegins, NothingToRepair, SyncBegins, StartsInOrder, CloseBegins, CommitInOrder,
     ValidateInOrder DEF Begin
-----------------------------------------------------------------------------
(* The ledger routine.                                                      *)

\* A command that goes on with what it knows, as far as the order rests on it.
Carries(c, d) ==
  /\ d.cmd = c.cmd /\ d.m = c.m /\ d.seen = c.seen /\ d.flags = c.flags /\ d.head = c.head

LEMMA CourseCarries ==
  ASSUME OrderInv, NEW p \in Procs, UNCHANGED <<manifest, evidence, workpiece>>,
         Onward(repo, repo'), Carries(proc[p], proc'[p]), proc[p].at # "lock",
         proc'[p].at = "opened" => proc'[p].result \in {"pushed", "refused"},
         proc'[p].at = "aborted" => proc'[p].result = "pushed",
         proc'[p].at = "audit" => proc'[p].result # "refused",
         proc'[p].at = "commit" => repo'.file # HeadTree(repo').ledger,
         proc'[p].at # "commit" => repo'.file = HeadTree(repo').ledger,
         Recording(proc'[p]) => ~HasTerminal(proc[p].m)'
  PROVE  Course(proc[p])'
<1>1. PICK c, d : c = proc[p] /\ d = proc'[p]
  OBVIOUS
<1>2. Course(c) /\ Carries(c, d)
  BY <1>1 DEF OrderInv
<1>3. (Started(c)' <=> Started(c)) /\ (Started(d)' <=> Started(c)')
  BY <1>2 DEF Started, Carries
<1>4. Started(d)' => d.seen = manifest'[d.m]
  BY <1>2, <1>3 DEF Course, Carries
<1>5. "skip-reconcile-check" \notin d.flags /\ (d.cmd = "reconcile" => evidence'[d.m].pre = None)
  BY <1>2 DEF Course, Carries
<1>6. d.cmd = "reconcile" => d.head[2] \subseteq HeadTree(repo').edits
  BY <1>1, <1>2 DEF Course, Carries, Delivered, Onward
<1>7. d.cmd = "close" /\ manifest'[d.m].state = "open" => workpiece'[d.m].edits \subseteq evidence'[d.m].validated
  BY <1>2 DEF Course, Carries
<1>8. d.cmd = "close" => workpiece'[d.m].edits \subseteq HeadTree(repo').edits
  BY <1>1, <1>2 DEF Course, Carries, Onward
<1>9. Recording(d) => ~HasTerminal(d.m)'
  BY <1>1, <1>2 DEF Carries
<1> QED
  BY <1>1, <1>4, <1>5, <1>6, <1>7, <1>8, <1>9 DEF Course, Delivered

\* The five errands of the ledger routine.
LEMMA LedgeringIs ==
  ASSUME RegisterInv, NEW p \in Procs, proc[p].at \in Ledgering
  PROVE  LET c == proc[p] IN
    \/ c.cmd = "open" /\ c.m \in Missions /\ c.kind = "mission-open" /\ c.ret = "opened"
         /\ manifest[c.m].state = "open"
    \/ c.cmd = "materialize" /\ c.m \in Missions /\ c.kind = "preflight-skipped" /\ c.ret = "materialized"
    \/ c.cmd \in {"sync", "reconcile", "close"} /\ c.kind = "mirror-sync" /\ c.ret = "mirrors"
    \/ c.cmd = "close" /\ c.m \in Missions /\ c.kind = "mission-close" /\ c.ret \in {"audit", "archive"}
         /\ manifest[c.m].state = "closed"
    \/ c.cmd = "abort" /\ c.m \in Missions /\ c.kind = "mission-abort" /\ c.ret = "aborted"
         /\ manifest[c.m].state = "aborted"
<1>1. PICK c : c = proc[p]
  OBVIOUS
<1>2. c # Idle /\ Place(c) /\ c.at \in Ledgering
  BY <1>1 DEF Ledgering, Idle, RegisterInv, Places, PlaceOK
<1> QED
  BY <1>1, <1>2 DEF Place, Appends, Syncs, Ledgering, Mirroring, On, Entered

LEMMA CommandFields ==
  ASSUME RegisterInv, NEW p \in Procs
  PROVE  DOMAIN proc = Procs /\ DOMAIN proc[p] = Fields /\ proc[p].m \in Missions \cup {None}
BY DEF RegisterInv, StateOK, Places, PlaceOK

LEMMA AppendReadInOrder ==
  ASSUME OrderInv, RegisterInv, NEW p \in Procs, Procs = {p}, AppendRead(p)
  PROVE  OrderInv'
<1>1. PICK c, d : c = proc[p] /\ d = proc'[p]
  OBVIOUS
<1>2. c.at = "append" /\ c.at \in Ledgering /\ DOMAIN c = Fields /\ DOMAIN proc = Procs
  BY <1>1, CommandFields DEF AppendRead, Ledgering
<1>3. Course(c) /\ Level(repo) /\ repo.file = HeadTree(repo).ledger
  BY <1>1, <1>2, CourseFacts
<1>4. \/ c.kind \in Terminal /\ HasTerminal(c.m) /\ d = [c EXCEPT !.at = c.ret, !.result = "refused"]
      \/ d = [c EXCEPT !.at = "write", !.read = repo.file]
  BY <1>1, <1>2, <1>3 DEF AppendRead, Step, Level, Readable
<1>5. UNCHANGED <<manifest, evidence, workpiece, repo>> /\ issued' \in 0 .. MaxCommands
  BY DEF AppendRead, Step, OrderInv
<1>6. CASE d = [c EXCEPT !.at = "write", !.read = repo.file]
  <2>1. d.at = "write" /\ d.kind = c.kind /\ d.ret = c.ret /\ Carries(c, d)
    BY <1>2, <1>6 DEF Carries, Fields
  <2>2. Recording(d) => ~HasTerminal(c.m)
    BY <1>2, <1>3, <2>1 DEF Course, Recording
  <2>3. Course(proc[p])'
    <3>1. Onward(repo, repo') /\ Carries(proc[p], proc'[p]) /\ proc[p].at # "lock"
      BY <1>1, <1>2, <1>5, <2>1, OnwardReflexive
    <3>2. proc'[p].at = "write" /\ repo'.file = HeadTree(repo').ledger
      BY <1>1, <1>3, <1>5, <2>1
    <3>3. Recording(proc'[p]) => ~HasTerminal(proc[p].m)'
      <4>1. HasTerminal(c.m)' <=> HasTerminal(c.m)
        BY <1>1, <1>5, <2>1 DEF HasTerminal, Carries
      <4> QED
        BY <1>1, <2>1, <2>2, <4>1 DEF HasTerminal, Carries
    <3> QED
      BY <1>5, <3>1, <3>2, <3>3, CourseCarries
  <2>4. Pursues(c, d)
    BY <1>2, <2>1 DEF Pursues, Recording, Ending, Carries, Ledgering
  <2> QED
    BY <1>1, <1>5, <2>3, <2>4, OnlyMoves
<1>7. CASE /\ c.kind \in Terminal /\ HasTerminal(c.m)
           /\ d = [c EXCEPT !.at = c.ret, !.result = "refused"]
  <2>1. ~Recording(c)
    BY <1>3, <1>7 DEF Course
  <2>2. c.cmd = "close" /\ c.ret = "archive" /\ c.kind = "mission-close"
    BY <1>1, <1>2, <1>7, <2>1, LedgeringIs DEF Recording, Terminal
  <2>3. d.at = "archive" /\ Carries(c, d)
    BY <1>2, <1>7, <2>2 DEF Carries, Fields
  <2>4. Course(proc[p])'
    BY <1>1, <1>2, <1>3, <1>5, <2>3, CourseCarries, OnwardReflexive DEF Recording
  <2>5. Pursues(c, d)
    BY <2>1, <2>2, <2>3 DEF Pursues, Ending, Carries
  <2> QED
    BY <1>1, <1>5, <2>4, <2>5, OnlyMoves
<1> QED
  BY <1>4, <1>6, <1>7

LEMMA AppendSilencedInOrder ==
  ASSUME OrderInv, RegisterInv, NEW p \in Procs, Procs = {p}, AppendSilenced(p), unsaid' = {}
  PROVE  OrderInv'
<1>1. PICK c, d : c = proc[p] /\ d = proc'[p]
  OBVIOUS
<1>2. /\ c.at = "append" /\ c.at \in Ledgering /\ DOMAIN c = Fields /\ DOMAIN proc = Procs
      /\ c.kind # "mission-abort"
  BY <1>1, CommandFields DEF AppendSilenced, Ledgering
<1>3. Level(repo) /\ repo.file = HeadTree(repo).ledger
  BY <1>1, <1>2, CourseFacts
<1>4. d = [c EXCEPT !.at = c.ret, !.result = "refused"]
  BY <1>1, <1>2 DEF AppendSilenced
<1>5. UNCHANGED <<manifest, evidence, workpiece, repo>> /\ issued' \in 0 .. MaxCommands
  BY DEF AppendSilenced, OrderInv
<1>6. \/ c.cmd = "open" /\ c.kind = "mission-open" /\ c.ret = "opened"
      \/ c.cmd \in {"sync", "reconcile", "close"} /\ c.kind = "mirror-sync" /\ c.ret = "mirrors"
  BY <1>1, <1>2, LedgeringIs DEF AppendSilenced, Quoting
<1>7. d.at = c.ret /\ d.result = "refused" /\ Carries(c, d)
  BY <1>2, <1>4 DEF Carries, Fields
<1>8. ~Recording(c) /\ ~Recording(d) /\ ~Ending(c)
  BY <1>2, <1>6, <1>7 DEF Recording, Terminal, Ending
<1>9. Course(proc[p])'
  BY <1>1, <1>2, <1>3, <1>5, <1>6, <1>7, <1>8, CourseCarries, OnwardReflexive
<1>10. Pursues(c, d)
  BY <1>7, <1>8 DEF Pursues, Carries
<1> QED
  BY <1>1, <1>5, <1>9, <1>10, OnlyMoves

LEMMA CommitLedgerInOrder ==
  ASSUME Undisturbed, OrderInv, RegisterInv, NEW p \in Procs, Procs = {p}, CommitLedgerStep(p)
  PROVE  OrderInv'
<1>1. PICK c, d : c = proc[p] /\ d = proc'[p]
  OBVIOUS
<1>2. c.at = "commit" /\ c.at \in Ledgering /\ DOMAIN c = Fields /\ DOMAIN proc = Procs
  BY <1>1, CommandFields DEF CommitLedgerStep, Ledgering
<1>3. Level(repo) /\ Readable(repo) /\ repo.file # HeadTree(repo).ledger /\ HistoryOK(repo)
  BY <1>1, <1>2, CourseFacts DEF Course, Level, Readable, RegisterInv, StateOK
<1>4. Fails("commit") = {FALSE} /\ Fails("push") = {FALSE}
  BY DEF Fails, Undisturbed
<1>5. PICK s : s = PullAndPush(CommitLedger(repo))
  OBVIOUS
<1>6. /\ Level(s) /\ Onward(repo, s) /\ Published(s)
      /\ HeadTree(s).ledger = repo.file /\ s.file = repo.file /\ s.current = repo.current
  BY <1>3, <1>5, LedgerCommitted
<1>7. repo' = s /\ d = [c EXCEPT !.at = c.ret, !.result = "pushed"]
  BY <1>1, <1>2, <1>3, <1>4, <1>5, <1>6 DEF CommitLedgerStep, Step
<1>8. d.at = c.ret /\ d.result = "pushed" /\ d.kind = c.kind /\ Carries(c, d)
  BY <1>2, <1>7 DEF Carries, Fields
<1>9. UNCHANGED <<manifest, evidence, workpiece>> /\ issued' \in 0 .. MaxCommands
  BY DEF CommitLedgerStep, Step, OrderInv
<1>10. c.ret \in {"opened", "materialized", "mirrors", "audit", "archive", "aborted"}
  BY <1>1, <1>2, LedgeringIs
<1>11. ~Recording(d) /\ ~Recording(c)
  BY <1>2, <1>8, <1>10 DEF Recording
<1>12. Course(proc[p])'
  BY <1>1, <1>2, <1>6, <1>7, <1>8, <1>9, <1>10, <1>11, CourseCarries
<1>13. Ending(c) => Ending(d)
  BY <1>1, <1>2, <1>8, LedgeringIs DEF Ending, Carries, Ledgering
<1>14. Pursues(c, d)
  BY <1>8, <1>11, <1>13 DEF Pursues, Carries
<1>15. ASSUME NEW m \in Missions PROVE Quiet(m)
  BY <1>9 DEF OrderInv, Files, Quiet
<1> QED
  BY <1>1, <1>6, <1>7, <1>9, <1>12, <1>14, <1>15, OrderStays

LEMMA AppendWriteInOrder ==
  ASSUME OrderInv, RegisterInv, NEW p \in Procs, Procs = {p}, AppendWrite(p)
  PROVE  OrderInv'
<1>1. PICK c, d : c = proc[p] /\ d = proc'[p]
  OBVIOUS
<1>2. c.at = "write" /\ c.at \in Ledgering /\ DOMAIN c = Fields /\ DOMAIN proc = Procs
  BY <1>1, CommandFields DEF AppendWrite, Ledgering
<1>3. /\ Course(c) /\ Level(repo) /\ repo.file = HeadTree(repo).ledger /\ HistoryOK(repo)
      /\ c.read = repo.file /\ PlaceOK(c)
  BY <1>1, <1>2, CourseFacts DEF RegisterInv, StateOK, Places, WritingOK
<1>4. repo.file \in Ledgers /\ c.kind \in Kinds /\ c.m \in 0 .. MaxMissions
  BY <1>2, <1>3, LedgeringFacts DEF HistoryOK, Repositories
<1>5. PICK longer : longer = Longer(repo.file, c.kind, c.m)
  OBVIOUS
<1>6. /\ longer \in Ledgers
      /\ \A x : OpenedIn(longer, x) <=> OpenedIn(repo.file, x) \/ (c.kind \in Opening /\ x = c.m)
      /\ \A x : EndedIn(longer, x) <=> EndedIn(repo.file, x) \/ (c.kind \in Terminal /\ x = c.m)
  BY <1>4, <1>5, EntriesAfter
<1>7. repo' = [repo EXCEPT !.file = longer] /\ d = [c EXCEPT !.at = "commit", !.read = <<>>]
  BY <1>1, <1>2, <1>3, <1>5 DEF AppendWrite, Longer, Step
<1>8. d.at = "commit" /\ d.kind = c.kind /\ Carries(c, d)
  BY <1>2, <1>7 DEF Carries, Fields
<1>9. UNCHANGED <<manifest, evidence, workpiece>> /\ issued' \in 0 .. MaxCommands
  BY DEF AppendWrite, Step, OrderInv
<1>10. /\ repo'.objects = repo.objects /\ repo'.head = repo.head /\ repo'.origin = repo.origin
       /\ repo'.file = longer /\ repo'.current = repo.current /\ repo'.rebase = repo.rebase
       /\ repo'.external = repo.external /\ repo'.mirror = repo.mirror
  BY <1>3, <1>6, <1>7 DEF HistoryOK, Repositories
<1>11. HeadTree(repo') = HeadTree(repo) /\ \A a : Ancestors(repo', a) = Ancestors(repo, a) /\ Tree(repo', a) = Tree(repo, a)
  BY <1>10 DEF HeadTree, Ancestors, Tree
<1>12. Level(repo') /\ Onward(repo, repo')
  BY <1>3, <1>10, <1>11 DEF Level, Onward
<1>13. Len(longer) = Len(repo.file) + 1 /\ \A i \in DOMAIN repo.file : longer[i] = repo.file[i]
  BY <1>4, <1>5 DEF Longer, Ledgers, Entry
<1>14. longer # repo.file
  BY <1>4, <1>13 DEF Ledgers
<1>15. Course(proc[p])'
  BY <1>1, <1>2, <1>3, <1>8, <1>9, <1>10, <1>11, <1>12, <1>14, CourseCarries DEF Recording
<1>16. ASSUME NEW m \in Missions PROVE Files(m)'
  <2>1. Quiet(m)
    BY <1>9 DEF OrderInv, Files, Quiet
  <2> QED
    BY <1>12, <2>1, FilesFollow
<1>17. c.kind = "mirror-sync" \/ c.m \in Missions
  BY <1>1, <1>2, LedgeringIs
<1>18. Named(longer)
  <2>1. Named(repo.file)
    BY DEF OrderInv
  <2>2. longer[Len(repo.file) + 1] = Entry(c.kind, c.m, Len(repo.file))
    BY <1>4, <1>5 DEF Longer, Ledgers, Entry
  <2>3. Len(repo.file) \in Nat /\ DOMAIN repo.file = 1 .. Len(repo.file) /\ DOMAIN longer = 1 .. Len(longer)
    BY <1>4, <1>6 DEF Ledgers
  <2>4. PICK e : e = Entry(c.kind, c.m, Len(repo.file))
    OBVIOUS
  <2>6. e.kind = c.kind /\ e.mission = c.m
    BY <2>4 DEF Entry
  <2>5. \A i \in DOMAIN longer : i \in DOMAIN repo.file \/ i = Len(repo.file) + 1
    BY <1>13, <2>3
  <2> QED
    BY <1>13, <1>17, <2>1, <2>2, <2>4, <2>5, <2>6 DEF Named
<1>19. ASSUME NEW m \in Missions PROVE Standing(proc[p], m)'
  <2>1. Standing(c, m)
    BY <1>1 DEF OrderInv
  <2>2. HasTerminal(m)' <=> EndedIn(longer, m)
    BY <1>10 DEF HasTerminal, EndedIn
  <2>3. Ended(m)' => HasTerminal(m)'
    BY <1>6, <1>9, <2>1, <2>2 DEF Standing, Ended, HasTerminal, EndedIn, Recording
  <2>4. OpenedIn(longer, m) => manifest[m].state # "none"
    BY <1>1, <1>2, <1>6, <2>1, LedgeringIs DEF Standing, Opening
  <2>5. Ending(c) => Ending(d)
    BY <1>2, <1>8 DEF Ending, Carries, Ledgering
  <2>6. repo.current = m => manifest[m].state = "open" \/ (Ending(d) /\ d.m = m)
    BY <1>8, <2>1, <2>5 DEF Standing, Carries
  <2>7. manifest[m].state = "open" => repo.current = m \/ (d.cmd = "open" /\ d.m = m)
    BY <1>8, <2>1 DEF Standing, Carries
  <2> QED
    BY <1>1, <1>9, <1>10, <1>11, <2>1, <2>3, <2>4, <2>6, <2>7 DEF Standing
<1> QED
  BY <1>9, <1>10, <1>12, <1>15, <1>16, <1>18, <1>19 DEF OrderInv
-----------------------------------------------------------------------------
(* mission.open and mission.materialize.                                    *)

\* A command that has not taken its locks has nothing to go on with.
LEMMA LockedPursues ==
  ASSUME RegisterInv, NEW p \in Procs, proc[p].at = "lock", NEW d PROVE Pursues(proc[p], d)
<1>1. PICK c : c = proc[p]
  OBVIOUS
<1>2. c # Idle /\ Place(c) /\ c.at = "lock"
  BY <1>1 DEF Idle, RegisterInv, Places, PlaceOK
<1>3. c.cmd = "open" => c.m = None
  BY <1>2 DEF Place, Appends, Ledgering
<1>4. None \notin Missions
  BY LifecycleAssumption DEF Missions, None
<1> QED
  BY <1>1, <1>2, <1>3, <1>4 DEF Pursues, Recording, Ending, Ledgering

LEMMA RefusedInOrder ==
  ASSUME OrderInv, RegisterInv, NEW p \in Procs, Procs = {p}, proc[p].at = "lock", Exit(p),
         UNCHANGED <<manifest, evidence, workpiece, repo>>
  PROVE  OrderInv'
<1>1. proc'[p] = Idle /\ issued' \in 0 .. MaxCommands
  BY DEF Exit, Step, RegisterInv, StateOK, OrderInv
<1>2. repo'.file = HeadTree(repo').ledger
  BY CourseFacts
<1>3. Course(proc[p])' /\ Pursues(proc[p], proc'[p])
  BY <1>1, <1>2, IdleCourses, LockedPursues
<1> QED
  BY <1>1, <1>3, OnlyMoves

LEMMA OpenInOrder ==
  ASSUME OrderInv, RegisterInv, NEW p \in Procs, Procs = {p}, OpenLocked(p)
  PROVE  OrderInv'
<1>1. PICK c, d : c = proc[p] /\ d = proc'[p]
  OBVIOUS
<1>2. /\ c.cmd = "open" /\ c.at = "lock" /\ c.m = None /\ DOMAIN c = Fields /\ DOMAIN proc = Procs
      /\ StateOK /\ HistoryOK(repo) /\ UNCHANGED <<evidence, workpiece, repo>>
  BY <1>1 DEF OpenLocked, RegisterInv, StateOK, Places, PlaceOK, Place, Idle, Appends, Ledgering
<1>3. CASE UNCHANGED <<lock, manifest>> /\ Exit(p)
  BY <1>1, <1>2, <1>3, RefusedInOrder
<1>4. CASE ~(UNCHANGED <<lock, manifest>> /\ Exit(p))
  <2>1. PICK N : N = NextMission
    OBVIOUS
  <2>2. /\ repo.current = None /\ N =< MaxMissions
        /\ manifest' = [manifest EXCEPT ![N] = [NoManifest EXCEPT !.state = "open"]]
        /\ proc' = [proc EXCEPT ![p] = Appending([c EXCEPT !.m = N], "mission-open", "opened")]
        /\ issued' = issued
    <3>1. N \in Nat /\ MaxMissions \in Nat
      BY <1>2, <2>1, LifecycleAssumption, NextMissionIsFree DEF HistoryOK, Repositories
    <3> QED
      BY <1>1, <1>4, <2>1, <3>1 DEF OpenLocked, Step
  <2>3. N \in Missions /\ manifest[N].state = "none"
    <3>1. N \in Nat \ {0} /\ MaxMissions \in Nat /\ repo.file \in Ledgers
      BY <1>2, <2>1, LifecycleAssumption, NextMissionIsFree DEF HistoryOK, Repositories
    <3>2. N \in Missions
      BY <2>2, <3>1 DEF Missions
    <3> QED
      BY <1>2, <2>1, <3>1, <3>2, NextMissionIsFree
  <2>4. /\ d.cmd = "open" /\ d.m = N /\ d.at = "append" /\ d.kind = "mission-open"
        /\ d.flags = c.flags
    BY <1>1, <1>2, <2>2 DEF Appending, Fields
  <2>5. /\ manifest'[N].state = "open"
        /\ \A m \in Missions \ {N} : manifest'[m] = manifest[m]
    <3>1. [NoManifest EXCEPT !.state = "open"].state = "open"
      BY DEF NoManifest
    <3> QED
      BY <1>2, <2>2, <2>3, <3>1 DEF StateOK
  <2>6. evidence[N].pre = None
    BY <1>2, <2>3 DEF StateOK, FilesOK
  <2>7. None \notin Missions /\ repo.file = HeadTree(repo).ledger /\ Level(repo) /\ Course(c)
    BY <1>1, <1>2, CourseFacts, LifecycleAssumption DEF Missions, None
  <2>8. ASSUME NEW m \in Missions PROVE Standing(proc[p], m)'
    <3>1. Standing(c, m) /\ ~Recording(c) /\ ~Ending(c)
      BY <1>1, <1>2 DEF OrderInv, Recording, Ending
    <3>2. HasTerminal(m)' <=> HasTerminal(m)
      BY <1>2 DEF HasTerminal
    <3>3. CASE m = N
      <4>1. ~Ended(m)' /\ manifest'[m].state = "open" /\ d.cmd = "open" /\ d.m = m
        BY <2>4, <2>5, <3>3 DEF Ended
      <4> QED
        BY <1>1, <4>1 DEF Standing
    <3>4. CASE m # N
      <4>1. manifest'[m] = manifest[m] /\ (Ended(m)' <=> Ended(m))
        BY <2>5, <3>4 DEF Ended
      <4>2. manifest[m].state # "open" /\ repo.current # m
        BY <1>2, <2>2, <2>7, <3>1 DEF Standing
      <4> QED
        BY <1>2, <3>1, <3>2, <4>1, <4>2 DEF Standing
    <3> QED
      BY <3>3, <3>4
  <2>9. ASSUME NEW m \in Missions PROVE Files(m)'
    <3>1. Files(m)
      BY DEF OrderInv
    <3>2. evidence[m].pre # None => manifest'[m].reconciled
      BY <2>5, <2>6, <3>1 DEF Files
    <3> QED
      BY <1>2, <3>1, <3>2 DEF Files, Delivered
  <2>10. Course(proc[p])'
    BY <1>1, <1>2, <2>4, <2>7 DEF Course, Recording, Terminal, Started
  <2> QED
    BY <1>2, <2>2, <2>8, <2>9, <2>10 DEF OrderInv
<1> QED
  BY <1>3, <1>4

\* An opening that is published is the one the system's state names from then on.
LEMMA PublishedInOrder ==
  ASSUME Undisturbed, OrderInv, RegisterInv, NEW p \in Procs, Procs = {p}, Opened(p),
         proc[p].result = "pushed"
  PROVE  OrderInv'
<1>1. PICK c, m : c = proc[p] /\ m = c.m
  OBVIOUS
<1>2. /\ c.at = "opened" /\ c # Idle /\ PlaceOK(c) /\ StateOK /\ Record /\ HistoryOK(repo)
      /\ proc'[p] = Idle /\ issued' = issued
  BY <1>1 DEF Opened, ExitReleasing, Exit, Step, RegisterInv, StateOK, Places, Idle
<1>3. m \in Missions /\ manifest[m].state = "open"
  BY <1>1, <1>2 DEF PlaceOK, Place, Appends, Syncs, Ledgering, Mirroring, On
<1>4. Course(c) /\ Level(repo) /\ repo.file = HeadTree(repo).ledger
  BY <1>1, <1>2, CourseFacts
<1>5. c.result = "pushed"
  BY <1>1
<1>6. Fails("push") = {FALSE}
  BY DEF Fails, Undisturbed
<1>7. PICK s : s = WriteState(repo, m, TRUE)
  OBVIOUS
<1>8. repo' = s /\ UNCHANGED <<manifest, evidence, workpiece>>
  BY <1>1, <1>5, <1>6, <1>7 DEF Opened
<1>9. /\ Level(s) /\ Onward(repo, s)
      /\ HeadTree(s).ledger = HeadTree(repo).ledger /\ s.file = repo.file /\ s.current = m
  <2>1. HistoryOK(repo) /\ Level(repo) /\ m \in Missions \cup {None}
    BY <1>2, <1>3, <1>4
  <2> QED
    BY <1>7, <2>1, StateWritten
<1>10. Course(proc[p])'
  BY <1>2, <1>4, <1>8, <1>9, IdleCourses
<1>11. ASSUME NEW n \in Missions PROVE Files(n)'
  <2>1. Quiet(n)
    BY <1>8 DEF OrderInv, Files, Quiet
  <2> QED
    BY <1>8, <1>9, <2>1, FilesFollow
<1>12. ASSUME NEW n \in Missions PROVE Standing(proc[p], n)'
  <2>1. Standing(c, n) /\ ~Recording(c)
    BY <1>1, <1>2 DEF OrderInv, Recording
  <2>2. (HasTerminal(n)' <=> HasTerminal(n)) /\ (Ended(n)' <=> Ended(n))
    BY <1>8, <1>9 DEF HasTerminal, Ended
  <2>3. manifest[n].state = "open" => n = m
    BY <1>2, <1>3 DEF Record, Engaged
  <2>4. HeadTree(repo).edits \subseteq HeadTree(repo').edits
    BY <1>8, <1>9 DEF Onward
  <2> QED
    BY <1>3, <1>8, <1>9, <2>1, <2>2, <2>3, <2>4 DEF Standing
<1>13. Named(repo'.file)
  BY <1>8, <1>9 DEF OrderInv, Named
<1> QED
  BY <1>2, <1>8, <1>9, <1>10, <1>11, <1>12, <1>13 DEF OrderInv

\* One whose entry was refused goes away, and the ledger has nothing of it.
LEMMA WithdrawnInOrder ==
  ASSUME OrderInv, RegisterInv, NEW p \in Procs, Procs = {p}, Opened(p), proc[p].result = "refused"
  PROVE  OrderInv'
<1>1. PICK c, m : c = proc[p] /\ m = c.m
  OBVIOUS
<1>2. /\ c.at = "opened" /\ c.result = "refused" /\ c # Idle /\ PlaceOK(c) /\ OpeningOK(c)
      /\ StateOK /\ Record /\ repo' = repo /\ RemoveMission(m)
      /\ proc'[p] = Idle /\ issued' = issued
  BY <1>1 DEF Opened, ExitReleasing, Exit, Step, RegisterInv, StateOK, Places, Idle
<1>3. c.cmd = "open" /\ m \in Missions
  BY <1>1, <1>2 DEF PlaceOK, Place, Appends, Syncs, Ledgering, Mirroring, On
<1>4. Level(repo) /\ repo.file = HeadTree(repo).ledger
  BY <1>1, <1>2, CourseFacts
<1>5. ~OpenedIn(repo.file, m)
  BY <1>1, <1>2, <1>3 DEF OpeningOK
<1>6. repo.current # m
  <2>1. repo.current \in CurrentsOf(repo)
    BY DEF CurrentsOf
  <2>2. None \notin Missions
    BY LifecycleAssumption DEF Missions, None
  <2> QED
    BY <1>1, <1>2, <1>3, <2>1, <2>2 DEF Record
<1>7. /\ manifest'[m] = NoManifest /\ evidence'[m] = NoEvidence /\ workpiece'[m] = NoWorkpiece
      /\ \A n \in Missions \ {m} :
           manifest'[n] = manifest[n] /\ evidence'[n] = evidence[n] /\ workpiece'[n] = workpiece[n]
  BY <1>2, <1>3 DEF RemoveMission, StateOK
<1>8. ASSUME NEW n \in Missions PROVE Files(n)'
  <2>1. CASE n = m
    BY <1>7, <2>1 DEF Files, NoEvidence, NoWorkpiece, Forked
  <2>2. CASE n # m
    BY <1>2, <1>7, <2>2 DEF OrderInv, Files, Delivered
  <2> QED
    BY <2>1, <2>2
<1>9. ASSUME NEW n \in Missions PROVE Standing(proc[p], n)'
  <2>1. Standing(c, n) /\ ~Recording(c) /\ ~Ending(c)
    BY <1>1, <1>2, <1>3 DEF OrderInv, Recording, Ending
  <2>2. HasTerminal(n)' <=> HasTerminal(n)
    BY <1>2 DEF HasTerminal
  <2>3. CASE n = m
    <3>1. manifest'[n].state = "none"
      BY <1>7, <2>3 DEF NoManifest
    <3> QED
      BY <1>2, <1>5, <1>6, <2>3, <3>1 DEF Standing, Ended
  <2>4. CASE n # m
    <3>1. manifest'[n] = manifest[n] /\ evidence'[n] = evidence[n] /\ workpiece'[n] = workpiece[n]
      BY <1>7, <2>4
    <3>2. Ended(n)' <=> Ended(n)
      BY <3>1 DEF Ended
    <3> QED
      BY <1>1, <1>2, <2>1, <2>2, <2>4, <3>1, <3>2 DEF Standing
  <2> QED
    BY <2>3, <2>4
<1>10. Course(proc[p])'
  BY <1>2, <1>4, IdleCourses
<1>11. Level(repo') /\ Named(repo'.file)
  BY <1>2, <1>4 DEF OrderInv
<1> QED
  BY <1>2, <1>8, <1>9, <1>10, <1>11 DEF OrderInv

LEMMA OpenedInOrder ==
  ASSUME Undisturbed, OrderInv, RegisterInv, NEW p \in Procs, Procs = {p}, Opened(p)
  PROVE  OrderInv'
<1>1. proc[p].result \in {"pushed", "refused"}
  BY CourseFacts DEF Opened, Course
<1> QED
  BY <1>1, PublishedInOrder, WithdrawnInOrder

LEMMA MaterializeInOrder ==
  ASSUME OrderInv, RegisterInv, NEW p \in Procs, Procs = {p}, MaterializeLocked(p)
  PROVE  OrderInv'
<1>1. PICK c, d, m : c = proc[p] /\ d = proc'[p] /\ m = c.m
  OBVIOUS
<1>2. /\ c.at = "lock" /\ c.cmd = "materialize" /\ PlaceOK(c) /\ DOMAIN c = Fields
      /\ StateOK /\ HistoryOK(repo) /\ DOMAIN proc = Procs /\ UNCHANGED <<manifest, evidence>>
  BY <1>1 DEF MaterializeLocked, RegisterInv, StateOK, Places, PlaceOK
<1>3. m \in Missions /\ manifest[m].state = "open"
  BY <1>1, <1>2 DEF PlaceOK, Place, Idle, Entered, On
<1>4. Course(c) /\ Level(repo) /\ repo.file = HeadTree(repo).ledger
  BY <1>1, <1>2, CourseFacts
<1>5. PICK synced, placed :
        /\ synced = Checkout(repo, repo.origin)
        /\ placed = CommitTree(synced, HeadTree(synced), {synced.head})
        /\ repo' = [placed EXCEPT !.head = synced.head]
        /\ workpiece' = [workpiece EXCEPT ![m] =
             [NoWorkpiece EXCEPT !.at = placed.head, !.edits = HeadTree(placed).edits]]
  BY <1>1 DEF MaterializeLocked
<1>6. PICK s : s = [placed EXCEPT !.head = synced.head]
  OBVIOUS
<1>7. /\ Level(s) /\ Onward(repo, s) /\ Forked(s, placed.head)
      /\ HeadTree(s).ledger = HeadTree(repo).ledger /\ s.file = repo.file /\ s.current = repo.current
  <2>1. HistoryOK(repo) /\ Level(repo) /\ repo.file = HeadTree(repo).ledger
    BY <1>2, <1>4
  <2>2. synced = Checkout(repo, repo.origin)
    BY <1>5
  <2>3. placed = CommitTree(synced, HeadTree(synced), {synced.head})
    BY <1>5
  <2>4. Placing(repo, synced, placed, s)
    BY <1>6, <2>2, <2>3 DEF Placing
  <2> QED
    BY <2>1, <2>4, PlacedForked
<1>8. repo' = s
  BY <1>5, <1>6
<1>9. /\ workpiece'[m].at = placed.head /\ workpiece'[m].dirty = {}
      /\ \A n \in Missions \ {m} : workpiece'[n] = workpiece[n]
  <2>1. PICK at, edits : at = placed.head /\ edits = HeadTree(placed).edits
    OBVIOUS
  <2>2. PICK w : w = [NoWorkpiece EXCEPT !.at = at, !.edits = edits]
    OBVIOUS
  <2>3. w.at = at /\ w.dirty = {}
    BY <2>2 DEF NoWorkpiece
  <2>4. workpiece' = [workpiece EXCEPT ![m] = w]
    BY <1>5, <2>1, <2>2
  <2> QED
    BY <1>2, <1>3, <2>1, <2>3, <2>4 DEF StateOK
<1>10. \/ d = Appending(c, "preflight-skipped", "materialized")
       \/ d = [c EXCEPT !.at = "materialized"]
  BY <1>1, <1>2 DEF MaterializeLocked, Step
<1>11. /\ Carries(c, d) /\ d.at \in {"append", "materialized"}
       /\ d.at = "append" => d.kind = "preflight-skipped"
  BY <1>2, <1>10 DEF Appending, Carries, Fields
<1>12. Course(proc[p])'
  <2>1. Started(c) /\ c.seen = manifest[c.m]
    BY <1>1, <1>2, <1>3, <1>4 DEF Started, Course
  <2>2. d.seen = manifest'[d.m] /\ "skip-reconcile-check" \notin d.flags /\ d.cmd = "materialize"
    BY <1>2, <1>4, <1>11, <2>1 DEF Carries, Course
  <2>3. ~Recording(d) /\ repo'.file = HeadTree(repo').ledger
    BY <1>4, <1>7, <1>8, <1>11 DEF Recording, Terminal
  <2> QED
    BY <1>1, <1>11, <2>2, <2>3 DEF Course
<1>13. ASSUME NEW n \in Missions PROVE Quiet(n)
  BY <1>2, <1>3, <1>7, <1>8, <1>9 DEF OrderInv, Files, Quiet
<1>14. issued' \in 0 .. MaxCommands
  BY DEF MaterializeLocked, Step, OrderInv
<1>15. Pursues(proc[p], proc'[p])
  BY <1>1, <1>2, LockedPursues
<1> QED
  BY <1>7, <1>8, <1>12, <1>13, <1>14, <1>15, OrderStays

LEMMA MaterializedInOrder ==
  ASSUME OrderInv, RegisterInv, NEW p \in Procs, Procs = {p}, Materialized(p)
  PROVE  OrderInv'
<1>1. PICK c : c = proc[p]
  OBVIOUS
<1>2. /\ c.at = "materialized" /\ PlaceOK(c) /\ StateOK
      /\ UNCHANGED <<evidence, workpiece, repo>> /\ proc'[p] = Idle /\ issued' = issued
  BY <1>1 DEF Materialized, ExitReleasing, Exit, Step, RegisterInv, StateOK, Places
<1>3. c.cmd = "materialize" /\ Entered(c) /\ c.m \in Missions /\ manifest[c.m].state = "open"
  BY <1>2 DEF PlaceOK, Place, Appends, Syncs, Ledgering, Mirroring, Idle, Entered, On
<1>4. Course(c) /\ Level(repo) /\ repo.file = HeadTree(repo).ledger
  BY <1>1, <1>2, CourseFacts
<1>5. c.seen = manifest[c.m] /\ c.seen \in Manifests
  BY <1>2, <1>3, <1>4 DEF Course, Started, PlaceOK
<1>6. \A n \in Missions : /\ manifest'[n].state = manifest[n].state
                          /\ manifest'[n].reconciled = manifest[n].reconciled
  <2>1. PICK x : x = [c.seen EXCEPT !.materialized = TRUE]
    OBVIOUS
  <2>2. x.state = c.seen.state /\ x.reconciled = c.seen.reconciled
    BY <1>5, <2>1 DEF Manifests
  <2>3. manifest' \in {manifest, [manifest EXCEPT ![c.m] = x]}
    BY <1>1, <2>1 DEF Materialized
  <2> QED
    BY <1>2, <1>3, <1>5, <2>2, <2>3 DEF StateOK
<1>7. ASSUME NEW n \in Missions PROVE Quiet(n)
  BY <1>2, <1>6 DEF OrderInv, Files, Quiet
<1>8. Course(proc[p])'
  BY <1>2, <1>4, IdleCourses
<1>9. Pursues(c, Idle)
  BY <1>2, <1>3 DEF Pursues, Recording, Ending
<1>10. Level(repo') /\ Onward(repo, repo') /\ issued' \in 0 .. MaxCommands
  BY <1>2, <1>4, OnwardReflexive DEF OrderInv
<1> QED
  BY <1>1, <1>2, <1>7, <1>8, <1>9, <1>10, OrderStays
-----------------------------------------------------------------------------
(* The mirrors and mission.reconcile.                                       *)

LEMMA PublishedAgain ==
  ASSUME NEW r, HistoryOK(r), Level(r),
         NEW s \in {r, Push(r), [r EXCEPT !.external = r.origin], [r EXCEPT !.mirror = r.origin]}
  PROVE  /\ Level(s) /\ Onward(r, s) /\ HeadTree(s) = HeadTree(r)
         /\ s.file = r.file /\ s.current = r.current
<1>1. CASE s = r
  BY <1>1, OnwardReflexive
<1>2. CASE s = Push(r)
  <2>1. Ahead(r) /\ r.current = HeadTree(r).current
    BY LevelIsAhead DEF Level
  <2> QED
    BY <1>2, <2>1, PushAhead
<1>3. CASE s = [r EXCEPT !.external = r.origin] \/ s = [r EXCEPT !.mirror = r.origin]
  <2>1. r.origin \in DOMAIN r.objects
    BY DEF HistoryOK
  <2>2. /\ s.objects = r.objects /\ s.head = r.head /\ s.origin = r.origin /\ s.file = r.file
        /\ s.current = r.current /\ s.rebase = r.rebase
        /\ s.external \in {r.external, r.origin} /\ s.mirror \in {r.mirror, r.origin}
    BY <1>3 DEF HistoryOK, Repositories
  <2>3. HeadTree(s) = HeadTree(r) /\ \A a : Ancestors(s, a) = Ancestors(r, a) /\ Tree(s, a) = Tree(r, a)
    BY <2>2 DEF HeadTree, Ancestors, Tree
  <2> QED
    BY <2>1, <2>2, <2>3 DEF Level, Onward
<1> QED
  BY <1>1, <1>2, <1>3

LEMMA MirroringPursues ==
  ASSUME RegisterInv, NEW p \in Procs, proc[p].at \in Mirroring, NEW d PROVE Pursues(proc[p], d)
<1>1. PICK c : c = proc[p]
  OBVIOUS
<1>2. PlaceOK(c)
  BY <1>1 DEF RegisterInv, Places
<1>3. c.cmd \in {"sync", "reconcile", "close"}
  BY <1>1, <1>2, SyncingPlace
<1> QED
  BY <1>1, <1>3 DEF Pursues, Recording, Ending, Mirroring, Ledgering

LEMMA SyncsInOrder ==
  ASSUME Undisturbed, OrderInv, RegisterInv, NEW p \in Procs, Procs = {p},
         SyncPush(p) \/ SyncMirrors(p) \/ SyncRef(p)
  PROVE  OrderInv'
<1>1. PICK c, d : c = proc[p] /\ d = proc'[p]
  OBVIOUS
<1>2. /\ c.at \in Mirroring /\ PlaceOK(c) /\ DOMAIN c = Fields /\ DOMAIN proc = Procs
      /\ HistoryOK(repo) /\ UNCHANGED <<manifest, evidence, workpiece>> /\ issued' = issued
  BY <1>1 DEF SyncPush, SyncMirrors, SyncRef, RegisterInv, StateOK, Places, PlaceOK, Mirroring,
              Step, Goto, Exit
<1>3. Level(repo) /\ repo.file = HeadTree(repo).ledger /\ c.at \notin {"lock", "commit"}
  BY <1>1, <1>2, CourseFacts DEF Mirroring
<1>4. repo' \in {repo, Push(repo), [repo EXCEPT !.external = repo.origin],
                 [repo EXCEPT !.mirror = repo.origin]}
  BY DEF SyncPush, SyncMirrors, SyncRef
<1>5. PICK s : s = repo'
  OBVIOUS
<1>6. /\ Level(s) /\ Onward(repo, s) /\ HeadTree(s) = HeadTree(repo)
      /\ s.file = repo.file /\ s.current = repo.current
  BY <1>2, <1>3, <1>4, <1>5, PublishedAgain
<1>7. \/ d = Idle
      \/ d = Appending(c, "mirror-sync", "mirrors")
      \/ d = [c EXCEPT !.at = "ref"]
      \/ d = [c EXCEPT !.at = c.next] /\ c.next # "exit"
  BY <1>1, <1>2 DEF SyncPush, SyncMirrors, SyncRef, Step, Goto, Exit
<1>8. Course(proc[p])'
  <2>1. CASE d = Idle
    BY <1>1, <1>3, <1>5, <1>6, <2>1, IdleCourses
  <2>2. CASE d # Idle
    <3>1. c.next \in {"exit", "reconciled", "gate", "seal"}
      BY <1>2, SyncingPlace
    <3>2. /\ Carries(c, d) /\ d.at \in {"append", "ref", "reconciled", "gate", "seal"}
          /\ d.at = "append" => d.kind = "mirror-sync"
      BY <1>2, <1>7, <2>2, <3>1 DEF Carries, Appending, Fields
    <3>3. ~Recording(d)
      BY <3>2 DEF Recording, Terminal
    <3>4. repo'.file = HeadTree(repo').ledger /\ Onward(repo, repo')
      BY <1>3, <1>5, <1>6
    <3> QED
      BY <1>1, <1>2, <1>3, <3>2, <3>3, <3>4, CourseCarries
  <2> QED
    BY <2>1, <2>2
<1>9. ASSUME NEW m \in Missions PROVE Quiet(m)
  BY <1>2 DEF OrderInv, Files, Quiet
<1>10. Pursues(proc[p], proc'[p]) /\ issued' \in 0 .. MaxCommands
  BY <1>1, <1>2, MirroringPursues DEF OrderInv
<1> QED
  BY <1>5, <1>6, <1>8, <1>9, <1>10, OrderStays

\* Nothing in a workpiece is left uncommitted: there is nothing to commit.
LEMMA NothingPending ==
  ASSUME OrderInv, RegisterInv, NEW m \in Missions, workpiece' = CommitWorkpiece(m)
  PROVE  /\ Content(m) = workpiece[m].edits
         /\ \A n \in Missions : workpiece'[n].at = workpiece[n].at /\ workpiece'[n].dirty = {}
                                /\ workpiece'[n].edits = workpiece[n].edits
<1>1. DOMAIN workpiece = Missions /\ DOMAIN workpiece[m] = WorkpieceFields
  BY DEF RegisterInv, StateOK, FilesOK
<1>2. \A n \in Missions : workpiece[n].dirty = {}
  BY DEF OrderInv, Files
<1>3. Content(m) = workpiece[m].edits
  BY <1>2 DEF Content
<1>4. PICK w, content : content = Content(m) /\ w = [workpiece[m] EXCEPT !.edits = content, !.dirty = {}]
  OBVIOUS
<1>5. w.at = workpiece[m].at /\ w.edits = content /\ w.dirty = {}
  BY <1>1, <1>4 DEF WorkpieceFields
<1>6. workpiece' = [workpiece EXCEPT ![m] = w]
  BY <1>1, <1>4 DEF CommitWorkpiece
<1> QED
  BY <1>1, <1>2, <1>3, <1>4, <1>5, <1>6

LEMMA ReconcileInOrder ==
  ASSUME Undisturbed, OrderInv, RegisterInv, NEW p \in Procs, Procs = {p}, ReconcileLocked(p)
  PROVE  OrderInv'
<1>1. PICK c, d, m : c = proc[p] /\ d = proc'[p] /\ m = c.m
  OBVIOUS
<1>2. /\ c.at = "lock" /\ c.cmd = "reconcile" /\ PlaceOK(c) /\ DOMAIN c = Fields
      /\ StateOK /\ HistoryOK(repo) /\ DOMAIN proc = Procs /\ UNCHANGED <<manifest, evidence>>
  BY <1>1 DEF ReconcileLocked, RegisterInv, StateOK, Places, PlaceOK
<1>3. m \in Missions /\ manifest[m].state = "open" /\ FilesOK(m)
  BY <1>1, <1>2 DEF PlaceOK, Place, Idle, Entered, On, StateOK
<1>4. Course(c) /\ Level(repo) /\ repo.file = HeadTree(repo).ledger
  BY <1>1, <1>2, CourseFacts
<1>5. CASE UNCHANGED <<workpiece, repo>> /\ Exit(p)
  BY <1>1, <1>2, <1>5, RefusedInOrder
<1>6. CASE ~(UNCHANGED <<workpiece, repo>> /\ Exit(p))
  <2>1. evidence[m].pre = None /\ CommitAll(repo) = repo /\ Fails("push") = {FALSE}
    BY <1>1, <1>2, <1>4, NothingToCommit DEF Course, Fails, Undisturbed
  <2>2. workpiece[m].at # None /\ workpiece' = CommitWorkpiece(m)
    BY <1>1, <1>6 DEF ReconcileLocked
  <2>3. /\ Content(m) = workpiece[m].edits
        /\ \A n \in Missions : workpiece'[n].at = workpiece[n].at /\ workpiece'[n].dirty = {}
                               /\ workpiece'[n].edits = workpiece[n].edits
    BY <1>3, <2>2, NothingPending
  <2>4. PICK at, edits, s : /\ at = workpiece[m].at /\ edits = workpiece[m].edits
                            /\ s = Push(MergeWorkpiece(repo, at, edits))
    OBVIOUS
  <2>5. PICK head : head = WorkpieceHead(workpiece'[m])
    OBVIOUS
  <2>6. \/ repo' = repo /\ Exit(p)
        \/ /\ repo' = s /\ issued' = issued
           /\ LET done == [c EXCEPT !.pre = repo.head, !.head = head]
              IN  d = Syncing(done, "reconciled") \/ d = [done EXCEPT !.at = "reconciled"]
    <3>1. CASE repo' = repo /\ Exit(p)
      BY <3>1
    <3>2. CASE ~(repo' = repo /\ Exit(p))
      <4>1. repo' = s
        <5>1. \E pushFails \in Fails("push") :
                repo' = IF pushFails THEN MergeWorkpiece(repo, at, Content(m))
                                     ELSE Push(MergeWorkpiece(repo, at, Content(m)))
          BY <1>1, <1>6, <2>1, <2>4, <3>2 DEF ReconcileLocked
        <5> QED
          BY <2>1, <2>3, <2>4, <5>1
      <4> DEFINE done == [c EXCEPT !.pre = repo.head, !.head = head]
      <4>2. Step(p, Syncing(done, "reconciled")) \/ Step(p, [done EXCEPT !.at = "reconciled"])
        BY <1>1, <1>6, <2>1, <2>5, <3>2 DEF ReconcileLocked
      <4> HIDE DEF done
      <4> QED
        BY <1>1, <1>2, <4>1, <4>2 DEF Step, done
    <3> QED
      BY <3>1, <3>2
  <2>7. CASE repo' = repo /\ Exit(p)
    <3>1. proc'[p] = Idle /\ issued' \in 0 .. MaxCommands
      BY <1>2, <2>7 DEF Exit, Step, OrderInv
    <3>2. Course(proc[p])' /\ Pursues(proc[p], proc'[p])
      BY <1>1, <1>2, <1>4, <2>7, <3>1, IdleCourses, LockedPursues
    <3>3. ASSUME NEW n \in Missions PROVE Quiet(n)
      BY <1>2, <2>3 DEF OrderInv, Files, Quiet
    <3>4. Level(repo') /\ Onward(repo, repo')
      BY <1>4, <2>7, OnwardReflexive
    <3> QED
      BY <2>7, <3>1, <3>2, <3>3, <3>4, OrderStays
  <2>8. CASE ~(repo' = repo /\ Exit(p))
    <3>1. repo' = s /\ issued' = issued
      BY <2>6, <2>8
    <3>2. /\ Level(s) /\ Onward(repo, s) /\ edits \subseteq HeadTree(s).edits
          /\ HeadTree(s).ledger = repo.file /\ s.file = repo.file /\ s.current = repo.current
      <4>1. at \in DOMAIN repo.objects /\ at # None /\ Forked(repo, at) /\ edits \in SUBSET Edits
        BY <1>3, <2>2, <2>4 DEF FilesOK, OrderInv, Files
      <4> QED
        BY <1>2, <1>4, <2>4, <4>1, WorkMerged
    <3>3. head[2] = edits
      BY <1>3, <2>3, <2>4, <2>5 DEF WorkpieceHead
    <3>4. /\ d.cmd = c.cmd /\ d.m = c.m /\ d.seen = c.seen /\ d.flags = c.flags /\ d.head = head
          /\ d.at \in {"sync", "reconciled"}
      BY <1>2, <2>6, <2>8 DEF Syncing, Fields
    <3>5. Course(proc[p])'
      <4>1. Started(c) /\ c.seen = manifest[c.m]
        BY <1>1, <1>2, <1>3, <1>4 DEF Started, Course
      <4>2. /\ d.seen = manifest'[d.m] /\ "skip-reconcile-check" \notin d.flags /\ d.cmd = "reconcile"
            /\ evidence'[d.m].pre = None
        BY <1>1, <1>2, <1>4, <2>1, <3>4, <4>1 DEF Course
      <4>3. ~Recording(d) /\ repo'.file = HeadTree(repo').ledger /\ Delivered(d.head)'
        BY <3>1, <3>2, <3>3, <3>4 DEF Recording, Delivered
      <4> QED
        BY <1>1, <3>4, <4>2, <4>3 DEF Course
    <3>6. ASSUME NEW n \in Missions PROVE Quiet(n)
      BY <1>2, <2>3 DEF OrderInv, Files, Quiet
    <3>7. issued' \in 0 .. MaxCommands /\ Pursues(proc[p], proc'[p])
      BY <1>1, <1>2, <3>1, LockedPursues DEF OrderInv
    <3> QED
      BY <3>1, <3>2, <3>5, <3>6, <3>7, OrderStays
  <2> QED
    BY <2>7, <2>8
<1> QED
  BY <1>5, <1>6

LEMMA ReconciledInOrder ==
  ASSUME OrderInv, RegisterInv, NEW p \in Procs, Procs = {p}, Reconciled(p)
  PROVE  OrderInv'
<1>1. PICK c, m : c = proc[p] /\ m = c.m
  OBVIOUS
<1>2. /\ c.at = "reconciled" /\ PlaceOK(c) /\ StateOK
      /\ UNCHANGED <<workpiece, repo>> /\ proc'[p] = Idle /\ issued' = issued
  BY <1>1 DEF Reconciled, ExitReleasing, Exit, Step, RegisterInv, StateOK, Places
<1>3. c.cmd = "reconcile" /\ Entered(c) /\ m \in Missions /\ manifest[m].state = "open"
  BY <1>1, <1>2 DEF PlaceOK, Place, Appends, Syncs, Ledgering, Mirroring, Idle, Entered, On
<1>4. Course(c) /\ Level(repo) /\ repo.file = HeadTree(repo).ledger
  BY <1>1, <1>2, CourseFacts
<1>5. Delivered(c.head) /\ c.seen \in Manifests /\ c.seen.state = "open"
  BY <1>2, <1>3, <1>4 DEF Course, PlaceOK, Entered
<1>6. manifest'[m].reconciled /\ \A n \in Missions :
        /\ manifest'[n].state = manifest[n].state
        /\ n # m => manifest'[n] = manifest[n]
  <2>1. PICK x : x = [c.seen EXCEPT !.reconciled = TRUE]
    OBVIOUS
  <2>2. x.state = "open" /\ x.reconciled = TRUE
    BY <1>5, <2>1 DEF Manifests
  <2>3. manifest' = [manifest EXCEPT ![m] = x]
    BY <1>1, <2>1 DEF Reconciled
  <2> QED
    BY <1>2, <1>3, <2>2, <2>3 DEF StateOK
<1>7. /\ evidence'[m].head = c.head /\ evidence'[m].validation = evidence[m].validation
      /\ \A n \in Missions : n # m => evidence'[n] = evidence[n]
  <2>1. PICK e : e = [evidence[m] EXCEPT !.pre = c.pre, !.head = c.head]
    OBVIOUS
  <2>2. DOMAIN evidence[m] = EvidenceFields /\ DOMAIN evidence = Missions
    BY <1>2, <1>3 DEF StateOK, FilesOK
  <2>3. e.head = c.head /\ e.validation = evidence[m].validation
    BY <2>1, <2>2 DEF EvidenceFields
  <2>4. evidence' = [evidence EXCEPT ![m] = e]
    BY <1>1, <1>3, <2>1, <2>2 DEF Reconciled
  <2> QED
    BY <1>3, <2>2, <2>3, <2>4
<1>8. ASSUME NEW n \in Missions PROVE Quiet(n)
  <2>1. CASE n = m
    BY <1>2, <1>3, <1>5, <1>6, <1>7, <2>1 DEF OrderInv, Files, Quiet, Delivered
  <2>2. CASE n # m
    BY <1>2, <1>6, <1>7, <2>2 DEF OrderInv, Files, Quiet
  <2> QED
    BY <2>1, <2>2
<1>9. Course(proc[p])'
  BY <1>2, <1>4, IdleCourses
<1>10. Pursues(c, Idle)
  BY <1>2, <1>3 DEF Pursues, Recording, Ending
<1>11. Level(repo') /\ Onward(repo, repo') /\ issued' \in 0 .. MaxCommands
  BY <1>2, <1>4, OnwardReflexive DEF OrderInv
<1> QED
  BY <1>1, <1>2, <1>8, <1>9, <1>10, <1>11, OrderStays
-----------------------------------------------------------------------------
(* mission.close and mission.abort.                                         *)

\* An opening nobody ended is not followed by a terminal entry.
LEMMA UnmatchedIsOpen ==
  ASSUME NEW ledger, Sound(ledger), Named(ledger), NEW x \in Unmatched(ledger)
  PROVE  x \in Missions /\ OpenedIn(ledger, x) /\ ~EndedIn(ledger, x)
<1>1. PICK j \in DOMAIN ledger :
        /\ ledger[j].mission = x /\ ledger[j].kind \in Opening
        /\ ~\E k \in OfMission(ledger, Terminal, x) : j < k
  BY DEF Unmatched
<1>2. x \in Missions /\ OpenedIn(ledger, x)
  BY <1>1 DEF Named, Opening, OpenedIn, OfMission
<1>3. ASSUME EndedIn(ledger, x) PROVE FALSE
  <2>1. PICK k \in OfMission(ledger, Terminal, x) : TRUE
    BY <1>3 DEF EndedIn
  <2>2. k \in DOMAIN ledger /\ ledger[k].mission = x /\ ledger[k].kind \in Terminal
    BY <2>1 DEF OfMission
  <2>3. OpenBefore(ledger, k)
    BY <2>2 DEF Sound, Orphans
  <2>4. PICK i \in OfMission(ledger, Opening, x) : i < k
    BY <2>2, <2>3 DEF OpenBefore
  <2>5. i = j
    BY <1>1, <2>4 DEF Sound, OfMission
  <2> QED
    BY <1>1, <2>1, <2>4, <2>5
<1> QED
  BY <1>2, <1>3

\* Whoever the ledger leaves open is the current mission, where no end is being written.
LEMMA UnmatchedIsCurrent ==
  ASSUME OrderInv, RegisterInv, NEW p \in Procs, ~Recording(proc[p]), NEW x \in Unmatched(repo.file)
  PROVE  x \in Missions /\ manifest[x].state = "open"
<1>1. Sound(repo.file) /\ Named(repo.file)
  BY DEF RegisterInv, Record, LedgersOf, OrderInv
<1>2. x \in Missions /\ OpenedIn(repo.file, x) /\ ~EndedIn(repo.file, x)
  BY <1>1, UnmatchedIsOpen
<1>3. Standing(proc[p], x) /\ manifest[x].state \in States
  BY <1>2 DEF OrderInv, RegisterInv, StateOK, Manifests
<1>4. ~HasTerminal(x)
  BY <1>2 DEF EndedIn, HasTerminal
<1> QED
  BY <1>2, <1>3, <1>4 DEF Standing, Ended, States

\* The ledger's own check, in the middle of a close, finds nothing.
LEMMA CheckPasses ==
  ASSUME OrderInv, RegisterInv, NEW p \in Procs, ~Recording(proc[p]), proc[p].cmd # "open"
  PROVE  Violations(repo.file, repo.current) = {}
<1>1. Sound(repo.file)
  BY DEF RegisterInv, Record, LedgersOf
<1>2. ASSUME NEW x \in Unmatched(repo.file) PROVE x = repo.current
  <2>1. x \in Missions /\ manifest[x].state = "open"
    BY UnmatchedIsCurrent
  <2> QED
    BY <2>1 DEF OrderInv, Standing
<1>3. Violations(repo.file, repo.current) \subseteq {"unmatched-mission-open"}
  BY <1>1, SoundIsValid
<1>4. "unmatched-mission-open" \notin Violations(repo.file, repo.current)
  BY <1>2 DEF Violations
<1> QED
  BY <1>3, <1>4

LEMMA CloseInOrder ==
  ASSUME Undisturbed, OrderInv, RegisterInv, NEW p \in Procs, Procs = {p}, CloseLocked(p)
  PROVE  OrderInv'
<1>1. PICK c, d, m : c = proc[p] /\ d = proc'[p] /\ m = c.m
  OBVIOUS
<1>2. c.at = "lock" /\ c.cmd = "close" /\ UNCHANGED manifest
  BY <1>1 DEF CloseLocked
<1>3. /\ DOMAIN c = Fields /\ m \in Missions /\ manifest[m].state = "open" /\ StateOK /\ HistoryOK(repo)
      /\ DOMAIN proc = Procs /\ FilesOK(m)
  BY <1>1, <1>2, ClosingPlace DEF Entered, On, StateOK
<1>4. Course(c) /\ Level(repo) /\ repo.file = HeadTree(repo).ledger
  BY <1>1, <1>2, CourseFacts
<1>5. CASE UNCHANGED <<evidence, workpiece, repo>> /\ Exit(p)
  BY <1>1, <1>2, <1>5, RefusedInOrder
<1>6. CASE ~(UNCHANGED <<evidence, workpiece, repo>> /\ Exit(p))
  <2>1. /\ workpiece' = CommitWorkpiece(m) /\ evidence' = CloseReport(m)
        /\ \/ UNCHANGED repo /\ Exit(p)
           \/ /\ FreshlyReconciled(m) \/ "skip-reconcile-check" \in c.flags
              /\ \E pushFails \in Fails("push") : repo' = IF pushFails THEN repo ELSE Push(repo)
              /\ Step(p, Syncing(c, "gate")) \/ Step(p, [c EXCEPT !.at = "gate"])
    BY <1>1, <1>6 DEF CloseLocked
  <2>2. CloseReport(m) = evidence
    BY <1>3 DEF CloseReport, OrderInv, Files
  <2>3. \A n \in Missions : workpiece'[n].at = workpiece[n].at /\ workpiece'[n].dirty = {}
                            /\ workpiece'[n].edits = workpiece[n].edits
    BY <1>3, <2>1, NothingPending
  <2>4. ASSUME NEW n \in Missions PROVE Quiet(n)
    BY <1>2, <2>1, <2>2, <2>3 DEF OrderInv, Files, Quiet
  <2>5. repo' \in {repo, Push(repo)}
    BY <2>1
  <2>6. PICK s : s = repo'
    OBVIOUS
  <2>7. /\ Level(s) /\ Onward(repo, s) /\ HeadTree(s) = HeadTree(repo)
        /\ s.file = repo.file /\ s.current = repo.current
    BY <1>3, <1>4, <2>5, <2>6, PublishedAgain, ZenonT(60)
  <2>8. issued' \in 0 .. MaxCommands /\ Pursues(proc[p], proc'[p])
    BY <1>1, <1>2, <2>1, LockedPursues DEF Exit, Step, OrderInv
  <2>9. CASE Exit(p)
    <3>1. proc'[p] = Idle
      BY <1>3, <2>9 DEF Exit, Step
    <3>2. Course(proc[p])'
      BY <1>4, <2>6, <2>7, <3>1, IdleCourses
    <3> QED
      BY <2>4, <2>6, <2>7, <2>8, <3>2, OrderStays
  <2>10. CASE ~Exit(p)
    <3>1. FreshlyReconciled(m)
      BY <1>4, <2>1, <2>10 DEF Course
    <3>2. evidence[m].head = <<workpiece[m].at, workpiece[m].edits>>
      <4>1. evidence[m].head = WorkpieceHead(workpiece'[m])
        BY <2>1, <2>2, <3>1 DEF FreshlyReconciled
      <4> QED
        BY <1>3, <2>3, <4>1 DEF WorkpieceHead
    <3>3. workpiece[m].edits \subseteq HeadTree(repo).edits
      <4>1. Files(m) /\ evidence[m].head # <<>> /\ evidence[m].head[2] = workpiece[m].edits
        BY <1>3, <3>2 DEF OrderInv
      <4> QED
        BY <4>1 DEF Files, Delivered
    <3>4. d = Syncing(c, "gate") \/ d = [c EXCEPT !.at = "gate"]
      BY <1>1, <1>3, <2>1, <2>10 DEF Step
    <3>5. Carries(c, d) /\ d.at \in {"sync", "gate"}
      BY <1>3, <3>4 DEF Carries, Syncing, Fields
    <3>6. Course(proc[p])'
      <4>1. Started(c) /\ c.seen = manifest[c.m]
        BY <1>1, <1>2, <1>3, <1>4 DEF Started, Course
      <4>2. /\ d.seen = manifest'[d.m] /\ "skip-reconcile-check" \notin d.flags
            /\ d.cmd = "close" /\ d.m = m
        BY <1>1, <1>2, <1>4, <3>5, <4>1 DEF Course, Carries
      <4>3. workpiece'[m].edits \subseteq evidence'[m].validated
        BY <1>1, <1>2, <1>3, <1>4, <2>1, <2>2, <2>3 DEF Course
      <4>4. workpiece'[m].edits \subseteq HeadTree(repo').edits
        BY <1>3, <2>3, <2>6, <2>7, <3>3
      <4>5. ~Recording(d) /\ repo'.file = HeadTree(repo').ledger
        BY <1>4, <2>6, <2>7, <3>5 DEF Recording
      <4> QED
        BY <1>1, <3>5, <4>2, <4>3, <4>4, <4>5 DEF Course
    <3> QED
      BY <2>4, <2>6, <2>7, <2>8, <3>6, OrderStays
  <2> QED
    BY <2>9, <2>10
<1> QED
  BY <1>5, <1>6

\* The mission has ended; its terminal entry is on its way.
LEMMA EndInOrder ==
  ASSUME OrderInv, RegisterInv, NEW p \in Procs, Procs = {p}, NEW c, c = proc[p], c.cmd # "open",
         NEW m, m = c.m, m \in Missions, manifest[m].state = "open", c.seen \in Manifests,
         UNCHANGED <<evidence, workpiece, repo>>, c.at \in {"gate", "lock"},
         NEW end \in {"closed", "aborted"},
         manifest' = [manifest EXCEPT ![m] = [c.seen EXCEPT !.state = end]],
         NEW d, d = proc'[p], Carries(c, d), Recording(d), Ending(d), d.at = "append",
         c.cmd = "close" => c.at = "gate", c.cmd # "reconcile",
         end = "closed" => c.cmd = "close", issued' = issued
  PROVE  OrderInv'
<1>1. /\ Course(c) /\ Level(repo) /\ repo.file = HeadTree(repo).ledger /\ StateOK /\ Record
      /\ ~Recording(c)
  BY CourseFacts DEF RegisterInv, Recording
<1>2. c.seen = manifest[m]
  BY <1>1 DEF Course, Started
<1>3. /\ manifest'[m].state = end /\ manifest'[m].reconciled = manifest[m].reconciled
      /\ \A n \in Missions : n # m => manifest'[n] = manifest[n]
  <2>1. PICK x : x = [c.seen EXCEPT !.state = end]
    OBVIOUS
  <2>2. x.state = end /\ x.reconciled = c.seen.reconciled
    BY <2>1 DEF Manifests
  <2>3. manifest' = [manifest EXCEPT ![m] = x]
    BY <2>1
  <2> QED
    BY <1>1, <1>2, <2>2, <2>3 DEF StateOK
<1>4. ~HasTerminal(m) /\ \A n : HasTerminal(n)' <=> HasTerminal(n)
  BY <1>1 DEF Record, LedgersOf, EndedIn, HasTerminal
<1>5. c.cmd = "close" => workpiece[m].edits \subseteq HeadTree(repo).edits \cap evidence[m].validated
  BY <1>1 DEF Course
<1>6. Course(proc[p])'
  <2>1. ~Started(d)'
    BY <1>3 DEF Started, Carries
  <2>2. "skip-reconcile-check" \notin d.flags /\ d.cmd = c.cmd /\ d.m = m
    BY <1>1 DEF Course, Carries
  <2>3. d.cmd = "close" => workpiece'[m].edits \subseteq HeadTree(repo').edits
    BY <1>5, <2>2
  <2>4. ~HasTerminal(d.m)'
    BY <1>4, <2>2
  <2>5. ~(d.cmd = "close" /\ manifest'[d.m].state = "open")
    BY <1>3, <2>2
  <2> QED
    BY <1>1, <2>1, <2>2, <2>3, <2>4, <2>5 DEF Course, Started
<1>7. ASSUME NEW n \in Missions PROVE Files(n)'
  <2>1. Files(n) /\ manifest'[n].reconciled = manifest[n].reconciled
    BY <1>3 DEF OrderInv
  <2> QED
    BY <2>1 DEF Files, Delivered
<1>8. ASSUME NEW n \in Missions PROVE Standing(proc[p], n)'
  <2>1. Standing(c, n)
    BY DEF OrderInv
  <2>2. CASE n = m
    <3>1. manifest'[n].state \notin {"none", "open"} /\ d.m = n
      BY <1>3, <2>2 DEF Carries
    <3>2. manifest'[n].state = "closed" =>
            workpiece'[n].edits \subseteq HeadTree(repo').edits \cap evidence'[n].validated
      BY <1>3, <1>5, <2>2
    <3> QED
      BY <3>1, <3>2 DEF Standing
  <2>3. CASE n # m
    <3>1. manifest'[n] = manifest[n] /\ (Ended(n)' <=> Ended(n))
      BY <1>3, <2>3 DEF Ended
    <3>2. c.m # n
      BY <2>3
    <3> QED
      BY <1>1, <1>4, <2>1, <3>1, <3>2 DEF Standing
  <2> QED
    BY <2>2, <2>3
<1>9. Level(repo') /\ Named(repo'.file) /\ issued' \in 0 .. MaxCommands
  BY DEF OrderInv
<1> QED
  BY <1>6, <1>7, <1>8, <1>9 DEF OrderInv

LEMMA GateInOrder ==
  ASSUME OrderInv, RegisterInv, NEW p \in Procs, Procs = {p}, CloseGate(p)
  PROVE  OrderInv'
<1>1. PICK c, d, m : c = proc[p] /\ d = proc'[p] /\ m = c.m
  OBVIOUS
<1>2. /\ c.at = "gate" /\ c.cmd = "close" /\ UNCHANGED <<evidence, workpiece, repo>>
      /\ DOMAIN c = Fields /\ m \in Missions /\ manifest[m].state = "open" /\ c.seen \in Manifests
      /\ DOMAIN proc = Procs
  BY <1>1, ClosingPlace DEF CloseGate, Entered, On, RegisterInv, StateOK
<1>3. Level(repo) /\ repo.file = HeadTree(repo).ledger /\ ~Recording(c)
  BY <1>1, <1>2, CourseFacts DEF Recording
<1>4. Violations(repo.file, repo.current) = {} /\ Readable(repo)
  BY <1>1, <1>2, <1>3, CheckPasses, NothingToCommit
<1>5. CASE UNCHANGED manifest /\ Exit(p)
  <2>1. d = Idle /\ issued' \in 0 .. MaxCommands
    BY <1>1, <1>2, <1>5 DEF Exit, Step, OrderInv
  <2>2. Course(proc[p])'
    BY <1>1, <1>2, <1>3, <2>1, IdleCourses
  <2>3. Pursues(c, d)
    BY <1>2, <1>3 DEF Pursues, Ending, Ledgering
  <2> QED
    BY <1>1, <1>2, <1>5, <2>1, <2>2, <2>3, OnlyMoves
<1>6. CASE ~(UNCHANGED manifest /\ Exit(p))
  <2>1. /\ manifest' = [manifest EXCEPT ![m] = [c.seen EXCEPT !.state = "closed"]]
        /\ d = Appending(c, "mission-close", "audit") /\ issued' = issued
    BY <1>1, <1>2, <1>4, <1>6 DEF CloseGate, ExitReleasing, Step
  <2>2. Carries(c, d) /\ d.at = "append" /\ d.kind = "mission-close" /\ d.ret = "audit"
    BY <1>2, <2>1 DEF Appending, Carries, Fields
  <2>3. Recording(d) /\ Ending(d)
    BY <1>2, <2>2 DEF Recording, Ending, Carries, Terminal, Ledgering
  <2> QED
    BY <1>1, <1>2, <2>1, <2>2, <2>3, EndInOrder
<1> QED
  BY <1>5, <1>6

LEMMA AbortInOrder ==
  ASSUME OrderInv, RegisterInv, NEW p \in Procs, Procs = {p}, AbortLocked(p)
  PROVE  OrderInv'
<1>1. PICK c, d, m : c = proc[p] /\ d = proc'[p] /\ m = c.m
  OBVIOUS
<1>2. /\ c.at = "lock" /\ c.cmd = "abort" /\ UNCHANGED <<evidence, workpiece, repo>>
      /\ DOMAIN c = Fields /\ m \in Missions /\ manifest[m].state = "open" /\ c.seen \in Manifests
      /\ DOMAIN proc = Procs
  BY <1>1, ClosingPlace DEF AbortLocked, Entered, On, RegisterInv, StateOK
<1>3. CASE UNCHANGED manifest /\ Exit(p)
  BY <1>1, <1>2, <1>3, RefusedInOrder
<1>4. CASE ~(UNCHANGED manifest /\ Exit(p))
  <2>1. /\ manifest' = [manifest EXCEPT ![m] = [c.seen EXCEPT !.state = "aborted"]]
        /\ d = Appending(c, "mission-abort", "aborted") /\ issued' = issued
    BY <1>1, <1>2, <1>4 DEF AbortLocked, Step
  <2>2. Carries(c, d) /\ d.at = "append" /\ d.kind = "mission-abort" /\ d.ret = "aborted"
    BY <1>2, <2>1 DEF Appending, Carries, Fields
  <2>3. Recording(d) /\ Ending(d)
    BY <1>2, <2>2 DEF Recording, Ending, Carries, Terminal
  <2> QED
    BY <1>1, <1>2, <2>1, <2>2, <2>3, EndInOrder
<1> QED
  BY <1>3, <1>4

LEMMA AuditInOrder ==
  ASSUME OrderInv, RegisterInv, NEW p \in Procs, Procs = {p}, CloseAudit(p)
  PROVE  OrderInv'
<1>1. PICK c, d : c = proc[p] /\ d = proc'[p]
  OBVIOUS
<1>2. /\ c.at = "audit" /\ c.cmd = "close" /\ UNCHANGED <<manifest, evidence, workpiece, repo>>
      /\ DOMAIN c = Fields /\ DOMAIN proc = Procs
  BY <1>1, ClosingPlace DEF CloseAudit, RegisterInv, StateOK
<1>3. Course(c) /\ Level(repo) /\ repo.file = HeadTree(repo).ledger /\ c.result # "refused"
  BY <1>1, <1>2, CourseFacts DEF Course
<1>4. /\ d = Appending(c, "mission-close", "archive") \/ d = [c EXCEPT !.at = "archive"]
      /\ issued' = issued
  BY <1>1, <1>2, <1>3 DEF CloseAudit, Step, Goto
<1>5. /\ Carries(c, d) /\ d.at \in {"append", "archive"}
      /\ d.at = "append" => d.kind = "mission-close" /\ d.ret = "archive"
  BY <1>2, <1>4 DEF Carries, Appending, Fields
<1>6. ~Recording(c) /\ ~Recording(d) /\ Ending(d)
  BY <1>2, <1>5 DEF Recording, Ending, Carries, Ledgering
<1>7. Course(proc[p])'
  BY <1>1, <1>2, <1>3, <1>5, <1>6, OnwardReflexive, CourseCarries
<1>8. Pursues(c, d)
  BY <1>2, <1>5, <1>6 DEF Pursues, Carries
<1>9. issued' \in 0 .. MaxCommands
  BY <1>4 DEF OrderInv
<1> QED
  BY <1>1, <1>2, <1>7, <1>8, <1>9, OnlyMoves

LEMMA ArchiveInOrder ==
  ASSUME OrderInv, RegisterInv, NEW p \in Procs, Procs = {p}, CloseArchive(p)
  PROVE  OrderInv'
<1>1. PICK c, d, m : c = proc[p] /\ d = proc'[p] /\ m = c.m
  OBVIOUS
<1>2. /\ c.at = "archive" /\ c.cmd = "close" /\ UNCHANGED <<manifest, workpiece, repo>>
      /\ DOMAIN c = Fields /\ DOMAIN proc = Procs /\ m \in Missions /\ manifest[m].state = "closed"
  BY <1>1, ClosingPlace DEF CloseArchive, RegisterInv, StateOK, On
<1>3. Course(c) /\ Level(repo) /\ repo.file = HeadTree(repo).ledger
  BY <1>1, <1>2, CourseFacts
<1>4. d = [c EXCEPT !.at = "settle"] /\ issued' = issued
  BY <1>1, <1>2 DEF CloseArchive, Goto, Step
<1>5. Carries(c, d) /\ d.at = "settle"
  BY <1>2, <1>4 DEF Carries, Fields
<1>6. \A n \in Missions :
        /\ evidence'[n].validation = evidence[n].validation
        /\ evidence'[n].validated = evidence[n].validated
        /\ evidence'[n].pre = evidence[n].pre /\ evidence'[n].head = evidence[n].head
  <2>0. c = proc[p] /\ CloseArchive(p)
    BY <1>1
  <2>1. PICK failed \in Fails("evidence") :
          evidence' = [evidence EXCEPT
            ![c.m].report = IF "skip-evidence-sync" \in c.flags THEN "skipped" ELSE "synced",
            ![c.m].archived = ~failed /\ "skip-evidence-sync" \notin c.flags]
    BY <2>0 DEF CloseArchive
  <2>2. PICK report, archived :
          /\ report = IF "skip-evidence-sync" \in c.flags THEN "skipped" ELSE "synced"
          /\ archived = (~failed /\ "skip-evidence-sync" \notin c.flags)
    OBVIOUS
  <2>3. evidence' = [evidence EXCEPT ![c.m].report = report, ![c.m].archived = archived]
    BY <2>1, <2>2, Zenon
  <2>4. DOMAIN evidence = Missions /\ DOMAIN evidence[m] = EvidenceFields
    BY <1>2 DEF RegisterInv, StateOK, FilesOK
  <2>5. PICK e : e = [evidence[m] EXCEPT !.report = report, !.archived = archived]
    OBVIOUS
  <2>6. /\ e.validation = evidence[m].validation /\ e.validated = evidence[m].validated
        /\ e.pre = evidence[m].pre /\ e.head = evidence[m].head
    BY <2>4, <2>5 DEF EvidenceFields
  <2>7. evidence' = [evidence EXCEPT ![m] = e]
    BY <1>1, <2>3, <2>4, <2>5
  <2> QED
    BY <1>2, <2>4, <2>6, <2>7
<1>7. Course(proc[p])'
  <2>1. ~Started(d)' /\ ~Recording(d)
    BY <1>1, <1>2, <1>5 DEF Started, Carries, Recording
  <2>2. "skip-reconcile-check" \notin d.flags /\ d.cmd = "close" /\ d.m = m
    BY <1>1, <1>2, <1>3, <1>5 DEF Course, Carries
  <2>3. workpiece'[m].edits \subseteq HeadTree(repo').edits
    BY <1>1, <1>2, <1>3 DEF Course
  <2> QED
    BY <1>1, <1>2, <1>3, <1>5, <2>1, <2>2, <2>3 DEF Course
<1>8. ASSUME NEW n \in Missions PROVE Quiet(n)
  BY <1>2, <1>6 DEF OrderInv, Files, Quiet
<1>9. Pursues(c, d)
  BY <1>2, <1>5 DEF Pursues, Recording, Ending, Carries
<1>10. Level(repo') /\ Onward(repo, repo') /\ issued' \in 0 .. MaxCommands
  BY <1>2, <1>3, <1>4, OnwardReflexive DEF OrderInv
<1> QED
  BY <1>1, <1>2, <1>7, <1>8, <1>9, <1>10, OrderStays

\* The system's state stops naming the mission.
Forgetting(r, m, s) == s = IF r.current = m THEN WriteState(r, None, TRUE) ELSE r

LEMMA StateForgets ==
  ASSUME NEW r, HistoryOK(r), Level(r), NEW m, NEW s, Forgetting(r, m, s)
  PROVE  /\ Level(s) /\ Onward(r, s)
         /\ HeadTree(s).ledger = HeadTree(r).ledger /\ s.file = r.file
         /\ s.current = IF r.current = m THEN None ELSE r.current
<1>1. CASE r.current # m
  BY <1>1, OnwardReflexive DEF Forgetting
<1>2. CASE r.current = m
  <2>1. PICK none : none = None
    OBVIOUS
  <2>2. s = WriteState(r, none, TRUE) /\ none \in Missions \cup {None}
    BY <1>2, <2>1 DEF Forgetting
  <2>3. /\ Level(s) /\ Onward(r, s)
        /\ HeadTree(s).ledger = HeadTree(r).ledger /\ s.file = r.file /\ s.current = none
    BY <2>2, StateWritten
  <2> QED
    BY <1>2, <2>1, <2>3
<1> QED
  BY <1>1, <1>2

LEMMA Forgotten ==
  ASSUME OrderInv, RegisterInv, NEW p \in Procs, Procs = {p}, NEW c, c = proc[p],
         c.cmd \in {"close", "abort"}, c.at \notin {"commit", "append", "write"}, NEW m \in Missions, m = c.m,
         manifest[m].state \in {"closed", "aborted"}, UNCHANGED <<manifest, evidence, workpiece>>,
         NEW s, s = repo', Forgetting(repo, m, s)
  PROVE  /\ Level(s) /\ Onward(repo, s) /\ s.file = HeadTree(s).ledger /\ Named(s.file)
         /\ \A n \in Missions : Files(n)' /\ Standing(proc[p], n)'
<1>1. /\ HistoryOK(repo) /\ Level(repo) /\ repo.file = HeadTree(repo).ledger
      /\ None \in Missions \cup {None}
  BY CourseFacts DEF RegisterInv, StateOK
<1>2. /\ Level(s) /\ Onward(repo, s)
      /\ HeadTree(s).ledger = HeadTree(repo).ledger /\ s.file = repo.file
      /\ s.current = IF repo.current = m THEN None ELSE repo.current
  BY <1>1, StateForgets
<1>3. Named(s.file)
  BY <1>2 DEF OrderInv
<1>4. ASSUME NEW n \in Missions PROVE Files(n)'
  <2>1. Quiet(n)
    BY DEF OrderInv, Files, Quiet
  <2> QED
    BY <1>2, <2>1, FilesFollow
<1>5. ASSUME NEW n \in Missions PROVE Standing(proc[p], n)'
  <2>1. Standing(c, n) /\ ~Recording(c) /\ n # None
    BY LifecycleAssumption DEF OrderInv, Recording, Missions, None
  <2>2. (HasTerminal(n)' <=> HasTerminal(n)) /\ (Ended(n)' <=> Ended(n))
    BY <1>2 DEF HasTerminal, Ended
  <2>3. manifest[n].state = "open" => repo.current = n /\ n # m
    BY <2>1 DEF Standing
  <2>4. s.current = n => repo.current = n /\ n # m
    BY <1>2, <2>1
  <2>5. HeadTree(repo).edits \subseteq HeadTree(s).edits
    BY <1>2 DEF Onward
  <2>6. s.current = n => manifest[n].state = "open"
    BY <2>1, <2>4 DEF Standing
  <2>7. manifest[n].state = "open" => s.current = n
    BY <1>2, <2>3
  <2>8. OpenedIn(s.file, n) => manifest[n].state # "none"
    BY <1>2, <2>1 DEF Standing
  <2>9. Ended(n)' => HasTerminal(n)'
    BY <2>1, <2>2 DEF Standing
  <2>10. manifest[n].state = "closed" =>
           workpiece[n].edits \subseteq HeadTree(s).edits \cap evidence[n].validated
    BY <2>1, <2>5 DEF Standing
  <2> QED
    BY <2>6, <2>7, <2>8, <2>9, <2>10 DEF Standing
<1> QED
  BY <1>1, <1>2, <1>3, <1>4, <1>5

LEMMA SettleInOrder ==
  ASSUME Undisturbed, OrderInv, RegisterInv, NEW p \in Procs, Procs = {p}, CloseSettle(p)
  PROVE  OrderInv'
<1>1. PICK c, d, m : c = proc[p] /\ d = proc'[p] /\ m = c.m
  OBVIOUS
<1>2. /\ c.at = "settle" /\ c.cmd = "close" /\ UNCHANGED <<manifest, evidence, workpiece>>
      /\ DOMAIN c = Fields /\ DOMAIN proc = Procs /\ m \in Missions /\ manifest[m].state = "closed"
  BY <1>1, ClosingPlace DEF CloseSettle, RegisterInv, StateOK, On
<1>3. Fails("push") = {FALSE} /\ Fails("pin") = {FALSE}
  BY DEF Fails, Undisturbed
<1>4. PICK s : s = repo'
  OBVIOUS
<1>5. Forgetting(repo, m, s)
  BY <1>1, <1>3, <1>4 DEF CloseSettle, Forgetting
<1>6. /\ Level(s) /\ Onward(repo, s) /\ s.file = HeadTree(s).ledger /\ Named(s.file)
      /\ \A n \in Missions : Files(n)' /\ Standing(proc[p], n)'
  BY <1>1, <1>2, <1>4, <1>5, Forgotten
<1>7. (d = Syncing(c, "seal") \/ d = [c EXCEPT !.at = "seal"]) /\ issued' = issued
  BY <1>1, <1>2, <1>3 DEF CloseSettle, Step
<1>8. Carries(c, d) /\ d.at \in {"sync", "seal"}
  BY <1>2, <1>7 DEF Carries, Syncing, Fields
<1>9. Course(proc[p])'
  BY <1>1, <1>2, <1>4, <1>6, <1>8, CourseCarries DEF Recording
<1>10. issued' \in 0 .. MaxCommands
  BY <1>7 DEF OrderInv
<1> QED
  BY <1>4, <1>6, <1>9, <1>10 DEF OrderInv

LEMMA AbortedInOrder ==
  ASSUME Undisturbed, OrderInv, RegisterInv, NEW p \in Procs, Procs = {p}, Aborted(p)
  PROVE  OrderInv'
<1>1. PICK c, m : c = proc[p] /\ m = c.m
  OBVIOUS
<1>2. /\ c.at = "aborted" /\ c.cmd = "abort" /\ UNCHANGED <<manifest, evidence, workpiece>>
      /\ proc'[p] = Idle /\ issued' = issued /\ m \in Missions /\ manifest[m].state = "aborted"
  BY <1>1, ClosingPlace DEF Aborted, ExitReleasing, Exit, Step, RegisterInv, StateOK, On
<1>3. Fails("push") = {FALSE} /\ c.result = "pushed"
  BY <1>1, <1>2, CourseFacts DEF Fails, Undisturbed, Course
<1>4. PICK s : s = repo'
  OBVIOUS
<1>5. Forgetting(repo, m, s)
  BY <1>1, <1>3, <1>4 DEF Aborted, Forgetting
<1>6. /\ Level(s) /\ Onward(repo, s) /\ s.file = HeadTree(s).ledger /\ Named(s.file)
      /\ \A n \in Missions : Files(n)' /\ Standing(proc[p], n)'
  BY <1>1, <1>2, <1>4, <1>5, Forgotten
<1>7. Course(proc[p])'
  BY <1>2, <1>4, <1>6, IdleCourses
<1>8. issued' \in 0 .. MaxCommands
  BY <1>2 DEF OrderInv
<1> QED
  BY <1>4, <1>6, <1>7, <1>8 DEF OrderInv

LEMMA SealInOrder ==
  ASSUME OrderInv, RegisterInv, NEW p \in Procs, Procs = {p}, CloseSeal(p)
  PROVE  OrderInv'
<1>1. PICK c, m : c = proc[p] /\ m = c.m
  OBVIOUS
<1>2. /\ c.at = "seal" /\ c.cmd = "close" /\ UNCHANGED <<manifest, evidence>>
      /\ proc'[p] = Idle /\ issued' = issued /\ m \in Missions /\ manifest[m].state = "closed"
      /\ HistoryOK(repo) /\ FilesOK(m) /\ DOMAIN workpiece = Missions
  BY <1>1, ClosingPlace DEF CloseSeal, ExitReleasing, Exit, Step, RegisterInv, StateOK, On
<1>3. Level(repo) /\ repo.file = HeadTree(repo).ledger
  BY <1>1, <1>2, CourseFacts
<1>4. PICK s : s = CommitTree(repo, HeadTree(repo), {repo.head})
  OBVIOUS
<1>5. repo' = s
  BY <1>3, <1>4, NothingToCommit DEF CloseSeal
<1>6. /\ Level(s) /\ Onward(repo, s)
      /\ HeadTree(s).ledger = HeadTree(repo).ledger /\ s.file = repo.file /\ s.current = repo.current
  BY <1>2, <1>3, <1>4, SealCommitted
<1>7. \A n \in Missions : workpiece'[n].at = workpiece[n].at /\ workpiece'[n].dirty = workpiece[n].dirty
                          /\ workpiece'[n].edits = workpiece[n].edits
  <2>1. PICK w : w = [workpiece[m] EXCEPT !.sealed = TRUE]
    OBVIOUS
  <2>2. w.at = workpiece[m].at /\ w.dirty = workpiece[m].dirty /\ w.edits = workpiece[m].edits
    BY <1>2, <2>1 DEF FilesOK, WorkpieceFields
  <2>3. workpiece' = [workpiece EXCEPT ![m] = w]
    BY <1>1, <1>2, <2>1 DEF CloseSeal
  <2> QED
    BY <1>2, <2>2, <2>3
<1>8. ASSUME NEW n \in Missions PROVE Quiet(n)
  BY <1>2, <1>7 DEF OrderInv, Files, Quiet
<1>9. Course(proc[p])'
  BY <1>2, <1>3, <1>5, <1>6, IdleCourses
<1>10. Pursues(c, Idle)
  BY <1>2 DEF Pursues, Recording, Ending, Ledgering
<1>11. issued' \in 0 .. MaxCommands
  BY <1>2 DEF OrderInv
<1> QED
  BY <1>1, <1>2, <1>5, <1>6, <1>8, <1>9, <1>10, <1>11, OrderStays

-----------------------------------------------------------------------------

LEMMA InitOrder == ASSUME Init PROVE OrderInv
<1>1. /\ DOMAIN repo.objects = {1} /\ repo.head = 1 /\ repo.file = <<>> /\ repo.current = None
      /\ repo.rebase = "none" /\ repo.origin = 1 /\ repo.external = 1 /\ repo.mirror = 1
      /\ repo.objects[1] = [ledger |-> <<>>, current |-> None, edits |-> {}, parent |-> 0, older |-> {}]
  BY DEF Init, FreshRepository
<1>2. Level(repo)
  BY <1>1 DEF Level, HeadTree, Tree, Ancestors, Same
<1>3. HeadTree(repo).ledger = <<>> /\ Named(repo.file) /\ \A m : ~OpenedIn(repo.file, m)
  BY <1>1 DEF HeadTree, Named, OpenedIn, OfMission
<1>4. ASSUME NEW m \in Missions PROVE Files(m)
  BY DEF Init, Files, NoEvidence, NoWorkpiece, Forked
<1>5. ASSUME NEW p \in Procs PROVE Course(proc[p])
  <2>1. PICK c : c = proc[p]
    OBVIOUS
  <2>2. c.at = "idle" /\ c.cmd = "none" /\ c.m = None /\ c.flags = {}
    BY <2>1 DEF Init, Idle
  <2>3. None \notin Missions
    BY LifecycleAssumption DEF Missions, None
  <2> QED
    BY <1>1, <1>3, <2>1, <2>2, <2>3 DEF Course, Recording, Started
<1>6. ASSUME NEW p \in Procs, NEW m \in Missions PROVE Standing(proc[p], m)
  <2>1. manifest[m].state = "none" /\ repo.current # m
    BY <1>1, LifecycleAssumption DEF Init, NoManifest, Missions, None
  <2> QED
    BY <1>3, <2>1 DEF Standing, Ended
<1> QED
  BY <1>2, <1>3, <1>4, <1>5, <1>6, LifecycleAssumption DEF OrderInv, Init

LEMMA OrderUnchanged ==
  ASSUME OrderInv, UNCHANGED <<manifest, evidence, workpiece, repo, proc, issued>>
  PROVE  OrderInv'
<1>1. \A m \in Missions : Files(m)'
  BY DEF OrderInv, Files, Delivered
<1>2. ASSUME NEW p \in Procs PROVE Course(proc[p])'
  BY DEF OrderInv, Course, Started, Delivered, HasTerminal
<1>3. ASSUME NEW p \in Procs, NEW m \in Missions PROVE Standing(proc[p], m)'
  BY DEF OrderInv, Standing, Ended, HasTerminal, Ending
<1> QED
  BY <1>1, <1>2, <1>3 DEF OrderInv

LEMMA OrderStep ==
  ASSUME Undisturbed, OrderInv, RegisterInv, [Next]_vars, unsaid' = {} PROVE OrderInv'
<1>1. CASE UNCHANGED vars
  BY <1>1, OrderUnchanged DEF vars
<1>2. ASSUME NEW p \in Procs, Begin(p) \/ Continue(p) PROVE OrderInv'
  <2>1. Procs = {p}
    BY <1>2 DEF Undisturbed, Solo
  <2>2. CASE Begin(p)
    BY <2>1, <2>2, BeginInOrder
  <2>3. CASE LockRefused(p) \/ ReconcileUnvalidated(p)
    BY <2>1, <2>3, RefusedInOrder DEF LockRefused, ReconcileUnvalidated
  <2>4. CASE AppendRead(p) \/ AppendSilenced(p) \/ AppendWrite(p) \/ CommitLedgerStep(p)
    BY <2>1, <2>4, AppendReadInOrder, AppendSilencedInOrder, AppendWriteInOrder, CommitLedgerInOrder
  <2>5. CASE OpenLocked(p) \/ Opened(p) \/ MaterializeLocked(p) \/ Materialized(p)
    BY <2>1, <2>5, OpenInOrder, OpenedInOrder, MaterializeInOrder, MaterializedInOrder
  <2>6. CASE SyncPush(p) \/ SyncMirrors(p) \/ SyncRef(p) \/ ReconcileLocked(p) \/ Reconciled(p)
    BY <2>1, <2>6, SyncsInOrder, ReconcileInOrder, ReconciledInOrder
  <2>7. CASE \/ CloseLocked(p) \/ CloseGate(p) \/ CloseAudit(p) \/ CloseArchive(p)
             \/ CloseSettle(p) \/ CloseSeal(p)
    BY <2>1, <2>7, CloseInOrder, GateInOrder, AuditInOrder, ArchiveInOrder, SettleInOrder, SealInOrder
  <2>8. CASE AbortLocked(p) \/ Aborted(p)
    BY <2>1, <2>8, AbortInOrder, AbortedInOrder
  <2> QED
    BY <1>2, <2>2, <2>3, <2>4, <2>5, <2>6, <2>7, <2>8 DEF Continue
<1>3. ASSUME NEW p \in Procs, Crash(p) PROVE OrderInv'
  BY <1>3 DEF Crash, Undisturbed, Solo
<1>4. ASSUME NEW l \in Missions \cup {SystemLock}, RecoverLock(l) PROVE OrderInv'
  BY <1>4, OrderUnchanged DEF RecoverLock
<1> QED
  BY <1>1, <1>2, <1>3, <1>4 DEF Next

\* What the ledger refused to word stays so.
LEMMA UnsaidGrows == ASSUME [Next]_vars PROVE unsaid \subseteq unsaid'
<1>1. CASE UNCHANGED vars
  BY <1>1 DEF vars
<1>2. ASSUME NEW p \in Procs, Begin(p) PROVE UNCHANGED unsaid
  BY <1>2 DEF Begin, OpenPreflight, OpenRepair, SyncStart, MaterializeStart, ReconcileStart,
              CloseStart, AbortStart, Start, Issue, Edit, GitCommit, Validate
<1>3. ASSUME NEW p \in Procs, Continue(p) PROVE unsaid \subseteq unsaid'
  <2>1. CASE AppendSilenced(p)
    BY <2>1 DEF AppendSilenced
  <2>2. CASE LockRefused(p) \/ AppendRead(p) \/ AppendWrite(p) \/ CommitLedgerStep(p)
    BY <2>2 DEF LockRefused, AppendRead, AppendWrite, CommitLedgerStep, Exit, ExitReleasing, Step
  <2>3. CASE OpenLocked(p) \/ Opened(p) \/ MaterializeLocked(p) \/ Materialized(p)
    BY <2>3 DEF OpenLocked, Opened, MaterializeLocked, Materialized, Exit, ExitReleasing, Step
  <2>4. CASE SyncPush(p) \/ SyncMirrors(p) \/ SyncRef(p) \/ ReconcileUnvalidated(p)
    BY <2>4 DEF SyncPush, SyncMirrors, SyncRef, ReconcileUnvalidated, Goto, Exit, ExitReleasing, Step
  <2>5. CASE ReconcileLocked(p) \/ Reconciled(p) \/ AbortLocked(p) \/ Aborted(p)
    BY <2>5 DEF ReconcileLocked, Reconciled, AbortLocked, Aborted, Exit, ExitReleasing, Step
  <2>6. CASE CloseLocked(p) \/ CloseGate(p) \/ CloseAudit(p)
    BY <2>6 DEF CloseLocked, CloseGate, CloseAudit, Goto, Exit, ExitReleasing, Step
  <2>7. CASE CloseArchive(p) \/ CloseSettle(p) \/ CloseSeal(p)
    BY <2>7 DEF CloseArchive, CloseSettle, CloseSeal, Goto, Exit, ExitReleasing, Step
  <2> QED
    BY <1>3, <2>1, <2>2, <2>3, <2>4, <2>5, <2>6, <2>7 DEF Continue
<1>4. ASSUME NEW p \in Procs, Crash(p) PROVE UNCHANGED unsaid
  BY <1>4 DEF Crash, Exit, Step
<1>5. ASSUME NEW l \in Missions \cup {SystemLock}, RecoverLock(l) PROVE UNCHANGED unsaid
  BY <1>5 DEF RecoverLock
<1> QED
  BY <1>1, <1>2, <1>3, <1>4, <1>5 DEF Next

LEMMA OrderHolds == ASSUME Undisturbed PROVE Spec => []((unsaid = {} => OrderInv) /\ RegisterInv)
<1>1. Init => OrderInv
  BY InitOrder
<1>2. (unsaid = {} => OrderInv) /\ RegisterInv /\ [Next]_vars => (unsaid' = {} => OrderInv')
  <2>1. [Next]_vars /\ unsaid' = {} => unsaid = {}
    BY UnsaidGrows
  <2> QED
    BY <2>1, OrderStep
<1>3. Spec => []RegisterInv
  BY RegisterHolds DEF Undisturbed
<1>4. (unsaid = {} => OrderInv)' <=> (unsaid' = {} => OrderInv')
  OBVIOUS
<1> QED
  BY <1>1, <1>2, <1>3, <1>4, PTL DEF Spec

-----------------------------------------------------------------------------
(* What holds between two commands.                                         *)

\* With no command running, no terminal entry is on its way.
LEMMA Resting ==
  ASSUME Undisturbed, OrderInv, RegisterInv, Quiescent
  PROVE  \A m \in Missions :
           /\ Ended(m) => HasTerminal(m)
           /\ manifest[m].state = "open" <=> repo.current = m
<1>1. PICK p \in Procs : Procs = {p}
  BY DEF Undisturbed, Solo
<1>2. proc[p] = Idle
  BY IdleIs DEF Quiescent
<1>3. ~Recording(proc[p]) /\ ~Ending(proc[p]) /\ proc[p].cmd # "open"
  BY <1>2 DEF Idle, Recording, Ending
<1>4. \A m \in Missions : Standing(proc[p], m)
  BY DEF OrderInv
<1> QED
  BY <1>3, <1>4 DEF Standing

\* While the bare repository can be reached and the ledger has refused the wording
\* of no abort: a mission the ledger or the system's state holds open, no command
\* running, can still be acted on.
THEOREM NobodyStaysStranded ==
  ASSUME Undisturbed PROVE Spec => [](unsaid = {} => NobodyIsStranded)
<1>1. ASSUME OrderInv, RegisterInv, unsaid = {} PROVE NobodyIsStranded
  <2> SUFFICES ASSUME Quiescent PROVE \A m \in Unmatched(repo.file) \cup ({repo.current} \ {None}) :
                                        manifest[m].state = "open"
    BY DEF NobodyIsStranded
  <2>1. PICK p \in Procs : Procs = {p}
    BY DEF Undisturbed, Solo
  <2>2. ~Recording(proc[p])
    BY DEF Quiescent, Recording
  <2>3. \A m \in Unmatched(repo.file) : manifest[m].state = "open"
    BY <1>1, <2>2, UnmatchedIsCurrent
  <2>4. repo.current \in Missions \cup {None}
    BY <1>1 DEF RegisterInv, StateOK, HistoryOK, Repositories
  <2> QED
    BY <1>1, <2>3, <2>4, Resting
<1> QED
  BY <1>1, OrderHolds, PTL

\* While the bare repository can be reached and the ledger has refused the wording
\* of no abort: the open mission, no command running, is the one the system's state
\* names, by which mission.open refuses a second one.
THEOREM OpenMissionStaysCurrent ==
  ASSUME Undisturbed PROVE Spec => [](unsaid = {} => OpenMissionIsCurrent)
<1>1. ASSUME OrderInv, RegisterInv, unsaid = {} PROVE OpenMissionIsCurrent
  BY <1>1, Resting DEF OpenMissionIsCurrent
<1> QED
  BY <1>1, OrderHolds, PTL

\* While the bare repository can be reached and the ledger has refused the wording
\* of no abort: a mission has ended, no command running, exactly when the ledger
\* has its terminal entry.
THEOREM EndsAreOnRecord ==
  ASSUME Undisturbed PROVE Spec => [](unsaid = {} => EndIsOnRecord)
<1>1. ASSUME OrderInv, RegisterInv, unsaid = {} PROVE EndIsOnRecord
  <2>1. \A m \in Missions : HasTerminal(m) => Ended(m)
    BY <1>1 DEF RegisterInv, Record, LedgersOf, EndedIn, HasTerminal, Ended
  <2> QED
    BY <1>1, <2>1, Resting DEF EndIsOnRecord, Ended
<1> QED
  BY <1>1, OrderHolds, PTL

\* While the bare repository can be reached and the ledger has refused the wording
\* of no abort: a closed mission's commits are in the clone, and a validation saw
\* every one of them.
THEOREM ClosedWorkStaysSound ==
  ASSUME Undisturbed PROVE Spec => [](unsaid = {} => ClosedWorkIsSound)
<1>1. ASSUME OrderInv, RegisterInv, unsaid = {}, WriterInv PROVE ClosedWorkIsSound
  <2>1. PICK p \in Procs : Procs = {p}
    BY DEF Undisturbed, Solo
  <2>2. \A m \in Missions : Standing(proc[p], m) /\ Files(m) /\ FilesOK(m)
    BY <1>1 DEF OrderInv, RegisterInv, StateOK
  <2>3. ClosedWorkIsDelivered /\ ClosedWorkWasValidated
    BY <2>2 DEF Standing, ClosedWorkIsDelivered, ClosedWorkWasValidated
  <2>4. HistoryOK(repo) /\ Level(repo) /\ repo \in Repositories
    BY <1>1 DEF RegisterInv, StateOK, OrderInv, HistoryOK
  <2>5. DOMAIN repo.objects = 1 .. Len(repo.objects) /\ Len(repo.objects) \in Nat
    BY <2>4 DEF Repositories
  <2>6. \A m \in Missions :
          /\ evidence[m].validation \in {"none", "passed", "failed"}
          /\ evidence[m].pre \in 0 .. Len(repo.objects)
          /\ workpiece[m].at \in 0 .. Len(repo.objects)
    BY <2>2, <2>5 DEF Files, FilesOK, None
  <2>7. \A m \in Missions : Content(m) \subseteq Edits
    BY <1>1, ContentIsEdits
  <2>8. {repo.head, repo.origin, repo.external, repo.mirror} \subseteq DOMAIN repo.objects
        /\ repo.current \in Missions \cup {None}
    BY <2>4 DEF HistoryOK, Level, Repositories
  <2>9. /\ manifest \in [Missions -> Manifests] /\ issued \in 0 .. MaxCommands
        /\ lock \in [Missions \cup {SystemLock} -> Procs \cup {"free", "stale"}]
        /\ \A q \in Procs : proc[q].seen \in Manifests /\ proc[q].m \in Missions \cup {None}
        /\ \A i \in DOMAIN repo.file : repo.file[i].mission \in Missions \/ repo.file[i].kind = "mirror-sync"
    BY <1>1 DEF RegisterInv, StateOK, OrderInv, Named, WriterInv, Locks, Places, PlaceOK
  <2> QED
    BY <1>1, <2>3, <2>6, <2>7, <2>8, <2>9 DEF ClosedWorkIsSound, TypeOK
<1> QED
  BY <1>1, OrderHolds, WriterHolds, PTL
-----------------------------------------------------------------------------
(* The ledger of the bare repository only grows.                            *)

LEMMA PrefixIs ==
  ASSUME NEW X, NEW s \in Seq(X), NEW t \in Seq(X)
  PROVE  IsPrefix(s, t) <=> Len(s) <= Len(t) /\ \A i \in 1 .. Len(s) : s[i] = t[i]
<1>1. /\ Len(s) \in Nat /\ Len(t) \in Nat
      /\ SubSeq(s, 1, Len(s)) = [i \in 1 .. Len(s) |-> s[i]]
  OBVIOUS
<1>2. ASSUME Len(s) <= Len(t)
      PROVE  SubSeq(t, 1, Len(s)) = [i \in 1 .. Len(s) |-> t[i]]
  BY <1>1, <1>2
<1> QED
  BY <1>1, <1>2 DEF IsPrefix

LEMMA PrefixReflexive == ASSUME NEW s \in Ledgers PROVE IsPrefix(s, s)
BY PrefixIs DEF Ledgers

LEMMA PrefixTransitive ==
  ASSUME NEW s \in Ledgers, NEW t \in Ledgers, NEW u \in Ledgers, IsPrefix(s, t), IsPrefix(t, u)
  PROVE  IsPrefix(s, u)
<1> DEFINE X == [kind : Kinds, mission : 0 .. MaxMissions, prev : Nat]
<1>1. s \in Seq(X) /\ t \in Seq(X) /\ u \in Seq(X)
  BY DEF Ledgers
<1> HIDE DEF X
<1>2. Len(s) \in Nat /\ Len(t) \in Nat /\ Len(u) \in Nat
  BY <1>1
<1>3. Len(s) <= Len(t) /\ \A i \in 1 .. Len(s) : s[i] = t[i]
  BY <1>1, PrefixIs
<1>4. Len(t) <= Len(u) /\ \A i \in 1 .. Len(t) : t[i] = u[i]
  BY <1>1, PrefixIs
<1>5. Len(s) <= Len(u) /\ \A i \in 1 .. Len(s) : s[i] = u[i]
  BY <1>2, <1>3, <1>4
<1> QED
  BY <1>1, <1>5, PrefixIs

LEMMA PrefixLonger ==
  ASSUME NEW s \in Ledgers, NEW e, Append(s, e) \in Ledgers
  PROVE  IsPrefix(s, Append(s, e))
<1> DEFINE X == [kind : Kinds, mission : 0 .. MaxMissions, prev : Nat]
<1>1. s \in Seq(X) /\ Append(s, e) \in Seq(X)
  BY DEF Ledgers
<1> HIDE DEF X
<1>2. PICK t : t = Append(s, e)
  OBVIOUS
<1>3. Len(s) \in Nat /\ Len(t) = Len(s) + 1 /\ \A i \in 1 .. Len(s) : t[i] = s[i]
  BY <1>1, <1>2
<1>4. IsPrefix(s, t)
  <2>1. t \in Seq(X)
    BY <1>1, <1>2
  <2>2. Len(s) <= Len(t) /\ \A i \in 1 .. Len(s) : s[i] = t[i]
    BY <1>3
  <2> QED
    BY <1>1, <2>1, <2>2, PrefixIs
<1> QED
  BY <1>2, <1>4

\* A commit says what its ancestors say, and the working tree what HEAD says.
Chained(r) ==
  \A c \in DOMAIN r.objects : \A a \in Ancestors(r, c) : IsPrefix(Tree(r, a).ledger, Tree(r, c).ledger)
Lined(r) == Chained(r) /\ IsPrefix(HeadTree(r).ledger, r.file)

\* What the clone and the bare repository both say.
Both(r, l) == IsPrefix(l, HeadTree(r).ledger) /\ IsPrefix(l, Tree(r, r.origin).ledger)

\* The bare repository loses no entry, and neither side one that both had.
Gains(r, s) ==
  /\ HistoryOK(s) /\ Lined(s)
  /\ DOMAIN r.objects \subseteq DOMAIN s.objects
  /\ \A c \in DOMAIN r.objects : s.objects[c] = r.objects[c]
  /\ IsPrefix(Tree(r, r.origin).ledger, Tree(s, s.origin).ledger)
  /\ \A l \in Ledgers : Both(r, l) => Both(s, l)

LEMMA LedgersAre ==
  ASSUME NEW r, HistoryOK(r)
  PROVE  /\ r.head \in DOMAIN r.objects /\ r.origin \in DOMAIN r.objects
         /\ HeadTree(r) = Tree(r, r.head) /\ r.file \in Ledgers
         /\ \A c \in DOMAIN r.objects : Tree(r, c).ledger \in Ledgers
BY HistoryFacts DEF HistoryOK

LEMMA GainsReflexive == ASSUME NEW r, HistoryOK(r), Lined(r) PROVE Gains(r, r)
BY LedgersAre, PrefixReflexive DEF Gains

LEMMA GainsTransitive ==
  ASSUME NEW r, HistoryOK(r), NEW s, Gains(r, s), NEW t, Gains(s, t)
  PROVE  Gains(r, t)
<1>1. /\ Tree(r, r.origin).ledger \in Ledgers /\ Tree(s, s.origin).ledger \in Ledgers
      /\ Tree(t, t.origin).ledger \in Ledgers
  BY LedgersAre DEF Gains
<1>2. IsPrefix(Tree(r, r.origin).ledger, Tree(t, t.origin).ledger)
  BY <1>1, PrefixTransitive DEF Gains
<1>3. \A c \in DOMAIN r.objects : t.objects[c] = r.objects[c]
  BY DEF Gains
<1> QED
  BY <1>2, <1>3 DEF Gains

\* A move of the branches, or of the working tree, that records nothing.
LEMMA MovesGain ==
  ASSUME NEW r, HistoryOK(r), Chained(r), NEW s, HistoryOK(s), s.objects = r.objects,
         \/ s.head = r.head /\ Lined(r) /\ IsPrefix(r.file, s.file)
         \/ s.file = HeadTree(s).ledger,
         IsPrefix(Tree(r, r.origin).ledger, Tree(r, s.origin).ledger),
         \A l \in Ledgers : Both(r, l) =>
           IsPrefix(l, Tree(r, s.head).ledger) /\ IsPrefix(l, Tree(r, s.origin).ledger)
  PROVE  Gains(r, s)
<1>1. \A c : Tree(s, c) = Tree(r, c) /\ Ancestors(s, c) = Ancestors(r, c)
  BY DEF Tree, Ancestors
<1>2. Chained(s)
  BY <1>1 DEF Chained
<1>3. HeadTree(s) = Tree(r, s.head) /\ HeadTree(s).ledger \in Ledgers /\ s.file \in Ledgers
  BY <1>1, LedgersAre
<1>4. IsPrefix(HeadTree(s).ledger, s.file)
  <2>1. CASE s.file = HeadTree(s).ledger
    BY <1>3, <2>1, PrefixReflexive
  <2>2. CASE s.head = r.head /\ Lined(r) /\ IsPrefix(r.file, s.file)
    <3>1. HeadTree(r) = HeadTree(s) /\ r.file \in Ledgers /\ IsPrefix(HeadTree(r).ledger, r.file)
      BY <1>3, <2>2, LedgersAre DEF Lined
    <3> QED
      BY <1>3, <2>2, <3>1, PrefixTransitive
  <2> QED
    BY <2>1, <2>2
<1>5. \A l \in Ledgers : Both(r, l) => Both(s, l)
  BY <1>1, <1>3 DEF Both
<1> QED
  BY <1>1, <1>2, <1>4, <1>5 DEF Gains, Lined

LEMMA CommitChains ==
  ASSUME NEW r, HistoryOK(r), Chained(r), NEW tree \in Trees,
         NEW P \in SUBSET DOMAIN r.objects, r.head \in P,
         \A p \in P : IsPrefix(Tree(r, p).ledger, tree.ledger),
         NEW s, s = CommitTree(r, tree, P)
  PROVE  Chained(s)
<1>1. /\ HistoryOK(s) /\ DOMAIN s.objects = DOMAIN r.objects \cup {s.head}
      /\ s.head \notin DOMAIN r.objects
  BY CommitTreeFacts
<1>2. \A c \in DOMAIN r.objects : Tree(s, c) = Tree(r, c) /\ Ancestors(s, c) = Ancestors(r, c)
  BY CommitTreeFacts DEF Tree
<1>3. Tree(s, s.head).ledger = tree.ledger /\ tree.ledger \in Ledgers
  BY CommitTreeFacts DEF Trees
<1>4. \A a : a \in Ancestors(s, s.head) <=> a = s.head \/ \E p \in P : a \in Ancestors(r, p)
  BY CommitTreeFacts
<1>5. ASSUME NEW c \in DOMAIN s.objects, NEW a \in Ancestors(s, c)
      PROVE  IsPrefix(Tree(s, a).ledger, Tree(s, c).ledger)
  <2>1. CASE c \in DOMAIN r.objects
    <3>1. a \in Ancestors(r, c) /\ a \in DOMAIN r.objects
      BY <1>2, <1>5, <2>1, LinesAreNested
    <3> QED
      BY <1>2, <2>1, <3>1 DEF Chained
  <2>2. CASE c = s.head /\ a = s.head
    BY <1>3, <2>2, PrefixReflexive
  <2>3. CASE c = s.head /\ a # s.head
    <3>1. PICK p \in P : a \in Ancestors(r, p)
      BY <1>4, <1>5, <2>3
    <3>2. p \in DOMAIN r.objects /\ a \in DOMAIN r.objects
      BY <3>1, LinesAreNested
    <3>3. IsPrefix(Tree(r, a).ledger, Tree(r, p).ledger) /\ IsPrefix(Tree(r, p).ledger, tree.ledger)
      BY <3>1, <3>2 DEF Chained
    <3>4. Tree(r, a).ledger \in Ledgers /\ Tree(r, p).ledger \in Ledgers
      BY <3>2, LedgersAre
    <3>5. IsPrefix(Tree(r, a).ledger, tree.ledger)
      BY <1>3, <3>3, <3>4, PrefixTransitive
    <3> QED
      BY <1>2, <1>3, <2>3, <3>2, <3>5
  <2> QED
    BY <1>1, <2>1, <2>2, <2>3
<1> QED
  BY <1>5 DEF Chained

\* A commit on top of HEAD.
LEMMA CommitGains ==
  ASSUME NEW r, HistoryOK(r), Lined(r), NEW tree \in Trees,
         IsPrefix(HeadTree(r).ledger, tree.ledger), IsPrefix(tree.ledger, r.file),
         NEW s, s = CommitTree(r, tree, {r.head})
  PROVE  Gains(r, s) /\ s.file = r.file
<1>1. PICK P : P = {r.head}
  OBVIOUS
<1>2. P \in SUBSET DOMAIN r.objects /\ r.head \in P /\ s = CommitTree(r, tree, P)
      /\ HeadTree(r) = Tree(r, r.head) /\ r.origin \in DOMAIN r.objects
  BY <1>1, LedgersAre
<1>3. /\ HistoryOK(s) /\ DOMAIN r.objects \subseteq DOMAIN s.objects
      /\ \A c \in DOMAIN r.objects : s.objects[c] = r.objects[c]
      /\ Tree(s, s.head).ledger = tree.ledger
      /\ s.file = r.file /\ s.origin = r.origin
  BY <1>2, CommitTreeFacts
<1>4. Chained(s)
  <2>1. \A p \in P : IsPrefix(Tree(r, p).ledger, tree.ledger)
    BY <1>1, <1>2
  <2> QED
    BY <1>2, <2>1, CommitChains DEF Lined
<1>5. /\ HeadTree(s).ledger = tree.ledger /\ tree.ledger \in Ledgers
      /\ HeadTree(r).ledger \in Ledgers
      /\ Tree(s, s.origin) = Tree(r, r.origin) /\ Tree(r, r.origin).ledger \in Ledgers
  <2>1. tree.ledger \in Ledgers
    BY DEF Trees
  <2>2. HeadTree(s) = Tree(s, s.head)
    BY DEF HeadTree, Tree
  <2>3. Tree(s, s.origin) = Tree(r, r.origin)
    <3>1. s.origin = r.origin /\ s.objects[r.origin] = r.objects[r.origin]
      BY <1>2, <1>3
    <3> QED
      BY <3>1 DEF Tree
  <2>4. HeadTree(r).ledger \in Ledgers /\ Tree(r, r.origin).ledger \in Ledgers
    BY <1>2, LedgersAre
  <2> QED
    BY <1>3, <2>1, <2>2, <2>3, <2>4
<1>6. \A l \in Ledgers : Both(r, l) => Both(s, l)
  BY <1>5, PrefixTransitive DEF Both
<1> QED
  BY <1>3, <1>4, <1>5, <1>6, PrefixReflexive DEF Gains, Lined

LEMMA PushGains ==
  ASSUME NEW r, HistoryOK(r), Lined(r)
  PROVE  Gains(r, Push(r))
<1>1. PICK s : s = Push(r)
  OBVIOUS
<1>2. /\ HistoryOK(s) /\ s.objects = r.objects /\ s.head = r.head /\ s.file = r.file
      /\ s.origin = IF r.rebase = "none" /\ r.origin \in Ancestors(r, r.head)
                      THEN r.head ELSE r.origin
  BY <1>1, PushFacts
<1>3. r.head \in DOMAIN r.objects /\ r.origin \in DOMAIN r.objects /\ HeadTree(r) = Tree(r, r.head)
      /\ r.file \in Ledgers /\ Tree(r, r.origin).ledger \in Ledgers
  BY LedgersAre
<1>4. IsPrefix(Tree(r, r.origin).ledger, Tree(r, s.origin).ledger)
  BY <1>2, <1>3, PrefixReflexive DEF Lined, Chained
<1>5. \A l \in Ledgers : Both(r, l) =>
        IsPrefix(l, Tree(r, s.head).ledger) /\ IsPrefix(l, Tree(r, s.origin).ledger)
  BY <1>2, <1>3 DEF Both
<1>6. IsPrefix(r.file, s.file)
  BY <1>2, <1>3, PrefixReflexive
<1>7. Gains(r, s)
  BY <1>2, <1>4, <1>5, <1>6, MovesGain DEF Lined
<1> QED
  BY <1>1, <1>7

LEMMA CommitLedgerGains ==
  ASSUME NEW r, HistoryOK(r), Lined(r), NEW s, s = CommitLedger(r)
  PROVE  Gains(r, s)
<1> DEFINE tree == [HeadTree(r) EXCEPT !.ledger = r.file]
<1>1. HeadTree(r) \in Trees /\ r.file \in Ledgers
  BY HistoryFacts DEF HistoryOK, Repositories
<1>2. tree \in Trees /\ tree.ledger = r.file
  BY <1>1 DEF Trees
<1>3. s = CommitTree(r, tree, {r.head})
  BY DEF CommitLedger
<1> HIDE DEF tree
<1>4. IsPrefix(HeadTree(r).ledger, tree.ledger) /\ IsPrefix(tree.ledger, r.file)
  BY <1>1, <1>2, PrefixReflexive DEF Lined
<1> QED
  BY <1>2, <1>3, <1>4, CommitGains

LEMMA CommitAllGains ==
  ASSUME NEW r, HistoryOK(r), Lined(r), NEW s, s = CommitAll(r)
  PROVE  Gains(r, s)
<1>1. CASE ~Dirty(r)
  BY <1>1, GainsReflexive DEF CommitAll
<1>2. CASE Dirty(r)
  <2> DEFINE tree == [HeadTree(r) EXCEPT !.ledger = r.file, !.current = r.current]
  <2>1. HeadTree(r) \in Trees /\ r.file \in Ledgers /\ r.current \in Missions \cup {None}
    BY HistoryFacts DEF HistoryOK, Repositories
  <2>2. tree \in Trees /\ tree.ledger = r.file
    BY <2>1 DEF Trees
  <2>3. s = CommitTree(r, tree, {r.head})
    BY <1>2 DEF CommitAll
  <2> HIDE DEF tree
  <2>4. IsPrefix(HeadTree(r).ledger, tree.ledger) /\ IsPrefix(tree.ledger, r.file)
    BY <2>1, <2>2, PrefixReflexive DEF Lined
  <2> QED
    BY <2>2, <2>3, <2>4, CommitGains
<1> QED
  BY <1>1, <1>2

\* A commit that says what HEAD says.
LEMMA SameGains ==
  ASSUME NEW r, HistoryOK(r), Lined(r), NEW tree \in Trees, tree.ledger = HeadTree(r).ledger,
         NEW s, s = CommitTree(r, tree, {r.head})
  PROVE  Gains(r, s)
<1>1. tree.ledger \in Ledgers
  BY DEF Trees
<1>2. IsPrefix(HeadTree(r).ledger, tree.ledger) /\ IsPrefix(tree.ledger, r.file)
  BY <1>1, PrefixReflexive DEF Lined
<1> QED
  BY <1>2, CommitGains

LEMMA WriteStateGains ==
  ASSUME NEW r, HistoryOK(r), Lined(r), NEW m \in Missions \cup {None}, NEW reachable \in BOOLEAN,
         NEW s, s = WriteState(r, m, reachable)
  PROVE  Gains(r, s)
<1> DEFINE written == [r EXCEPT !.current = m]
           tree == [HeadTree(r) EXCEPT !.current = m]
<1>1. /\ HistoryOK(written) /\ written.objects = r.objects /\ written.file = r.file
      /\ written.head = r.head /\ written.origin = r.origin
  <2>1. written \in Repositories /\ written.objects = r.objects /\ written.file = r.file
        /\ written.head = r.head /\ written.origin = r.origin
    BY DEF HistoryOK, Repositories
  <2>2. \A a : Ancestors(written, a) = Ancestors(r, a)
    BY <2>1 DEF Ancestors
  <2> HIDE DEF written
  <2> QED
    BY <2>1, <2>2 DEF HistoryOK
<1>2. tree \in Trees /\ tree.ledger = HeadTree(r).ledger
  BY HistoryFacts DEF Trees
<1> DEFINE commit == IF Readable(r) /\ HeadTree(r).current # m
                       THEN CommitTree(written, tree, {r.head}) ELSE written
<1>3. s = IF reachable THEN Push(commit) ELSE commit
  BY DEF WriteState
<1> HIDE DEF written, tree
<1>4. Gains(r, written)
  <2>1. Tree(r, r.origin).ledger \in Ledgers /\ r.file \in Ledgers /\ HeadTree(r) = Tree(r, r.head)
    BY LedgersAre
  <2>2. IsPrefix(r.file, written.file) /\ IsPrefix(Tree(r, r.origin).ledger, Tree(r, written.origin).ledger)
    BY <1>1, <2>1, PrefixReflexive
  <2>3. \A l \in Ledgers : Both(r, l) =>
          IsPrefix(l, Tree(r, written.head).ledger) /\ IsPrefix(l, Tree(r, written.origin).ledger)
    BY <1>1, <2>1 DEF Both
  <2> QED
    BY <1>1, <2>2, <2>3, MovesGain DEF Lined
<1>5. Gains(written, CommitTree(written, tree, {r.head}))
  <2>1. HeadTree(written) = HeadTree(r) /\ Lined(written)
    BY <1>1, <1>4 DEF Gains, HeadTree
  <2> QED
    BY <1>1, <1>2, <2>1, SameGains
<1>6. Gains(r, commit)
  BY <1>4, <1>5, GainsTransitive DEF commit
<1> HIDE DEF commit
<1>7. Gains(r, Push(commit))
  <2>1. Gains(commit, Push(commit))
    BY <1>6, PushGains DEF Gains
  <2> QED
    BY <1>6, <2>1, GainsTransitive
<1> QED
  BY <1>3, <1>6, <1>7

\* The clone's own entries go on top of those the bare repository has.
LEMMA PullGains ==
  ASSUME NEW r, HistoryOK(r), Lined(r), NEW s, s = PullRebase(r)
  PROVE  Gains(r, s)
<1> DEFINE base == MergeBase(r, r.head, r.origin)
           up == r.objects[r.origin]
           mine == HeadTree(r)
           merged == [up EXCEPT !.ledger = ThreeWay(base.ledger, mine.ledger, up.ledger),
                                !.current = ThreeWay(base.current, mine.current, up.current),
                                !.edits = mine.edits \cup up.edits]
           back == Checkout(r, r.origin)
           onto == CommitTree(back, merged, {r.origin})
<1>1. /\ r.head \in DOMAIN r.objects /\ r.origin \in DOMAIN r.objects
      /\ mine = Tree(r, r.head) /\ up = Tree(r, r.origin) /\ mine \in Trees /\ up \in Trees
      /\ mine.ledger \in Ledgers /\ up.ledger \in Ledgers
  <2>1. r.head \in DOMAIN r.objects /\ r.origin \in DOMAIN r.objects /\ mine = Tree(r, r.head)
    BY LedgersAre
  <2>2. up = Tree(r, r.origin)
    BY DEF Tree
  <2> HIDE DEF mine, up
  <2> QED
    BY <2>1, <2>2, HistoryFacts, LedgersAre
<1>2. HistoryOK(s) /\ s.origin = r.origin
  BY PullCases
<1>3. \/ s = r \/ s = back \/ s = [back EXCEPT !.rebase = "conflict"]
      \/ ~Clash(base.ledger, mine.ledger, up.ledger) /\ s = Checkout(onto, onto.head)
  BY DEF PullRebase
<1>4. /\ HistoryOK(back) /\ back.objects = r.objects /\ back.head = r.origin /\ back.origin = r.origin
      /\ back.file = up.ledger /\ HeadTree(back) = up
      /\ \A a : Ancestors(back, a) = Ancestors(r, a)
  BY <1>1, CheckoutFacts DEF Tree
<1>5. \A l \in Ledgers : Both(r, l) => IsPrefix(l, up.ledger)
  BY <1>1 DEF Both
<1>6. PICK c \in Ancestors(r, r.head) \cap Ancestors(r, r.origin) : base = Tree(r, c) /\ c \in DOMAIN r.objects
  BY <1>1, MergeBaseFacts
<1>7. base \in Trees /\ base.ledger \in Ledgers /\ IsPrefix(base.ledger, mine.ledger)
  <2>1. IsPrefix(Tree(r, c).ledger, Tree(r, r.head).ledger)
    BY <1>1, <1>6 DEF Lined, Chained
  <2> HIDE DEF base, mine
  <2> QED
    BY <1>1, <1>6, <2>1, HistoryFacts, LedgersAre
<1> HIDE DEF back, base, mine, up
<1>8. merged \in Trees /\ merged.ledger = ThreeWay(base.ledger, mine.ledger, up.ledger)
  <2>1. /\ ThreeWay(base.ledger, mine.ledger, up.ledger) \in Ledgers
        /\ ThreeWay(base.current, mine.current, up.current) \in Missions \cup {None}
        /\ mine.edits \cup up.edits \in SUBSET Edits
    BY <1>1, <1>7 DEF ThreeWay, Trees
  <2> QED
    BY <1>1, <2>1 DEF Trees
<1> HIDE DEF merged
<1>9. CASE s = r
  BY <1>9, GainsReflexive
<1>10. CASE s = back \/ s = [back EXCEPT !.rebase = "conflict"]
  <2>1. s.objects = r.objects /\ s.head = r.origin /\ s.file = up.ledger
    BY <1>4, <1>10 DEF HistoryOK, Repositories
  <2>2. s.file = HeadTree(s).ledger /\ Tree(r, r.origin) = up
    BY <1>1, <2>1 DEF HeadTree, Tree
  <2>3. IsPrefix(Tree(r, r.origin).ledger, Tree(r, s.origin).ledger)
    BY <1>1, <1>2, PrefixReflexive
  <2> QED
    BY <1>2, <1>5, <2>1, <2>2, <2>3, MovesGain DEF Lined
<1>11. CASE ~Clash(base.ledger, mine.ledger, up.ledger) /\ s = Checkout(onto, onto.head)
  <2>1. IsPrefix(up.ledger, merged.ledger)
    <3>1. mine.ledger = base.ledger => merged.ledger = up.ledger
      BY <1>8 DEF ThreeWay
    <3>2. mine.ledger # base.ledger =>
            merged.ledger = mine.ledger /\ (up.ledger = base.ledger \/ up.ledger = mine.ledger)
      BY <1>8, <1>11 DEF ThreeWay, Clash
    <3> QED
      BY <1>1, <1>7, <3>1, <3>2, PrefixReflexive
  <2>2. PICK P : P = {r.origin}
    OBVIOUS
  <2>3. P \in SUBSET DOMAIN back.objects /\ back.head \in P /\ onto = CommitTree(back, merged, P)
    BY <1>1, <1>4, <2>2
  <2> HIDE DEF onto
  <2>4. /\ HistoryOK(onto) /\ onto.head \in DOMAIN onto.objects
        /\ DOMAIN back.objects \subseteq DOMAIN onto.objects
        /\ \A x \in DOMAIN back.objects : onto.objects[x] = back.objects[x]
        /\ Tree(onto, onto.head).ledger = merged.ledger /\ onto.origin = back.origin
    BY <1>4, <1>8, <2>3, CommitTreeFacts
  <2>5. \A x : Tree(back, x) = Tree(r, x)
    BY <1>4 DEF Tree
  <2>6. Chained(back)
    BY <1>4, <2>5 DEF Lined, Chained
  <2>7. Chained(onto)
    <3>1. \A p \in P : IsPrefix(Tree(back, p).ledger, merged.ledger)
      BY <1>1, <2>1, <2>2, <2>5
    <3> QED
      BY <1>4, <1>8, <2>3, <2>6, <3>1, CommitChains
  <2>8. /\ s.objects = onto.objects /\ s.head = onto.head /\ s.file = merged.ledger
        /\ HeadTree(s).ledger = merged.ledger
        /\ \A a : Ancestors(s, a) = Ancestors(onto, a)
    BY <1>11, <2>4, CheckoutFacts
  <2>9. merged.ledger \in Ledgers
    BY <1>8 DEF Trees
  <2>10. Lined(s)
    <3>1. Chained(s)
      BY <2>7, <2>8 DEF Chained, Tree
    <3> QED
      BY <2>8, <2>9, <3>1, PrefixReflexive DEF Lined
  <2>11. DOMAIN r.objects \subseteq DOMAIN s.objects /\ \A x \in DOMAIN r.objects : s.objects[x] = r.objects[x]
    BY <1>4, <2>4, <2>8
  <2>12. Tree(s, s.origin) = up
    BY <1>1, <1>2, <2>11 DEF Tree
  <2>13. \A l \in Ledgers : Both(r, l) => Both(s, l)
    <3>1. ASSUME NEW l \in Ledgers, Both(r, l) PROVE Both(s, l)
      <4>1. IsPrefix(l, up.ledger)
        BY <1>5, <3>1
      <4>2. IsPrefix(l, merged.ledger)
        BY <1>1, <2>1, <2>9, <4>1, PrefixTransitive
      <4> QED
        BY <2>8, <2>12, <4>1, <4>2 DEF Both
    <3> QED
      BY <3>1
  <2> QED
    BY <1>1, <1>2, <2>10, <2>11, <2>12, <2>13, PrefixReflexive DEF Gains
<1> QED
  BY <1>3, <1>9, <1>10, <1>11

LEMMA RecordedGains ==
  ASSUME NEW r, HistoryOK(r), Lined(r), NEW s \in Recorded(r)
  PROVE  Gains(r, s)
<1>1. PICK t : t = CommitLedger(r)
  OBVIOUS
<1>2. Gains(r, t) /\ HistoryOK(t) /\ Lined(t)
  BY <1>1, CommitLedgerGains DEF Gains
<1>3. Gains(t, PullAndPush(t))
  <2>1. Gains(t, PullRebase(t))
    BY <1>2, PullGains
  <2>2. Gains(PullRebase(t), Push(PullRebase(t)))
    BY <2>1, PushGains DEF Gains
  <2> QED
    BY <1>2, <2>1, <2>2, GainsReflexive, GainsTransitive DEF PullAndPush
<1> QED
  BY <1>1, <1>2, <1>3, GainsTransitive DEF Recorded

\* A workpiece that started from what the clone says brings no entry of its own.
LEMMA MergeGains ==
  ASSUME NEW r, HistoryOK(r), Lined(r), NEW at \in DOMAIN r.objects, NEW edits \in SUBSET Edits,
         IsPrefix(Tree(r, at).ledger, HeadTree(r).ledger),
         NEW t, t = MergeWorkpiece(r, at, edits)
  PROVE  Gains(r, t)
<1> DEFINE base == MergeBase(r, r.head, at)
           theirs == r.objects[at]
           merged == [ledger |-> ThreeWay(base.ledger, HeadTree(r).ledger, theirs.ledger),
                      current |-> ThreeWay(base.current, HeadTree(r).current, theirs.current),
                      edits |-> HeadTree(r).edits \cup edits, parent |-> r.head, older |-> {}]
           s == CommitTree(r, merged, {r.head, at})
<1>1. t = IF UpToDate(r, at, edits) THEN r ELSE Checkout(s, s.head)
  BY DEF MergeWorkpiece
<1>2. r.head \in DOMAIN r.objects /\ r.head \in Nat /\ r.origin \in DOMAIN r.objects
  BY HistoryFacts DEF HistoryOK, Repositories
<1>3. base \in Trees /\ HeadTree(r) \in Trees /\ theirs \in Trees /\ theirs = Tree(r, at)
      /\ IsPrefix(base.ledger, theirs.ledger)
  <2>1. PICK c \in Ancestors(r, r.head) \cap Ancestors(r, at) : base = Tree(r, c) /\ c \in DOMAIN r.objects
    BY <1>2, MergeBaseFacts
  <2>2. theirs = Tree(r, at)
    BY DEF Tree
  <2>3. IsPrefix(Tree(r, c).ledger, Tree(r, at).ledger)
    BY <2>1 DEF Lined, Chained
  <2> HIDE DEF base, theirs
  <2> QED
    BY <1>2, <2>1, <2>2, <2>3, HistoryFacts
<1> HIDE DEF base, theirs
<1>4. merged \in Trees
  BY <1>2, <1>3 DEF ThreeWay, Trees
<1>5. merged.ledger \in Ledgers /\ HeadTree(r).ledger \in Ledgers /\ theirs.ledger \in Ledgers
      /\ merged.ledger = ThreeWay(base.ledger, HeadTree(r).ledger, theirs.ledger)
  BY <1>3, <1>4 DEF Trees
<1>6. IsPrefix(HeadTree(r).ledger, merged.ledger) /\ IsPrefix(theirs.ledger, merged.ledger)
  <2>1. CASE HeadTree(r).ledger = base.ledger
    BY <1>3, <1>5, <2>1, PrefixReflexive DEF ThreeWay
  <2>2. CASE HeadTree(r).ledger # base.ledger
    BY <1>3, <1>5, <2>2, PrefixReflexive DEF ThreeWay
  <2> QED
    BY <2>1, <2>2
<1>7. PICK P : P = {r.head, at}
  OBVIOUS
<1> HIDE DEF merged
<1>8. P \in SUBSET DOMAIN r.objects /\ r.head \in P /\ s = CommitTree(r, merged, P)
  BY <1>2, <1>7
<1> HIDE DEF s
<1>9. /\ HistoryOK(s) /\ s.head \in DOMAIN s.objects
      /\ DOMAIN r.objects \subseteq DOMAIN s.objects
      /\ \A x \in DOMAIN r.objects : s.objects[x] = r.objects[x]
      /\ Tree(s, s.head).ledger = merged.ledger /\ s.origin = r.origin
  BY <1>4, <1>8, CommitTreeFacts DEF HistoryOK
<1>10. Chained(s)
  <2>1. \A p \in P : IsPrefix(Tree(r, p).ledger, merged.ledger)
    <3>1. HeadTree(r) = Tree(r, r.head)
      BY LedgersAre
    <3> QED
      BY <1>3, <1>6, <1>7, <3>1
  <2> QED
    BY <1>4, <1>8, <2>1, CommitChains DEF Lined
<1>11. CASE t = Checkout(s, s.head)
  <2>1. /\ HistoryOK(t) /\ t.objects = s.objects /\ t.file = merged.ledger /\ t.origin = r.origin
        /\ HeadTree(t).ledger = merged.ledger
        /\ \A a : Ancestors(t, a) = Ancestors(s, a)
    BY <1>9, <1>11, CheckoutFacts
  <2>2. Lined(t)
    <3>1. Chained(t)
      BY <1>10, <2>1 DEF Chained, Tree
    <3> QED
      BY <1>5, <2>1, <3>1, PrefixReflexive DEF Lined
  <2>3. Tree(t, t.origin) = Tree(r, r.origin) /\ Tree(r, r.origin).ledger \in Ledgers
    <3>1. t.origin = r.origin /\ t.objects[r.origin] = r.objects[r.origin]
      BY <1>2, <1>9, <2>1
    <3> QED
      BY <1>2, <3>1, LedgersAre DEF Tree
  <2>4. \A l \in Ledgers : Both(r, l) => Both(t, l)
    BY <1>5, <1>6, <2>1, <2>3, PrefixTransitive DEF Both
  <2> QED
    BY <1>9, <2>1, <2>2, <2>3, <2>4, PrefixReflexive DEF Gains
<1> QED
  BY <1>1, <1>11, GainsReflexive

-----------------------------------------------------------------------------

\* A workpiece started from entries the clone and the bare repository both have,
\* and every commit a reconcile may go back to has them too.
Carried(m) ==
  manifest[m].state = "open" /\ workpiece[m].at # None =>
    LET l == Tree(repo, workpiece[m].at).ledger IN
      Both(repo, l) /\ \A c \in Bases(m) : IsPrefix(l, Tree(repo, c).ledger)
\* What was validated or reconciled was materialized.
Settled(m) ==
  /\ manifest[m].state = "none" => ~manifest[m].materialized
  /\ evidence[m].validation # "none" \/ evidence[m].pre # None => manifest[m].materialized
\* A command that read an open mission's manifest knows what it still says.
Knows(c) ==
  /\ c.cmd \in {"materialize", "reconcile", "close", "abort"} /\ c.m \in Missions
  /\ manifest[c.m].state = "open"
  => /\ c.seen = manifest[c.m]
     /\ c.cmd = "materialize" => ~c.seen.materialized
     /\ c.cmd = "reconcile" => c.seen.materialized
LedgerInv ==
  Lined(repo) /\ (\A m \in Missions : Carried(m) /\ Settled(m)) /\ \A p \in Procs : Knows(proc[p])

\* A step keeps the invariant and takes no entry from the bare repository.
Advances == LedgerInv' /\ IsPrefix(PublishedLedger, PublishedLedger')

LEMMA LedgerState ==
  ASSUME RegisterInv, LedgerInv
  PROVE  /\ HistoryOK(repo) /\ Lined(repo) /\ repo.file \in Ledgers /\ HeadTree(repo).ledger \in Ledgers
         /\ PublishedLedger = Tree(repo, repo.origin).ledger /\ PublishedLedger \in Ledgers
         /\ DOMAIN evidence = Missions /\ DOMAIN workpiece = Missions /\ DOMAIN proc = Procs
         /\ \A m \in Missions :
              DOMAIN evidence[m] = EvidenceFields /\ DOMAIN workpiece[m] = WorkpieceFields
<1>1. HistoryOK(repo) /\ Lined(repo) /\ PublishedLedger = Tree(repo, repo.origin).ledger
  BY DEF RegisterInv, StateOK, LedgerInv, PublishedLedger, Tree
<1>2. repo.file \in Ledgers /\ HeadTree(repo).ledger \in Ledgers /\ PublishedLedger \in Ledgers
  BY <1>1, LedgersAre
<1> QED
  BY <1>1, <1>2 DEF RegisterInv, StateOK, FilesOK

LEMMA SettledHold == ASSUME LedgerInv, NEW m \in Missions PROVE Settled(m) /\ Carried(m)
BY DEF LedgerInv

\* A step of the repository that takes nothing from either side.
LEMMA LedgerForward ==
  ASSUME RegisterInv, LedgerInv, NEW p, Procs = {p}, Gains(repo, repo'),
         \A m \in Missions : manifest'[m].state = "open" /\ workpiece'[m].at # None =>
           /\ manifest[m].state = "open" /\ workpiece'[m].at = workpiece[m].at
           /\ Bases(m)' \subseteq Bases(m),
         \A m \in Missions : Settled(m)',
         Knows(proc[p])'
  PROVE  Advances
<1>1. HistoryOK(repo) /\ PublishedLedger = Tree(repo, repo.origin).ledger
  BY LedgerState
<1>2. ASSUME NEW m \in Missions, manifest'[m].state = "open", workpiece'[m].at # None
      PROVE  LET l == Tree(repo', workpiece'[m].at).ledger IN
               Both(repo', l) /\ \A c \in Bases(m)' : IsPrefix(l, Tree(repo', c).ledger)
  <2>1. PICK at : at = workpiece[m].at
    OBVIOUS
  <2>2. manifest[m].state = "open" /\ workpiece'[m].at = at /\ at # None /\ Bases(m)' \subseteq Bases(m)
    BY <1>2, <2>1
  <2>3. at \in DOMAIN repo.objects /\ Bases(m) \subseteq DOMAIN repo.objects
    BY <2>1, <2>2, BasesExist, ManifestFacts DEF FilesOK
  <2>4. PICK l : l = Tree(repo, at).ledger
    OBVIOUS
  <2>5. Both(repo, l) /\ \A c \in Bases(m) : IsPrefix(l, Tree(repo, c).ledger)
    BY <2>1, <2>2, <2>4, SettledHold DEF Carried
  <2>6. \A c \in DOMAIN repo.objects : Tree(repo', c) = Tree(repo, c)
    BY DEF Gains, Tree
  <2>7. l \in Ledgers /\ Tree(repo', at).ledger = l
    BY <1>1, <2>3, <2>4, <2>6, LedgersAre
  <2>8. Both(repo', l)
    BY <2>5, <2>7 DEF Gains
  <2>9. \A c \in Bases(m)' : IsPrefix(l, Tree(repo', c).ledger)
    BY <2>2, <2>3, <2>5, <2>6
  <2> QED
    BY <2>2, <2>7, <2>8, <2>9
<1>3. \A m \in Missions : Carried(m)'
  BY <1>2 DEF Carried
<1>4. LedgerInv'
  BY <1>3 DEF LedgerInv, Gains
<1>5. PublishedLedger' = Tree(repo', repo'.origin).ledger
  BY DEF PublishedLedger, Tree
<1> QED
  BY <1>1, <1>4, <1>5 DEF Advances, Gains

\* What the files say of a mission's commits and of its validation.
FilesStay ==
  \A m \in Missions :
    /\ workpiece'[m].at = workpiece[m].at
    /\ evidence'[m].pre = evidence[m].pre /\ evidence'[m].validation = evidence[m].validation

\* A command that goes on with what it knows, or none that needs to know anything.
Follows(c, rec) ==
  \/ rec.cmd = c.cmd /\ rec.m = c.m /\ rec.seen = c.seen /\ rec.pre = c.pre
  \/ rec.cmd \in {"none", "open", "sync"}

LEMMA LedgerQuiet ==
  ASSUME RegisterInv, LedgerInv, NEW p, Procs = {p}, Gains(repo, repo'),
         UNCHANGED manifest, FilesStay, Follows(proc[p], proc'[p])
  PROVE  Advances
<1>1. \A m \in Missions : Bases(m)' \subseteq Bases(m)
  BY DEF Bases, FilesStay, Follows
<1>2. \A m \in Missions : Settled(m)'
  BY SettledHold DEF Settled, FilesStay
<1>3. Knows(proc[p])'
  BY DEF LedgerInv, Knows, Follows
<1> QED
  BY <1>1, <1>2, <1>3, LedgerForward DEF FilesStay

LEMMA StillGains == ASSUME RegisterInv, LedgerInv, repo' = repo PROVE Gains(repo, repo')
BY LedgerState, GainsReflexive

LEMMA IdleFollows == ASSUME NEW c PROVE Follows(c, Idle)
BY DEF Follows, Idle

-----------------------------------------------------------------------------
(* The commands begin.                                                      *)

LEMMA BeginAdvances ==
  ASSUME RegisterInv, LedgerInv, NEW p \in Procs, Procs = {p}, OpenPreflight(p) \/ SyncStart(p)
  PROVE  Advances
<1>1. UNCHANGED <<manifest, evidence, workpiece, repo>>
  BY DEF OpenPreflight, SyncStart
<1>2. proc'[p].cmd \in {"open", "sync"}
  BY LedgerState DEF OpenPreflight, SyncStart, Syncing, Idle
<1>3. Follows(proc[p], proc'[p])
  BY <1>2 DEF Follows
<1> QED
  BY <1>1, <1>3, StillGains, LedgerQuiet DEF FilesStay

LEMMA StartAdvances ==
  ASSUME RegisterInv, LedgerInv, "rematerialize" \notin Commands, NEW p \in Procs, Procs = {p},
         NEW m \in Missions, MaterializeStart(p, m) \/ ReconcileStart(p, m) \/ AbortStart(p, m)
  PROVE  Advances
<1>1. PICK cmd \in {"materialize", "reconcile", "abort"} : Start(p, cmd, m)
  BY DEF MaterializeStart, ReconcileStart, AbortStart
<1>2. UNCHANGED <<manifest, evidence, workpiece, repo>>
  BY DEF MaterializeStart, ReconcileStart, AbortStart
<1>3. PICK rec : rec = proc'[p]
  OBVIOUS
<1>4. rec.cmd \in {"materialize", "reconcile", "abort"} /\ rec.m = m /\ rec.seen = manifest[m] /\ rec.pre = None
  BY <1>1, <1>3, LedgerState DEF Start, Idle
<1>5. \A n \in Missions : Bases(n)' \subseteq Bases(n)
  BY <1>2, <1>3, <1>4 DEF Bases
<1>6. \A n \in Missions : Settled(n)'
  BY <1>2, SettledHold DEF Settled
<1>7. /\ rec.cmd = "materialize" => ~manifest[m].materialized
      /\ rec.cmd = "reconcile" => manifest[m].materialized
  <2>1. CASE MaterializeStart(p, m)
    <3>1. rec.cmd = "materialize"
      BY <1>3, <2>1, LedgerState DEF MaterializeStart, Start, Idle
    <3> QED
      BY <2>1, <3>1 DEF MaterializeStart
  <2>2. CASE ReconcileStart(p, m)
    <3>1. rec.cmd = "reconcile"
      BY <1>3, <2>2, LedgerState DEF ReconcileStart, Start, Idle
    <3> QED
      BY <2>2, <3>1, SettledHold DEF ReconcileStart, Settled
  <2>3. CASE AbortStart(p, m)
    BY <1>3, <2>3, LedgerState DEF AbortStart, Start, Idle
  <2> QED
    BY <2>1, <2>2, <2>3
<1>8. Knows(proc[p])'
  BY <1>2, <1>3, <1>4, <1>7 DEF Knows
<1> QED
  BY <1>2, <1>5, <1>6, <1>8, StillGains, LedgerForward

\* A validation reports on a mission that was materialized.
LEMMA ValidationAdvances ==
  ASSUME RegisterInv, LedgerInv, NEW p \in Procs, Procs = {p}, NEW m \in Missions,
         NEW passed, ValidateOutcome(m, passed), manifest[m].materialized,
         UNCHANGED <<manifest, workpiece>>,
         \/ proc'[p] = proc[p]
         \/ proc'[p].cmd = "close" /\ proc'[p].m = m /\ proc'[p].seen = manifest[m] /\ proc'[p].pre = None
  PROVE  Advances
<1>1. Gains(repo, repo')
  BY LedgerState, CommitAllGains, GainsReflexive DEF ValidateOutcome
<1>2. PICK e : e = [evidence[m] EXCEPT !.validation = IF passed THEN "passed" ELSE "failed",
                                       !.validated = Content(m)]
  OBVIOUS
<1>3. evidence' = [evidence EXCEPT ![m] = e]
  BY <1>2, LedgerState DEF ValidateOutcome
<1>4. e.pre = evidence[m].pre
  BY <1>2, LedgerState DEF EvidenceFields
<1>5. \A n \in Missions : /\ evidence'[n].pre = evidence[n].pre
                          /\ n # m => evidence'[n] = evidence[n]
  BY <1>3, <1>4, LedgerState
<1>6. \A n \in Missions : Bases(n)' \subseteq Bases(n)
  BY <1>5 DEF Bases
<1>7. \A n \in Missions : Settled(n)'
  BY <1>5, SettledHold DEF Settled
<1>8. Knows(proc[p])'
  BY DEF LedgerInv, Knows
<1> QED
  BY <1>1, <1>6, <1>7, <1>8, LedgerForward

LEMMA ValidatesAdvance ==
  ASSUME RegisterInv, LedgerInv, NEW p \in Procs, Procs = {p}, NEW m \in Missions,
         Validate(p, m) \/ CloseStart(p, m)
  PROVE  Advances
<1>1. manifest[m].materialized /\ UNCHANGED <<manifest, workpiece>>
  BY DEF Validate, CloseStart
<1>2. PICK passed : ValidateOutcome(m, passed)
  BY DEF Validate, CloseStart
<1>3. \/ proc'[p] = proc[p]
      \/ proc'[p].cmd = "close" /\ proc'[p].m = m /\ proc'[p].seen = manifest[m] /\ proc'[p].pre = None
  BY LedgerState, ZenonT(60) DEF Validate, CloseStart, Idle
<1> QED
  BY <1>1, <1>2, <1>3, ValidationAdvances

\* The operator's edits.
LEMMA EditsAdvance ==
  ASSUME RegisterInv, LedgerInv, NEW p \in Procs, Procs = {p}, NEW m \in Missions,
         Edit(p, m) \/ GitCommit(p, m)
  PROVE  Advances
<1>1. UNCHANGED <<manifest, evidence, repo, proc>>
  BY DEF Edit, GitCommit
<1>2. PICK w : workpiece' = [workpiece EXCEPT ![m] = w] /\ w.at = workpiece[m].at
  <2>1. CASE Edit(p, m)
    <3>1. PICK dirty : dirty = workpiece[m].dirty \cup {Min(Unused)}
      OBVIOUS
    <3> DEFINE w == [workpiece[m] EXCEPT !.dirty = dirty]
    <3>2. workpiece' = [workpiece EXCEPT ![m] = w]
      BY <2>1, <3>1 DEF Edit
    <3>3. w.at = workpiece[m].at
      BY LedgerState DEF WorkpieceFields
    <3> QED
      BY <3>2, <3>3
  <2>2. CASE GitCommit(p, m)
    <3>1. PICK edits : workpiece' = [workpiece EXCEPT ![m].edits = edits, ![m].dirty = {}]
      BY <2>2 DEF GitCommit
    <3> DEFINE w == [workpiece[m] EXCEPT !.edits = edits, !.dirty = {}]
    <3>2. workpiece' = [workpiece EXCEPT ![m] = w]
      BY <3>1, LedgerState
    <3>3. w.at = workpiece[m].at
      BY LedgerState DEF WorkpieceFields
    <3> QED
      BY <3>2, <3>3
  <2> QED
    BY <2>1, <2>2
<1>3. FilesStay
  BY <1>1, <1>2, LedgerState DEF FilesStay
<1>4. Follows(proc[p], proc'[p])
  BY <1>1 DEF Follows
<1> QED
  BY <1>1, <1>3, <1>4, StillGains, LedgerQuiet

-----------------------------------------------------------------------------
(* The commands go on: the steps that write no manifest.                    *)

LEMMA RefusedAdvance ==
  ASSUME RegisterInv, LedgerInv, NEW p \in Procs, Procs = {p},
         LockRefused(p) \/ ReconcileUnvalidated(p)
  PROVE  Advances
<1>1. UNCHANGED <<manifest, evidence, workpiece, repo>> /\ proc'[p] = Idle
  BY LedgerState DEF LockRefused, ReconcileUnvalidated, Exit, Step
<1>2. Follows(proc[p], proc'[p])
  BY <1>1, IdleFollows
<1> QED
  BY <1>1, <1>2, StillGains, LedgerQuiet DEF FilesStay

\* The ledger routine: what it writes comes after what the working tree says.
LEMMA AppendingAdvances ==
  ASSUME RegisterInv, LedgerInv, NEW p \in Procs, Procs = {p},
         AppendRead(p) \/ AppendSilenced(p) \/ AppendWrite(p) \/ CommitLedgerStep(p)
  PROVE  Advances
<1>1. PICK c : c = proc[p]
  OBVIOUS
<1>2. c.at \in Ledgering /\ PlaceOK(c) /\ DOMAIN c = Fields /\ UNCHANGED <<manifest, evidence, workpiece>>
  BY <1>1 DEF AppendRead, AppendSilenced, AppendWrite, CommitLedgerStep, Ledgering, RegisterInv,
              Places, PlaceOK
<1>3. Follows(c, proc'[p])
  <2>1. PICK rec : rec = proc'[p]
    OBVIOUS
  <2>2. CASE AppendRead(p)
    <3>1. rec = [c EXCEPT !.at = c.ret, !.result = "refused"]
          \/ rec = [c EXCEPT !.at = "write", !.read = repo.file]
      BY <1>1, <2>1, <2>2, LedgerState DEF AppendRead, Step
    <3> QED
      BY <1>2, <2>1, <3>1 DEF Follows, Fields
  <2>3. CASE AppendWrite(p)
    <3>1. rec = [c EXCEPT !.at = "commit", !.read = <<>>]
      BY <1>1, <2>1, <2>3, LedgerState DEF AppendWrite, Step
    <3> QED
      BY <1>2, <2>1, <3>1 DEF Follows, Fields
  <2>4. CASE CommitLedgerStep(p)
    <3>1. \E result : rec = [c EXCEPT !.at = c.ret, !.result = result]
      BY <1>1, <2>1, <2>4, LedgerState DEF CommitLedgerStep, Step
    <3> QED
      BY <1>2, <2>1, <3>1 DEF Follows, Fields
  <2>5. CASE AppendSilenced(p)
    <3>1. rec = [c EXCEPT !.at = c.ret, !.result = "refused"]
      BY <1>1, <2>1, <2>5, LedgerState DEF AppendSilenced
    <3> QED
      BY <1>2, <2>1, <3>1 DEF Follows, Fields
  <2> QED
    BY <2>2, <2>3, <2>4, <2>5
<1>4. Gains(repo, repo')
  <2>1. CASE AppendRead(p) \/ AppendSilenced(p)
    BY <2>1, StillGains DEF AppendRead, AppendSilenced
  <2>2. CASE AppendWrite(p)
    <3>1. c.at = "write" /\ c.read = repo.file
      BY <1>1, <2>2 DEF AppendWrite, RegisterInv, Places, WritingOK
    <3>2. PICK e, longer : /\ e = Entry(c.kind, c.m, Len(repo.file)) /\ longer = Append(repo.file, e)
                           /\ repo' = [repo EXCEPT !.file = longer]
      BY <1>1, <2>2, <3>1 DEF AppendWrite
    <3>3. repo.file \in Ledgers /\ longer \in Ledgers /\ IsPrefix(repo.file, longer)
      <4>1. c.kind \in Kinds /\ c.m \in 0 .. MaxMissions
        BY <1>2, LedgeringFacts
      <4>2. repo.file \in Ledgers
        BY LedgerState
      <4>3. e \in [kind : Kinds, mission : 0 .. MaxMissions, prev : Nat]
        BY <3>2, <4>1, <4>2 DEF Entry, Ledgers
      <4>4. longer \in Ledgers
        BY <3>2, <4>2, <4>3 DEF Ledgers
      <4> QED
        BY <3>2, <4>2, <4>4, PrefixLonger
    <3>4. /\ repo' \in Repositories /\ repo'.objects = repo.objects /\ repo'.head = repo.head
          /\ repo'.origin = repo.origin /\ repo'.file = longer
      BY <3>2, <3>3, LedgerState DEF HistoryOK, Repositories
    <3>5. HistoryOK(repo')
      BY <3>4, LedgerState DEF HistoryOK, Ancestors
    <3>6. IsPrefix(PublishedLedger, Tree(repo, repo'.origin).ledger)
      BY <3>4, LedgerState, PrefixReflexive
    <3>7. \A l \in Ledgers : Both(repo, l) =>
            IsPrefix(l, Tree(repo, repo'.head).ledger) /\ IsPrefix(l, Tree(repo, repo'.origin).ledger)
      BY <3>4 DEF Both, HeadTree, Tree
    <3> QED
      BY <3>3, <3>4, <3>5, <3>6, <3>7, LedgerState, MovesGain DEF Lined
  <2>3. CASE CommitLedgerStep(p)
    <3>1. repo' = repo \/ repo' \in Recorded(repo)
      BY <2>3 DEF CommitLedgerStep, Recorded
    <3> QED
      BY <3>1, StillGains, LedgerState, RecordedGains
  <2> QED
    BY <2>1, <2>2, <2>3
<1> QED
  BY <1>1, <1>2, <1>3, <1>4, LedgerQuiet DEF FilesStay

\* The mirror sync pushes the clone's own branch.
LEMMA SyncsAdvance ==
  ASSUME RegisterInv, LedgerInv, NEW p \in Procs, Procs = {p},
         SyncPush(p) \/ SyncMirrors(p) \/ SyncRef(p)
  PROVE  Advances
<1>1. PICK c : c = proc[p]
  OBVIOUS
<1>2. DOMAIN c = Fields /\ UNCHANGED <<manifest, evidence, workpiece>>
  BY <1>1, CommandFields DEF SyncPush, SyncMirrors, SyncRef
<1>3. Follows(c, proc'[p])
  <2>1. PICK rec : rec = proc'[p]
    OBVIOUS
  <2>2. \/ rec = Idle
        \/ rec = Appending(c, "mirror-sync", "mirrors")
        \/ \E at : rec = [c EXCEPT !.at = at]
    BY <1>1, <2>1, LedgerState DEF SyncPush, SyncMirrors, SyncRef, Step, Goto, Exit
  <2> QED
    BY <1>2, <2>1, <2>2, IdleFollows DEF Follows, Appending, Fields
<1>4. Gains(repo, repo')
  <2>1. CASE repo' = repo
    BY <2>1, StillGains
  <2>2. CASE repo' = Push(repo)
    BY <2>2, LedgerState, PushGains
  <2>3. CASE repo' = [repo EXCEPT !.external = repo.origin] \/ repo' = [repo EXCEPT !.mirror = repo.origin]
    <3>1. /\ repo' \in Repositories /\ repo'.objects = repo.objects /\ repo'.head = repo.head
          /\ repo'.origin = repo.origin /\ repo'.file = repo.file
      BY <2>3, LedgerState DEF HistoryOK, Repositories
    <3>2. HistoryOK(repo')
      BY <3>1, LedgerState DEF HistoryOK, Ancestors
    <3>3. IsPrefix(repo.file, repo'.file) /\ IsPrefix(PublishedLedger, Tree(repo, repo'.origin).ledger)
      BY <3>1, LedgerState, PrefixReflexive
    <3>4. \A l \in Ledgers : Both(repo, l) =>
            IsPrefix(l, Tree(repo, repo'.head).ledger) /\ IsPrefix(l, Tree(repo, repo'.origin).ledger)
      BY <3>1 DEF Both, HeadTree, Tree
    <3> QED
      BY <3>1, <3>2, <3>3, <3>4, LedgerState, MovesGain DEF Lined
  <2> QED
    BY <2>1, <2>2, <2>3 DEF SyncPush, SyncMirrors, SyncRef
<1> QED
  BY <1>1, <1>2, <1>3, <1>4, LedgerQuiet DEF FilesStay

\* What mission.close and mission.abort leave behind.
LEMMA EndedAdvance ==
  ASSUME RegisterInv, LedgerInv, NEW p \in Procs, Procs = {p},
         CloseAudit(p) \/ CloseArchive(p) \/ CloseSettle(p) \/ CloseSeal(p) \/ Aborted(p)
  PROVE  Advances
<1>1. PICK c : c = proc[p]
  OBVIOUS
<1>2. c.at \in {"audit", "archive", "settle", "seal", "aborted"} /\ UNCHANGED manifest
  BY <1>1 DEF CloseAudit, CloseArchive, CloseSettle, CloseSeal, Aborted
<1>3. DOMAIN c = Fields /\ c.m \in Missions
  BY <1>1, <1>2, ClosingPlace
<1>4. Follows(c, proc'[p])
  <2>1. PICK rec : rec = proc'[p]
    OBVIOUS
  <2>2. rec \in {Idle, Appending(c, "mission-close", "archive"), Syncing(c, "seal")}
        \/ \E at : rec = [c EXCEPT !.at = at]
    <3>1. CASE CloseAudit(p)
      BY <1>1, <2>1, <3>1, LedgerState DEF CloseAudit, ExitReleasing, Exit, Step, Goto
    <3>2. CASE CloseArchive(p)
      BY <1>1, <2>1, <3>2, LedgerState DEF CloseArchive, Step, Goto
    <3>3. CASE CloseSettle(p)
      BY <1>1, <2>1, <3>3, LedgerState DEF CloseSettle, ExitReleasing, Exit, Step
    <3>4. CASE CloseSeal(p) \/ Aborted(p)
      BY <1>1, <2>1, <3>4, LedgerState DEF CloseSeal, Aborted, ExitReleasing, Exit, Step
    <3> QED
      BY <3>1, <3>2, <3>3, <3>4
  <2> QED
    BY <1>3, <2>1, <2>2, IdleFollows DEF Follows, Appending, Syncing, Fields
<1>5. Gains(repo, repo')
  <2>1. CASE repo' = repo
    BY <2>1, StillGains
  <2>2. CASE CloseSettle(p) \/ Aborted(p)
    <3>1. PICK pushFails \in Fails("push") : repo' = repo \/ repo' = WriteState(repo, None, ~pushFails)
      BY <2>2 DEF CloseSettle, Aborted
    <3>2. PICK reachable : reachable = ~pushFails
      OBVIOUS
    <3>3. reachable \in BOOLEAN
      BY <3>2 DEF Fails
    <3> QED
      BY <3>1, <3>2, <3>3, StillGains, LedgerState, WriteStateGains
  <2>3. CASE CloseSeal(p)
    <3>1. PICK tree : tree = HeadTree(repo)
      OBVIOUS
    <3>2. repo' = repo \/ repo' = CommitTree(repo, tree, {repo.head})
      BY <2>3, <3>1 DEF CloseSeal
    <3>3. tree \in Trees /\ tree.ledger = HeadTree(repo).ledger
      BY <3>1, LedgerState, HistoryFacts
    <3> QED
      BY <3>2, <3>3, StillGains, LedgerState, SameGains
  <2> QED
    BY <2>1, <2>2, <2>3 DEF CloseAudit, CloseArchive
<1>6. FilesStay
  <2>1. CASE CloseAudit(p) \/ CloseSettle(p) \/ Aborted(p)
    BY <2>1 DEF FilesStay, CloseAudit, CloseSettle, Aborted
  <2>2. CASE CloseArchive(p)
    <3>1. PICK report, archived :
            evidence' = [evidence EXCEPT ![c.m].report = report, ![c.m].archived = archived]
      <4>1. PICK failed \in Fails("evidence") :
              evidence' = [evidence EXCEPT
                ![c.m].report = IF "skip-evidence-sync" \in c.flags THEN "skipped" ELSE "synced",
                ![c.m].archived = ~failed /\ "skip-evidence-sync" \notin c.flags]
        BY <1>1, <2>2 DEF CloseArchive
      <4>2. PICK report, archived :
              /\ report = IF "skip-evidence-sync" \in c.flags THEN "skipped" ELSE "synced"
              /\ archived = (~failed /\ "skip-evidence-sync" \notin c.flags)
        OBVIOUS
      <4> QED
        BY <4>1, <4>2, Zenon
    <3> DEFINE e == [evidence[c.m] EXCEPT !.report = report, !.archived = archived]
    <3>2. evidence' = [evidence EXCEPT ![c.m] = e]
      BY <1>3, <3>1, LedgerState
    <3>3. e.pre = evidence[c.m].pre /\ e.validation = evidence[c.m].validation
      BY <1>3, LedgerState DEF EvidenceFields
    <3>4. UNCHANGED workpiece
      BY <2>2 DEF CloseArchive
    <3> HIDE DEF e
    <3> QED
      BY <1>3, <3>2, <3>3, <3>4, LedgerState DEF FilesStay
  <2>3. CASE CloseSeal(p)
    <3> DEFINE w == [workpiece[c.m] EXCEPT !.sealed = TRUE]
    <3>1. workpiece' = [workpiece EXCEPT ![c.m] = w] /\ UNCHANGED evidence
      BY <1>1, <1>3, <2>3, LedgerState DEF CloseSeal
    <3>2. w.at = workpiece[c.m].at
      BY <1>3, LedgerState DEF WorkpieceFields
    <3> HIDE DEF w
    <3> QED
      BY <1>3, <3>1, <3>2, LedgerState DEF FilesStay
  <2> QED
    BY <2>1, <2>2, <2>3
<1> QED
  BY <1>1, <1>2, <1>4, <1>5, <1>6, LedgerQuiet

\* mission.close commits the workpiece, names its head and pushes the clone.
LEMMA CloseAdvances ==
  ASSUME RegisterInv, LedgerInv, NEW p \in Procs, Procs = {p}, CloseLocked(p)
  PROVE  Advances
<1>1. PICK c : c = proc[p]
  OBVIOUS
<1>2. c.at = "lock" /\ c.cmd = "close" /\ UNCHANGED manifest
  BY <1>1 DEF CloseLocked
<1>3. DOMAIN c = Fields /\ c.m \in Missions
  BY <1>1, <1>2, ClosingPlace
<1>4. Follows(c, proc'[p])
  <2>1. PICK rec : rec = proc'[p]
    OBVIOUS
  <2>2. rec \in {Idle, Syncing(c, "gate"), [c EXCEPT !.at = "gate"]}
    BY <1>1, <2>1, LedgerState DEF CloseLocked, Exit, Step
  <2> QED
    BY <1>3, <2>1, <2>2, IdleFollows DEF Follows, Syncing, Fields
<1>5. repo' \in {repo, Push(repo)}
  BY DEF CloseLocked
<1>6. Gains(repo, repo')
  BY <1>5, StillGains, LedgerState, PushGains
<1>7. FilesStay
  <2>1. CASE UNCHANGED <<evidence, workpiece>>
    BY <2>1 DEF FilesStay
  <2>2. CASE workpiece' = CommitWorkpiece(c.m) /\ evidence' = CloseReport(c.m)
    <3>1. \A n \in Missions : workpiece'[n].at = workpiece[n].at
      BY <1>3, <2>2, CommitWorkpieceFacts
    <3>2. \A n \in Missions : evidence'[n].pre = evidence[n].pre /\ evidence'[n].validation = evidence[n].validation
      <4>1. CASE evidence' = evidence
        BY <4>1
      <4>2. ASSUME NEW head, evidence' = [evidence EXCEPT ![c.m].head = head]
            PROVE  \A n \in Missions : /\ evidence'[n].pre = evidence[n].pre
                                       /\ evidence'[n].validation = evidence[n].validation
        <5> DEFINE e == [evidence[c.m] EXCEPT !.head = head]
        <5>1. evidence' = [evidence EXCEPT ![c.m] = e]
          BY <4>2
        <5>2. e.pre = evidence[c.m].pre /\ e.validation = evidence[c.m].validation
          BY <1>3, LedgerState DEF EvidenceFields
        <5> HIDE DEF e
        <5> QED
          BY <1>3, <5>1, <5>2, LedgerState
      <4> QED
        BY <2>2, <4>1, <4>2 DEF CloseReport
    <3> QED
      BY <3>1, <3>2 DEF FilesStay
  <2> QED
    BY <1>1, <2>1, <2>2 DEF CloseLocked
<1> QED
  BY <1>1, <1>2, <1>4, <1>6, <1>7, LedgerQuiet

-----------------------------------------------------------------------------
(* The steps that write a manifest.                                         *)

LEMMA OpenAdvances ==
  ASSUME RegisterInv, LedgerInv, NEW p \in Procs, Procs = {p}, OpenLocked(p)
  PROVE  Advances
<1>1. PICK c : c = proc[p]
  OBVIOUS
<1>2. UNCHANGED <<evidence, workpiece, repo>>
  BY DEF OpenLocked
<1>3. CASE UNCHANGED manifest /\ Exit(p)
  <2>1. proc'[p] = Idle
    BY <1>3, LedgerState DEF Exit, Step
  <2>2. Follows(proc[p], proc'[p])
    BY <2>1, IdleFollows
  <2> QED
    BY <1>2, <1>3, <2>2, StillGains, LedgerQuiet DEF FilesStay
<1>4. CASE ~(UNCHANGED manifest /\ Exit(p))
  <2>1. PICK N : N = NextMission
    OBVIOUS
  <2>2. /\ N =< MaxMissions
        /\ manifest' = [manifest EXCEPT ![N] = [NoManifest EXCEPT !.state = "open"]]
        /\ proc' = [proc EXCEPT ![p] = Appending([c EXCEPT !.m = N], "mission-open", "opened")]
        /\ c.cmd = "open"
    <3>1. N \in Nat /\ MaxMissions \in Nat
      BY <2>1, LifecycleAssumption, NextMissionIsFree, LedgerState DEF RegisterInv, StateOK
    <3> QED
      BY <1>1, <1>4, <2>1, <3>1 DEF OpenLocked, Step
  <2>3. N \in Missions /\ manifest[N].state = "none"
    <3>1. N \in Nat \ {0} /\ MaxMissions \in Nat
      BY <2>1, LifecycleAssumption, NextMissionIsFree, LedgerState DEF RegisterInv, StateOK
    <3>2. N \in Missions
      BY <2>2, <3>1 DEF Missions
    <3> QED
      BY <2>1, <3>2, NextMissionIsFree, LedgerState DEF RegisterInv, StateOK
  <2>4. PICK x : x = [NoManifest EXCEPT !.state = "open"] /\ x.state = "open" /\ ~x.materialized
    <3> DEFINE x == [NoManifest EXCEPT !.state = "open"]
    <3>1. x.state = "open" /\ ~x.materialized
      BY DEF NoManifest
    <3>2. x = [NoManifest EXCEPT !.state = "open"]
      OBVIOUS
    <3> HIDE DEF x
    <3> QED
      BY <3>1, <3>2
  <2>5. manifest'[N] = x /\ \A n \in Missions \ {N} : manifest'[n] = manifest[n]
    BY <2>2, <2>3, <2>4 DEF RegisterInv, StateOK
  <2>6. evidence[N].pre = None /\ workpiece[N].at = None /\ evidence[N].validation = "none"
    <3>1. ~manifest[N].materialized /\ Settled(N)
      BY <2>3, SettledHold DEF Settled
    <3> QED
      BY <2>3, <3>1, ManifestFacts DEF FilesOK, Settled
  <2>7. proc'[p].cmd = "open"
    BY <1>1, <2>2, CommandFields DEF Appending, Fields
  <2>8. \A n \in Missions : Settled(n)'
    BY <1>2, <2>4, <2>5, <2>6, SettledHold DEF Settled
  <2>9. \A n \in Missions : Bases(n)' \subseteq Bases(n)
    BY <1>2, <2>7 DEF Bases
  <2>10. \A n \in Missions : manifest'[n].state = "open" /\ workpiece'[n].at # None => manifest[n].state = "open"
    BY <1>2, <2>5, <2>6
  <2>11. Knows(proc[p])'
    BY <2>7 DEF Knows
  <2> QED
    BY <1>2, <2>8, <2>9, <2>10, <2>11, StillGains, LedgerForward
<1> QED
  BY <1>3, <1>4

\* An opening that was not published takes the clone back, and no mission is open.
LEMMA OpenedAdvances ==
  ASSUME RegisterInv, LedgerInv, NEW p \in Procs, Procs = {p}, Opened(p)
  PROVE  Advances
<1>1. PICK c : c = proc[p]
  OBVIOUS
<1>2. c.at = "opened" /\ c # Idle /\ Places(c) /\ PlaceOK(c) /\ Record /\ proc'[p] = Idle
  BY <1>1, LedgerState DEF Opened, ExitReleasing, Exit, Step, RegisterInv, Places, Idle
<1>3. c.cmd = "open" /\ On(c, "open")
  BY <1>2 DEF PlaceOK, Place, Appends, Syncs, Ledgering, Mirroring
<1>4. PICK m : m = c.m
  OBVIOUS
<1>5. m \in Missions /\ manifest[m].state = "open" /\ Engaged(m)
  BY <1>3, <1>4 DEF On, Engaged
<1>6. CASE c.result = "pushed"
  <2>1. PICK reachable \in BOOLEAN : repo' = WriteState(repo, m, reachable)
    <3>1. PICK pushFails \in Fails("push") : repo' = WriteState(repo, m, ~pushFails)
      BY <1>1, <1>4, <1>6 DEF Opened
    <3>2. PICK reachable : reachable = ~pushFails
      OBVIOUS
    <3>3. reachable \in BOOLEAN
      BY <3>2 DEF Fails
    <3> QED
      BY <3>1, <3>2, <3>3
  <2>2. Gains(repo, repo')
    BY <1>5, <2>1, LedgerState, WriteStateGains
  <2>3. UNCHANGED <<manifest, evidence, workpiece>>
    BY <1>1, <1>6 DEF Opened
  <2>4. Follows(proc[p], proc'[p])
    BY <1>2, IdleFollows
  <2> QED
    BY <2>2, <2>3, <2>4, LedgerQuiet DEF FilesStay
<1>7. CASE c.result # "pushed"
  <2>1. /\ repo' = IF c.result = "unpushed" THEN Checkout(repo, HeadTree(repo).parent) ELSE repo
        /\ RemoveMission(m)
    BY <1>1, <1>4, <1>7 DEF Opened
  <2>2. /\ manifest'[m] = NoManifest /\ evidence'[m] = NoEvidence
        /\ \A n \in Missions \ {m} : manifest'[n] = manifest[n] /\ evidence'[n] = evidence[n]
    BY <1>5, <2>1, LedgerState DEF RemoveMission, RegisterInv, StateOK
  <2>3. NoManifest.state = "none" /\ ~NoManifest.materialized
        /\ NoEvidence.validation = "none" /\ NoEvidence.pre = None
    BY DEF NoManifest, NoEvidence
  <2>4. \A n \in Missions : Settled(n)'
    BY <2>2, <2>3, SettledHold DEF Settled
  <2>5. \A n \in Missions : manifest'[n].state # "open"
    BY <1>2, <1>5, <2>2, <2>3 DEF Record, Engaged
  <2>6. \A n \in Missions : Carried(n)'
    BY <2>5 DEF Carried
  <2>7. Lined(repo') /\ repo'.objects = repo.objects /\ repo'.origin = repo.origin
    <3>1. CASE c.result # "unpushed"
      BY <2>1, <3>1, LedgerState
    <3>2. CASE c.result = "unpushed"
      <4>1. PICK b : b = HeadTree(repo).parent
        OBVIOUS
      <4>2. repo.head # 1
        BY <1>2, <1>3, <3>2 DEF Places, OpeningOK
      <4>3. b \in DOMAIN repo.objects
        <5>1. repo.head \in DOMAIN repo.objects /\ b \in Ancestors(repo, repo.head)
          BY <4>1, <4>2, LedgerState DEF HistoryOK, HeadTree, Ancestors
        <5> QED
          BY <5>1, LedgerState, LinesAreNested
      <4>4. repo' = Checkout(repo, b)
        BY <2>1, <3>2, <4>1
      <4>5. /\ repo'.objects = repo.objects /\ repo'.origin = repo.origin
            /\ repo'.file = Tree(repo, b).ledger /\ HeadTree(repo') = Tree(repo, b)
            /\ \A a : Ancestors(repo', a) = Ancestors(repo, a)
        BY <4>3, <4>4, LedgerState, CheckoutFacts
      <4>6. Chained(repo')
        BY <4>5, LedgerState DEF Lined, Chained, Tree
      <4>7. Tree(repo, b).ledger \in Ledgers
        BY <4>3, LedgerState, LedgersAre
      <4> QED
        BY <4>5, <4>6, <4>7, PrefixReflexive DEF Lined
    <3> QED
      BY <3>1, <3>2
  <2>8. PublishedLedger' = PublishedLedger
    BY <2>7 DEF PublishedLedger
  <2>9. Knows(proc[p])'
    BY <1>2 DEF Knows, Idle
  <2> QED
    BY <2>4, <2>6, <2>7, <2>8, <2>9, LedgerState, PrefixReflexive DEF Advances, LedgerInv
<1> QED
  BY <1>6, <1>7

\* The manifest of an open mission is written by a command that knows it.
LEMMA ManifestAdvances ==
  ASSUME RegisterInv, LedgerInv, NEW p \in Procs, Procs = {p}, Gains(repo, repo'), UNCHANGED workpiece,
         NEW c, c = proc[p], Entered(c), NEW x, manifest' = [manifest EXCEPT ![c.m] = x],
         x.state # "none", c.seen.materialized => x.materialized,
         c.seen = manifest[c.m],
         \A n \in Missions :
           /\ evidence'[n].validation = evidence[n].validation
           /\ \/ evidence'[n].pre = evidence[n].pre
              \/ c.cmd = "reconcile" /\ n = c.m /\ evidence'[n].pre = c.pre /\ x.materialized,
         proc'[p] = Idle \/ (proc'[p].cmd # "reconcile" /\ proc'[p].m = c.m /\ x.state # "open")
  PROVE  Advances
<1>1. c.m \in Missions /\ manifest[c.m].state = "open"
  BY DEF Entered, On
<1>2. manifest'[c.m] = x /\ \A n \in Missions \ {c.m} : manifest'[n] = manifest[n]
  BY <1>1 DEF RegisterInv, StateOK
<1>3. proc'[p].cmd # "reconcile" /\ Knows(proc[p])'
  BY <1>2 DEF Knows, Idle
<1>4. ASSUME NEW n \in Missions PROVE Bases(n)' \subseteq Bases(n)
  BY <1>1, <1>3 DEF Bases
<1>5. \A n \in Missions : Settled(n)'
  BY <1>1, <1>2, SettledHold DEF Settled
<1>6. \A n \in Missions : manifest'[n].state = "open" => manifest[n].state = "open"
  BY <1>1, <1>2
<1> QED
  BY <1>3, <1>4, <1>5, <1>6, LedgerForward

LEMMA MaterializedAdvances ==
  ASSUME RegisterInv, LedgerInv, NEW p \in Procs, Procs = {p}, Materialized(p)
  PROVE  Advances
<1>1. PICK c : c = proc[p]
  OBVIOUS
<1>2. c.at = "materialized" /\ Place(c) /\ c.seen \in Manifests /\ proc'[p] = Idle
      /\ UNCHANGED <<evidence, workpiece, repo>>
  BY <1>1, LedgerState DEF Materialized, ExitReleasing, Exit, Step, RegisterInv, Places, PlaceOK
<1>3. c.cmd = "materialize" /\ Entered(c)
  BY <1>2 DEF Place, Appends, Syncs, Ledgering, Mirroring, Idle
<1>4. CASE manifest' = manifest
  BY <1>2, <1>4, IdleFollows, StillGains, LedgerQuiet DEF FilesStay
<1>5. CASE manifest' # manifest
  <2>1. PICK x : x = [c.seen EXCEPT !.materialized = TRUE]
    OBVIOUS
  <2>2. x.state = "open" /\ x.materialized
    BY <1>2, <1>3, <2>1 DEF Manifests, Entered
  <2>3. manifest' = [manifest EXCEPT ![c.m] = x]
    BY <1>1, <1>5, <2>1 DEF Materialized
  <2>4. c.seen = manifest[c.m]
    BY <1>1, <1>3 DEF LedgerInv, Knows, Entered, On
  <2> QED
    BY <1>1, <1>2, <1>3, <2>2, <2>3, <2>4, StillGains, ManifestAdvances
<1> QED
  BY <1>4, <1>5

LEMMA ReconciledAdvances ==
  ASSUME RegisterInv, LedgerInv, NEW p \in Procs, Procs = {p}, Reconciled(p)
  PROVE  Advances
<1>1. PICK c : c = proc[p]
  OBVIOUS
<1>2. c.at = "reconciled" /\ Place(c) /\ c.seen \in Manifests /\ proc'[p] = Idle
      /\ UNCHANGED <<workpiece, repo>>
  BY <1>1, LedgerState DEF Reconciled, ExitReleasing, Exit, Step, RegisterInv, Places, PlaceOK
<1>3. c.cmd = "reconcile" /\ Entered(c)
  BY <1>2 DEF Place, Appends, Syncs, Ledgering, Mirroring, Idle
<1>4. c.seen = manifest[c.m] /\ c.seen.materialized /\ c.m \in Missions
  BY <1>1, <1>3 DEF LedgerInv, Knows, Entered, On
<1>5. PICK x : x = [c.seen EXCEPT !.reconciled = TRUE]
  OBVIOUS
<1>6. x.state = "open" /\ x.materialized
  BY <1>2, <1>3, <1>4, <1>5 DEF Manifests, Entered
<1>7. manifest' = [manifest EXCEPT ![c.m] = x]
  BY <1>1, <1>5 DEF Reconciled
<1>8. \A n \in Missions :
        /\ evidence'[n].validation = evidence[n].validation
        /\ evidence'[n].pre = evidence[n].pre \/ (n = c.m /\ evidence'[n].pre = c.pre)
  <2> DEFINE e == [evidence[c.m] EXCEPT !.pre = c.pre, !.head = c.head]
  <2>1. evidence' = [evidence EXCEPT ![c.m] = e]
    BY <1>1, <1>4, LedgerState DEF Reconciled
  <2>2. e.pre = c.pre /\ e.validation = evidence[c.m].validation
    BY <1>4, LedgerState DEF EvidenceFields
  <2> HIDE DEF e
  <2> QED
    BY <1>4, <2>1, <2>2, LedgerState
<1> QED
  BY <1>1, <1>2, <1>3, <1>4, <1>6, <1>7, <1>8, StillGains, ManifestAdvances, ZenonT(60)

\* The mission ends, and its commits are no command's any more.
LEMMA EndingAdvances ==
  ASSUME RegisterInv, LedgerInv, NEW p \in Procs, Procs = {p}, CloseGate(p) \/ AbortLocked(p)
  PROVE  Advances
<1>1. PICK c : c = proc[p]
  OBVIOUS
<1>2. /\ (c.cmd = "close" /\ c.at = "gate") \/ (c.cmd = "abort" /\ c.at = "lock")
      /\ UNCHANGED <<evidence, workpiece, repo>>
  BY <1>1, ClosingPlace DEF CloseGate, AbortLocked
<1>3. DOMAIN c = Fields /\ c.seen \in Manifests /\ c.m \in Missions /\ Entered(c)
  BY <1>1, <1>2, ClosingPlace
<1>4. PICK end, kind, ret :
        /\ end \in {"closed", "aborted"}
        /\ \/ Exit(p) /\ UNCHANGED manifest
           \/ /\ manifest' = [manifest EXCEPT ![c.m] = [c.seen EXCEPT !.state = end]]
              /\ Exit(p) \/ Step(p, Appending(c, kind, ret))
  BY <1>1 DEF CloseGate, AbortLocked, ExitReleasing
<1>5. CASE Exit(p) /\ UNCHANGED manifest
  <2>1. proc'[p] = Idle
    BY <1>5, LedgerState DEF Exit, Step
  <2>2. Follows(proc[p], proc'[p])
    BY <2>1, IdleFollows
  <2> QED
    BY <1>2, <1>5, <2>2, StillGains, LedgerQuiet DEF FilesStay
<1>6. CASE ~(Exit(p) /\ UNCHANGED manifest)
  <2>1. PICK x : x = [c.seen EXCEPT !.state = end]
    OBVIOUS
  <2>2. x.state = end /\ x.materialized = c.seen.materialized
    BY <1>3, <2>1 DEF Manifests
  <2>3. manifest' = [manifest EXCEPT ![c.m] = x]
    BY <1>4, <1>6, <2>1
  <2>4. proc'[p] = Idle \/ (proc'[p].cmd # "reconcile" /\ proc'[p].m = c.m)
    <3>1. proc'[p] \in {Idle, Appending(c, kind, ret)}
      BY <1>4, <1>6, LedgerState DEF Exit, Step
    <3> QED
      BY <1>2, <1>3, <3>1 DEF Appending, Fields
  <2>5. c.seen = manifest[c.m]
    BY <1>1, <1>2, <1>3 DEF LedgerInv, Knows, Entered, On
  <2> QED
    BY <1>1, <1>2, <1>3, <1>4, <2>2, <2>3, <2>4, <2>5, StillGains, ManifestAdvances, ZenonT(60)
<1> QED
  BY <1>5, <1>6

-----------------------------------------------------------------------------
(* mission.materialize and mission.reconcile move the clone.                *)

\* The clone and the workpiece go to what is published.
PlacedFrom(r, synced, placed, s) ==
  /\ synced = Checkout(r, r.origin)
  /\ placed = CommitTree(synced, HeadTree(synced), {synced.head})
  /\ s = [placed EXCEPT !.head = synced.head]

\* What a mission sees there is what is published.
SeesPublished(r, placed, s) ==
  /\ Lined(s) /\ s.origin = r.origin
  /\ Tree(s, placed.head).ledger = Tree(r, r.origin).ledger
  /\ HeadTree(s).ledger = Tree(r, r.origin).ledger
  /\ Tree(s, s.origin).ledger = Tree(r, r.origin).ledger

LEMMA PlacedLined ==
  ASSUME NEW r, NEW synced, NEW placed, NEW s,
         HistoryOK(r), Lined(r), PlacedFrom(r, synced, placed, s)
  PROVE  SeesPublished(r, placed, s)
<1>0. /\ synced = Checkout(r, r.origin)
      /\ placed = CommitTree(synced, HeadTree(synced), {synced.head})
      /\ s = [placed EXCEPT !.head = synced.head]
  BY DEF PlacedFrom
<1>1. r.origin \in DOMAIN r.objects /\ Tree(r, r.origin) \in Trees /\ Tree(r, r.origin).ledger \in Ledgers
  BY HistoryFacts, LedgersAre DEF HistoryOK
<1>2. /\ HistoryOK(synced) /\ synced.objects = r.objects /\ synced.head = r.origin
      /\ synced.origin = r.origin /\ synced.file = Tree(r, r.origin).ledger
      /\ \A a : Ancestors(synced, a) = Ancestors(r, a)
      /\ HeadTree(synced) = Tree(r, r.origin)
  BY <1>0, <1>1, CheckoutFacts
<1>3. \A a : Tree(synced, a) = Tree(r, a)
  BY <1>2 DEF Tree
<1>4. PICK tree, P : tree = HeadTree(synced) /\ P = {synced.head}
  OBVIOUS
<1>5. tree \in Trees /\ P \in SUBSET DOMAIN synced.objects /\ synced.head \in P
      /\ placed = CommitTree(synced, tree, P) /\ tree.ledger = Tree(r, r.origin).ledger
  BY <1>0, <1>1, <1>2, <1>4
<1>6. /\ HistoryOK(placed) /\ Tree(placed, placed.head).ledger = tree.ledger
      /\ placed.file = synced.file /\ placed.origin = synced.origin
      /\ \A x \in DOMAIN synced.objects : placed.objects[x] = synced.objects[x]
  <2>1. HistoryOK(placed) /\ Tree(placed, placed.head).ledger = tree.ledger
    BY <1>2, <1>5, CommitTreeFacts
  <2>2. placed.file = synced.file /\ placed.origin = synced.origin
    BY <1>2, <1>5, CommitTreeFacts
  <2>3. \A x \in DOMAIN synced.objects : placed.objects[x] = synced.objects[x]
    BY <1>2, <1>5, CommitTreeFacts
  <2> QED
    BY <2>1, <2>2, <2>3
<1>7. Chained(placed)
  <2>1. Chained(synced)
    BY <1>2, <1>3 DEF Lined, Chained
  <2>2. \A q \in P : IsPrefix(Tree(synced, q).ledger, tree.ledger)
    BY <1>1, <1>2, <1>3, <1>4, <1>5, PrefixReflexive
  <2> QED
    BY <1>2, <1>5, <2>1, <2>2, CommitChains
<1>8. s.objects = placed.objects /\ s.head = r.origin /\ s.origin = r.origin /\ s.file = Tree(r, r.origin).ledger
  BY <1>0, <1>2, <1>6 DEF HistoryOK, Repositories
<1>9. Chained(s)
  BY <1>7, <1>8 DEF Chained, Tree, Ancestors
<1>10. Tree(s, placed.head) = Tree(placed, placed.head) /\ HeadTree(s) = Tree(r, r.origin)
       /\ Tree(s, s.origin) = Tree(r, r.origin)
  BY <1>1, <1>2, <1>6, <1>8 DEF Tree, HeadTree
<1> QED
  BY <1>1, <1>5, <1>6, <1>8, <1>9, <1>10, PrefixReflexive DEF Lined, SeesPublished

LEMMA MaterializeAdvances ==
  ASSUME RegisterInv, LedgerInv, NEW p \in Procs, Procs = {p}, MaterializeLocked(p)
  PROVE  Advances
<1>1. PICK c : c = proc[p]
  OBVIOUS
<1>2. c.cmd = "materialize" /\ DOMAIN c = Fields /\ Entered(c) /\ UNCHANGED <<manifest, evidence>>
  <2>1. c.at = "lock" /\ c.cmd = "materialize" /\ Place(c) /\ DOMAIN c = Fields
    BY <1>1 DEF MaterializeLocked, RegisterInv, Places, PlaceOK
  <2> QED
    BY <2>1 DEF MaterializeLocked, Place, Idle
<1>3. PICK m : m = c.m
  OBVIOUS
<1>4. m \in Missions /\ manifest[m].state = "open" /\ Engaged(m)
  BY <1>2, <1>3 DEF Entered, On, Engaged
<1>5. evidence[m].pre = None
  <2>1. ~manifest[m].materialized
    BY <1>1, <1>2, <1>3, <1>4 DEF LedgerInv, Knows
  <2> QED
    BY <1>4, <2>1, SettledHold DEF Settled
<1>6. PICK synced, placed :
        /\ synced = Checkout(repo, repo.origin)
        /\ placed = CommitTree(synced, HeadTree(synced), {synced.head})
        /\ repo' = [placed EXCEPT !.head = synced.head]
        /\ workpiece' = [workpiece EXCEPT ![m] =
             [NoWorkpiece EXCEPT !.at = placed.head, !.edits = HeadTree(placed).edits]]
  BY <1>1, <1>3 DEF MaterializeLocked
<1>7. /\ Lined(repo') /\ repo'.origin = repo.origin
      /\ Tree(repo', placed.head).ledger = PublishedLedger
      /\ HeadTree(repo').ledger = PublishedLedger
      /\ Tree(repo', repo'.origin).ledger = PublishedLedger
  <2>1. PICK r, s : r = repo /\ s = repo'
    OBVIOUS
  <2>2. HistoryOK(r) /\ Lined(r) /\ PublishedLedger = Tree(r, r.origin).ledger
    BY <2>1, LedgerState
  <2>3. PlacedFrom(r, synced, placed, s)
    BY <1>6, <2>1 DEF PlacedFrom
  <2>4. SeesPublished(r, placed, s)
    BY <2>2, <2>3, PlacedLined
  <2> QED
    BY <2>1, <2>2, <2>4 DEF SeesPublished
<1>8. workpiece'[m].at = placed.head
  <2>1. PICK at, edits : at = placed.head /\ edits = HeadTree(placed).edits
    OBVIOUS
  <2>2. workpiece' = [workpiece EXCEPT ![m] = [NoWorkpiece EXCEPT !.at = at, !.edits = edits]]
    BY <1>6, <2>1
  <2> QED
    BY <1>4, <2>1, <2>2, LedgerState DEF NoWorkpiece
<1>9. PICK rec : rec = proc'[p]
  OBVIOUS
<1>10. rec.cmd = "materialize" /\ rec.m = c.m /\ rec.seen = c.seen
  <2>1. rec = Appending(c, "preflight-skipped", "materialized") \/ rec = [c EXCEPT !.at = "materialized"]
    BY <1>1, <1>9, LedgerState DEF MaterializeLocked, Step
  <2> QED
    BY <1>2, <2>1 DEF Appending, Fields
<1>11. ASSUME NEW n \in Missions PROVE Carried(n)'
  <2>1. CASE n = m
    <3>1. Bases(n)' \subseteq {placed.head}
      BY <1>2, <1>5, <1>8, <1>9, <1>10, <2>1 DEF Bases
    <3>2. IsPrefix(PublishedLedger, PublishedLedger)
      BY LedgerState, PrefixReflexive
    <3> QED
      BY <1>7, <1>8, <2>1, <3>1, <3>2 DEF Carried, Both
  <2>2. CASE n # m
    <3>1. manifest'[n].state # "open"
      BY <1>2, <1>4, <2>2 DEF RegisterInv, Record, Engaged
    <3> QED
      BY <3>1 DEF Carried
  <2> QED
    BY <2>1, <2>2
<1>12. \A n \in Missions : Settled(n)'
  BY <1>2, SettledHold DEF Settled
<1>13. Knows(proc[p])'
  BY <1>1, <1>2, <1>9, <1>10 DEF LedgerInv, Knows
<1>14. PublishedLedger' = PublishedLedger
  BY <1>7 DEF PublishedLedger, Tree
<1> QED
  BY <1>7, <1>11, <1>12, <1>13, <1>14, LedgerState, PrefixReflexive DEF Advances, LedgerInv

\* Both sides keep these entries, and the bare repository all of its own.
Leads(r, s, l) ==
  /\ HistoryOK(s) /\ Lined(s)
  /\ DOMAIN r.objects \subseteq DOMAIN s.objects
  /\ \A c \in DOMAIN r.objects : s.objects[c] = r.objects[c]
  /\ IsPrefix(Tree(r, r.origin).ledger, Tree(s, s.origin).ledger)
  /\ Both(s, l)

LEMMA LeadsOn ==
  ASSUME NEW r, HistoryOK(r), NEW l \in Ledgers, NEW s, Leads(r, s, l), NEW t, Gains(s, t)
  PROVE  Leads(r, t, l)
<1>1. /\ Tree(r, r.origin).ledger \in Ledgers /\ Tree(s, s.origin).ledger \in Ledgers
      /\ Tree(t, t.origin).ledger \in Ledgers
  BY LedgersAre DEF Gains, Leads
<1>2. IsPrefix(Tree(r, r.origin).ledger, Tree(t, t.origin).ledger)
  BY <1>1, PrefixTransitive DEF Gains, Leads
<1>3. \A c \in DOMAIN r.objects : t.objects[c] = r.objects[c]
  BY DEF Gains, Leads
<1> QED
  BY <1>2, <1>3 DEF Gains, Leads

\* A reconcile may take the clone back, but not behind the workpiece's start.
LEMMA ReconcileLeads ==
  ASSUME NEW r, HistoryOK(r), Lined(r), NEW pre \in {None} \cup DOMAIN r.objects,
         NEW at \in DOMAIN r.objects, NEW edits \in SUBSET Edits,
         NEW l, l = Tree(r, at).ledger, Both(r, l),
         pre # None => IsPrefix(l, Tree(r, pre).ledger),
         NEW clean, clean = CommitAll(r),
         NEW base, base = BackTo(clean, pre),
         NEW merged, merged = MergeWorkpiece(base, at, edits),
         NEW s \in {base, merged, Push(merged)}
  PROVE  Leads(r, s, l) /\ IsPrefix(l, Tree(s, clean.head).ledger)
<1>1. l \in Ledgers
  BY LedgersAre
<1>2. Gains(r, clean) /\ HistoryOK(clean) /\ Lined(clean)
  BY CommitAllGains DEF Gains
<1>3. Leads(r, clean, l)
  BY <1>1, <1>2 DEF Gains, Leads
<1>4. /\ Leads(r, base, l) /\ base.objects = clean.objects
  <2>1. CASE pre = None
    BY <1>3, <2>1 DEF BackTo
  <2>2. CASE pre # None
    <3>1. pre \in DOMAIN clean.objects /\ Tree(clean, pre) = Tree(r, pre)
      BY <1>3, <2>2 DEF Leads, Tree
    <3>2. /\ HistoryOK(base) /\ base.objects = clean.objects /\ base.origin = clean.origin
          /\ base.file = Tree(clean, pre).ledger /\ HeadTree(base) = Tree(clean, pre)
          /\ \A a : Ancestors(base, a) = Ancestors(clean, a)
      BY <1>2, <2>2, <3>1, CheckoutFacts DEF BackTo
    <3>3. Tree(clean, pre).ledger \in Ledgers
      BY <1>2, <3>1, LedgersAre
    <3>4. Lined(base)
      <4>1. Chained(base)
        BY <1>2, <3>2 DEF Lined, Chained, Tree
      <4> QED
        BY <3>2, <3>3, <4>1, PrefixReflexive DEF Lined
    <3>5. Tree(base, base.origin) = Tree(clean, clean.origin)
      BY <3>2 DEF Tree
    <3>6. Both(base, l)
      BY <1>3, <2>2, <3>1, <3>2, <3>5 DEF Leads, Both
    <3> QED
      BY <1>3, <3>2, <3>4, <3>5, <3>6 DEF Leads
  <2> QED
    BY <2>1, <2>2
<1>5. HistoryOK(base) /\ Lined(base) /\ at \in DOMAIN base.objects /\ Tree(base, at).ledger = l
  BY <1>4 DEF Leads, Tree
<1>6. Gains(base, merged) /\ HistoryOK(merged) /\ Lined(merged)
  <2>1. IsPrefix(Tree(base, at).ledger, HeadTree(base).ledger)
    BY <1>4, <1>5 DEF Leads, Both
  <2> QED
    BY <1>5, <2>1, MergeGains DEF Gains
<1>7. Gains(base, Push(merged))
  <2>1. Gains(merged, Push(merged))
    BY <1>6, PushGains
  <2> QED
    BY <1>5, <1>6, <2>1, GainsTransitive
<1>8. Gains(base, s)
  BY <1>5, <1>6, <1>7, GainsReflexive
<1>9. Leads(r, s, l)
  BY <1>1, <1>4, <1>8, LeadsOn
<1>10. IsPrefix(l, Tree(s, clean.head).ledger)
  <2>1. clean.head \in DOMAIN clean.objects /\ IsPrefix(l, Tree(clean, clean.head).ledger)
    BY <1>2, <1>3, LedgersAre DEF Leads, Both
  <2>2. Tree(s, clean.head) = Tree(clean, clean.head)
    BY <1>4, <1>8, <2>1 DEF Gains, Tree
  <2> QED
    BY <2>1, <2>2
<1> QED
  BY <1>9, <1>10

LEMMA ReconcileAdvances ==
  ASSUME RegisterInv, LedgerInv, NEW p \in Procs, Procs = {p}, ReconcileLocked(p)
  PROVE  Advances
<1>1. PICK c : c = proc[p]
  OBVIOUS
<1>2. c.cmd = "reconcile" /\ DOMAIN c = Fields /\ Entered(c) /\ UNCHANGED <<manifest, evidence>>
  <2>1. c.at = "lock" /\ c.cmd = "reconcile" /\ Place(c) /\ DOMAIN c = Fields
    BY <1>1 DEF ReconcileLocked, RegisterInv, Places, PlaceOK
  <2> QED
    BY <2>1 DEF ReconcileLocked, Place, Idle
<1>3. PICK m : m = c.m
  OBVIOUS
<1>4. m \in Missions /\ manifest[m].state = "open" /\ Engaged(m)
  BY <1>2, <1>3 DEF Entered, On, Engaged
<1>5. CASE UNCHANGED <<workpiece, repo>> /\ Exit(p)
  <2>1. proc'[p] = Idle
    BY <1>5, LedgerState DEF Exit, Step
  <2>2. Follows(proc[p], proc'[p])
    BY <2>1, IdleFollows
  <2> QED
    BY <1>2, <1>5, <2>2, StillGains, LedgerQuiet DEF FilesStay
<1>6. CASE ~(UNCHANGED <<workpiece, repo>> /\ Exit(p))
  <2>1. workpiece[m].at # None /\ workpiece' = CommitWorkpiece(m)
    BY <1>1, <1>3, <1>6 DEF ReconcileLocked
  <2>2. PICK pre, at, edits :
          /\ pre = evidence[m].pre /\ at = workpiece[m].at /\ edits = Content(m)
          /\ pre \in {None} \cup DOMAIN repo.objects /\ at \in DOMAIN repo.objects
          /\ edits \in SUBSET Edits /\ at # None
    BY <1>4, <2>1, ManifestFacts, ContentIsEdits DEF FilesOK
  <2>3. PICK clean : clean = CommitAll(repo)
    OBVIOUS
  <2>4. PICK base : base = BackTo(clean, pre)
    OBVIOUS
  <2>5. PICK merged : merged = MergeWorkpiece(base, at, edits)
    OBVIOUS
  <2>6. PICK rec : /\ rec = proc'[p] /\ repo' \in {base, merged, Push(merged)}
                   /\ \/ rec = Idle
                      \/ rec.cmd = c.cmd /\ rec.m = c.m /\ rec.seen = c.seen /\ rec.pre = clean.head
    <3>1. CASE repo' = base /\ Exit(p)
      BY <3>1, LedgerState DEF Exit, Step
    <3>2. CASE ~(repo' = base /\ Exit(p))
      <4>1. repo' \in {merged, Push(merged)}
        BY <1>1, <1>3, <1>6, <2>2, <2>3, <2>4, <2>5, <3>2 DEF ReconcileLocked, BackTo
      <4>2. PICK head : head = WorkpieceHead(workpiece'[m])
        OBVIOUS
      <4> DEFINE done == [c EXCEPT !.pre = clean.head, !.head = head]
      <4>3. Step(p, Syncing(done, "reconciled")) \/ Step(p, [done EXCEPT !.at = "reconciled"])
        BY <1>1, <1>3, <1>6, <2>2, <2>3, <2>4, <3>2, <4>2 DEF ReconcileLocked, BackTo
      <4>4. DOMAIN done = Fields /\ done.cmd = c.cmd /\ done.m = c.m /\ done.seen = c.seen
            /\ done.pre = clean.head
        BY <1>2 DEF Fields
      <4> HIDE DEF done
      <4>5. PICK rec : rec = proc'[p]
        OBVIOUS
      <4>6. rec = Syncing(done, "reconciled") \/ rec = [done EXCEPT !.at = "reconciled"]
        BY <4>3, <4>5, LedgerState DEF Step
      <4>7. rec.cmd = c.cmd /\ rec.m = c.m /\ rec.seen = c.seen /\ rec.pre = clean.head
        BY <4>4, <4>6 DEF Syncing, Fields
      <4> QED
        BY <4>1, <4>5, <4>7
    <3> QED
      BY <3>1, <3>2
  <2>7. PICK l : l = Tree(repo, at).ledger
    OBVIOUS
  <2>8. Both(repo, l) /\ \A b \in Bases(m) : IsPrefix(l, Tree(repo, b).ledger)
    BY <1>4, <2>1, <2>2, <2>7, SettledHold DEF Carried
  <2>9. Leads(repo, repo', l) /\ IsPrefix(l, Tree(repo', clean.head).ledger)
    <3>1. pre # None => IsPrefix(l, Tree(repo, pre).ledger)
      BY <2>2, <2>8 DEF Bases
    <3>2. PICK s : s = repo'
      OBVIOUS
    <3>3. s \in {base, merged, Push(merged)}
      BY <2>6, <3>2
    <3>4. Leads(repo, s, l) /\ IsPrefix(l, Tree(s, clean.head).ledger)
      BY <2>2, <2>3, <2>4, <2>5, <2>7, <2>8, <3>1, <3>3, LedgerState, ReconcileLeads
    <3> QED
      BY <3>2, <3>4
  <2>10. \A n \in Missions : workpiece'[n].at = workpiece[n].at
    BY <1>4, <2>1, CommitWorkpieceFacts
  <2>11. \A b \in DOMAIN repo.objects : Tree(repo', b) = Tree(repo, b)
    BY <2>9 DEF Leads, Tree
  <2>12. ASSUME NEW n \in Missions PROVE Carried(n)'
    <3>1. CASE n = m
      <4>1. Tree(repo', workpiece'[n].at).ledger = l
        BY <2>2, <2>7, <2>10, <2>11, <3>1
      <4>2. \A b \in Bases(n)' : b \in Bases(m) \/ b = clean.head
        <5>1. workpiece'[n].at = workpiece[m].at /\ evidence'[n].pre = evidence[m].pre
          BY <1>2, <2>10, <3>1
        <5>2. proc'[p].cmd = "reconcile" => proc'[p].pre = clean.head
          BY <2>6 DEF Idle
        <5> QED
          BY <5>1, <5>2 DEF Bases
      <4>3. \A b \in Bases(m) : IsPrefix(l, Tree(repo', b).ledger)
        BY <1>4, <2>8, <2>11, BasesExist
      <4>4. Both(repo', l)
        BY <2>9 DEF Leads
      <4> QED
        BY <2>9, <4>1, <4>2, <4>3, <4>4 DEF Carried
    <3>2. CASE n # m
      <4>1. manifest'[n].state # "open"
        BY <1>2, <1>4, <3>2 DEF RegisterInv, Record, Engaged
      <4> QED
        BY <4>1 DEF Carried
    <3> QED
      BY <3>1, <3>2
  <2>13. \A n \in Missions : Settled(n)'
    BY <1>2, SettledHold DEF Settled
  <2>14. Knows(proc[p])'
    BY <1>1, <1>2, <2>6 DEF LedgerInv, Knows, Idle
  <2>15. PublishedLedger' = Tree(repo', repo'.origin).ledger
    BY DEF PublishedLedger, Tree
  <2> QED
    BY <2>9, <2>12, <2>13, <2>14, <2>15, LedgerState DEF Advances, LedgerInv, Leads
<1> QED
  BY <1>5, <1>6

-----------------------------------------------------------------------------

LEMMA InitLedger == ASSUME Init PROVE LedgerInv
<1>1. RegisterInv
  BY InitRegister
<1>2. DOMAIN repo.objects = {1} /\ repo.head = 1 /\ repo.file = <<>> /\ Tree(repo, 1).ledger = <<>>
      /\ repo.objects[1].older = {}
  BY DEF Init, FreshRepository, Tree
<1>3. <<>> \in Ledgers
  BY DEF Ledgers
<1>4. Lined(repo)
  BY <1>2, <1>3, PrefixReflexive DEF Lined, Chained, Ancestors, HeadTree, Tree
<1>5. NoManifest.state = "none" /\ ~NoManifest.materialized
      /\ NoEvidence.validation = "none" /\ NoEvidence.pre = None /\ Idle.cmd = "none"
  BY DEF NoManifest, NoEvidence, Idle
<1>6. \A m \in Missions : Carried(m) /\ Settled(m)
  BY <1>5 DEF Init, Carried, Settled
<1>7. \A p \in Procs : Knows(proc[p])
  BY <1>5 DEF Init, Knows
<1> QED
  BY <1>4, <1>6, <1>7 DEF LedgerInv

LEMMA LedgerUnchanged ==
  ASSUME RegisterInv, LedgerInv, UNCHANGED <<manifest, evidence, workpiece, repo, proc>>
  PROVE  Advances
<1>1. \A m \in Missions : Bases(m)' = Bases(m)
  BY DEF Bases
<1>2. \A m \in Missions : Carried(m)' /\ Settled(m)'
  BY <1>1, SettledHold DEF Carried, Settled, Both, HeadTree, Tree
<1>3. \A p \in Procs : Knows(proc[p])'
  BY DEF LedgerInv, Knows
<1>4. Lined(repo') /\ PublishedLedger' = PublishedLedger
  BY LedgerState DEF PublishedLedger
<1> QED
  BY <1>2, <1>3, <1>4, LedgerState, PrefixReflexive DEF Advances, LedgerInv

LEMMA LedgerStep ==
  ASSUME Solo, "rematerialize" \notin Commands, RegisterInv, LedgerInv, [Next]_vars
  PROVE  Advances
<1>1. CASE UNCHANGED vars
  BY <1>1, LedgerUnchanged DEF vars
<1>2. ASSUME NEW p \in Procs, Begin(p) PROVE Advances
  <2>1. Procs = {p}
    BY <1>2 DEF Solo
  <2> QED
    BY <1>2, <2>1, BeginAdvances, NothingToRepair, StartAdvances, ValidatesAdvance, EditsAdvance
       DEF Begin
<1>3. ASSUME NEW p \in Procs, Continue(p) PROVE Advances
  <2>1. Procs = {p}
    BY <1>3 DEF Solo
  <2>2. CASE LockRefused(p) \/ ReconcileUnvalidated(p)
    BY <2>1, <2>2, RefusedAdvance
  <2>3. CASE AppendRead(p) \/ AppendSilenced(p) \/ AppendWrite(p) \/ CommitLedgerStep(p)
    BY <2>1, <2>3, AppendingAdvances
  <2>4. CASE OpenLocked(p) \/ Opened(p)
    BY <2>1, <2>4, OpenAdvances, OpenedAdvances
  <2>5. CASE MaterializeLocked(p) \/ Materialized(p)
    BY <2>1, <2>5, MaterializeAdvances, MaterializedAdvances
  <2>6. CASE SyncPush(p) \/ SyncMirrors(p) \/ SyncRef(p)
    BY <2>1, <2>6, SyncsAdvance
  <2>7. CASE ReconcileLocked(p) \/ Reconciled(p)
    BY <2>1, <2>7, ReconcileAdvances, ReconciledAdvances
  <2>8. CASE CloseLocked(p)
    BY <2>1, <2>8, CloseAdvances
  <2>9. CASE CloseGate(p) \/ AbortLocked(p)
    BY <2>1, <2>9, EndingAdvances
  <2>10. CASE CloseAudit(p) \/ CloseArchive(p) \/ CloseSettle(p) \/ CloseSeal(p) \/ Aborted(p)
    BY <2>1, <2>10, EndedAdvance
  <2> QED
    BY <1>3, <2>2, <2>3, <2>4, <2>5, <2>6, <2>7, <2>8, <2>9, <2>10 DEF Continue
<1>4. ASSUME NEW p \in Procs, Crash(p) PROVE Advances
  BY <1>4 DEF Crash, Solo
<1>5. ASSUME NEW l \in Missions \cup {SystemLock}, RecoverLock(l) PROVE Advances
  BY <1>5, LedgerUnchanged DEF RecoverLock
<1> QED
  BY <1>1, <1>2, <1>3, <1>4, <1>5 DEF Next

\* Whatever git command fails, a single operator who materializes each mission
\* once never takes an entry back from the bare repository: the clone may be
\* reset by an opening, a materialization or a second reconcile, but what it
\* pushes afterwards still begins with everything published.
THEOREM PublishedLedgerOnlyGrows ==
  ASSUME Solo, "rematerialize" \notin Commands PROVE Spec => PublishedLedgerGrows
<1>1. Init => LedgerInv
  BY InitLedger
<1>2. RegisterInv /\ LedgerInv /\ [Next]_vars =>
        LedgerInv' /\ [IsPrefix(PublishedLedger, PublishedLedger')]_vars
  BY LedgerStep DEF Advances
<1> QED
  BY <1>1, <1>2, RegisterHolds, PTL DEF Spec, PublishedLedgerGrows

=============================================================================
