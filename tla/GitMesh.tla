------------------------------ MODULE GitMesh -------------------------------
(* gitmesh.sync and gitmesh.verify over one clone: the lock file with its  *)
(* takeover, fetching from remotes that move and are force-pushed, the     *)
(* choice by committer timestamp, the fast-forward, and the incremental    *)
(* check of signatures (kernel/gitmesh/: sync, verify, git-ops, status).   *)
EXTENDS Naturals, FiniteSets

CONSTANTS
  Commits,  \* 0 is the root
  Parent,   \* the parent of each commit but the root
  AncestorsOf, \* what git counts as reachable from each commit, itself included
  Time,     \* committer timestamps
  Signed,   \* commits whose signature git reports as good
  Remotes,  \* config.remotes
  Syncs     \* processes that may run gitmesh.sync

VARIABLES
  head,      \* HEAD of the clone
  remote,    \* the tracked branch at each remote
  tracking,  \* refs/remotes/<remote>/<branch>
  lock,      \* .git/gitmesh.lock: "none", "empty", "fresh" or "stale"
  sync,      \* each process: phase, remotes left to fetch, the commit chosen, and
             \* whether its signatures were verified
  broken,    \* history: a lock was taken over
  had,       \* history: commits HEAD has been at
  received,  \* history: commits a sync that verifies signatures has brought in
  last,      \* .git/gitmesh.last-verified
  verify,    \* gitmesh.verify: the HEAD it has read
  counted    \* history: commits some gitmesh.verify has counted

vars == <<head, remote, tracking, lock, sync, broken, had, received, last, verify, counted>>

None == 99
Ancestors(c) == IF c = None THEN {} ELSE AncestorsOf[c]
IsAncestor(a, b) == a \in Ancestors(b)
Idle == [phase |-> "idle", verifySignatures |-> FALSE, left |-> {}, fetched |-> {}, chosen |-> None]

Init ==
  /\ head = 0 /\ remote = [r \in Remotes |-> 0] /\ tracking = remote
  /\ lock = "none" /\ sync = [p \in Syncs |-> Idle] /\ broken = FALSE
  /\ had = {0} /\ received = {} /\ last = None /\ verify = None /\ counted = {}

(* Others push to the remotes, force included; the operator commits.       *)
Push(r, c) ==
  /\ c # 0 /\ remote[r] # c /\ remote' = [remote EXCEPT ![r] = c]
  /\ UNCHANGED <<head, tracking, lock, sync, broken, had, received, last, verify, counted>>

Commit(c) ==
  /\ c # 0 /\ Parent[c] = head
  /\ head' = c /\ had' = had \cup {c}
  /\ UNCHANGED <<remote, tracking, lock, sync, broken, received, last, verify, counted>>

To(p, phase) == sync' = [sync EXCEPT ![p].phase = phase]
Elsewhere == <<head, remote, tracking, had, received, last, verify, counted>>

(* acquireLock: open with "wx" makes an empty file.                        *)
OpenLock(p) ==
  /\ sync[p].phase \in {"idle", "reopen"}
  /\ IF lock = "none" THEN lock' = "empty" /\ To(p, "locked") /\ UNCHANGED broken
     ELSE IF sync[p].phase = "idle" /\ lock = "stale" THEN To(p, "break") /\ UNCHANGED <<lock, broken>>
     ELSE To(p, "idle") /\ UNCHANGED <<lock, broken>>   \* sync-in-progress
  /\ UNCHANGED Elsewhere

(* A lock older than six minutes is removed, whoever holds it by now.      *)
BreakLock(p) ==
  /\ sync[p].phase = "break"
  /\ IF lock = "none" THEN To(p, "idle") /\ UNCHANGED broken ELSE To(p, "reopen") /\ broken' = TRUE
  /\ lock' = "none"
  /\ UNCHANGED Elsewhere

(* The time is written into the file after it was opened.                  *)
StampLock(p) ==
  /\ sync[p].phase = "locked"
  /\ lock' = "fresh"
  /\ sync' = [sync EXCEPT ![p] = [Idle EXCEPT !.phase = "fetch", !.left = Remotes]]
  /\ UNCHANGED Elsewhere /\ UNCHANGED broken

SixMinutes ==
  /\ lock = "fresh" /\ lock' = "stale"
  /\ UNCHANGED <<sync, broken>> /\ UNCHANGED Elsewhere

(* The refusals: no remotes, a corrupt clone, uncommitted changes.         *)
Refuse(p) ==
  /\ sync[p].phase = "fetch" /\ sync[p].left = Remotes
  /\ To(p, "release")
  /\ UNCHANGED <<lock, broken>> /\ UNCHANGED Elsewhere

(* gitFetch from each remote; one that cannot be reached is left out.      *)
Fetch(p, r, reachable) ==
  /\ sync[p].phase = "fetch" /\ r \in sync[p].left
  /\ tracking' = IF reachable THEN [tracking EXCEPT ![r] = remote[r]] ELSE tracking
  /\ sync' = [sync EXCEPT ![p].left = @ \ {r},
                          ![p].fetched = IF reachable THEN @ \cup {remote[r]} ELSE @]
  /\ UNCHANGED <<head, remote, lock, broken, had, received, last, verify, counted>>

Latest(fetched) == CHOOSE c \in fetched : \A d \in fetched : Time[d] <= Time[c]
Acceptable(c, verifySignatures) ==
  /\ IsAncestor(head, c)
  /\ verifySignatures => Ancestors(c) \ Ancestors(head) \subseteq Signed

(* The latest of what was fetched is chosen; not a fast-forward, or a bad  *)
(* signature on the way where signatures are verified, and HEAD stays.     *)
(* config.verifySignatures is FALSE in the file autoCreateConfigFromGit    *)
(* writes, and may be either in what the operator made of it: each sync    *)
(* has loaded one or the other.                                            *)
Choose(p, verifySignatures) ==
  /\ sync[p].phase = "fetch" /\ sync[p].left = {}
  /\ IF sync[p].fetched # {} /\ Acceptable(Latest(sync[p].fetched), verifySignatures)
     THEN sync' = [sync EXCEPT ![p] = [Idle EXCEPT !.phase = "merge",
                                         !.verifySignatures = verifySignatures,
                                         !.chosen = Latest(sync[p].fetched)]]
     ELSE sync' = [sync EXCEPT ![p] = [Idle EXCEPT !.phase = "release"]]
  /\ UNCHANGED <<lock, broken>> /\ UNCHANGED Elsewhere

\* Fault: the branch is merged as it is tracked now, not as it was checked.
MergeTracked(c) == LET t == {tracking[r] : r \in Remotes}
                   IN  IF \E d \in t : IsAncestor(c, d)
                       THEN CHOOSE d \in t : IsAncestor(c, d) ELSE c

Merged(c) == c

(* git merge --ff-only of the chosen commit; git refuses when HEAD has     *)
(* moved off its line meanwhile.                                           *)
MergeFfOnly(p) ==
  LET c == Merged(sync[p].chosen)
  IN  /\ sync[p].phase = "merge"
      /\ IF IsAncestor(head, c)
         THEN /\ head' = c /\ had' = had \cup {c}
              /\ received' = IF sync[p].verifySignatures
                             THEN received \cup (Ancestors(c) \ Ancestors(head)) ELSE received
         ELSE UNCHANGED <<head, had, received>>
      /\ sync' = [sync EXCEPT ![p] = [Idle EXCEPT !.phase = "release"]]
      /\ UNCHANGED <<remote, tracking, lock, broken, last, verify, counted>>

(* The lock file is unlinked by name.                                      *)
ReleaseLock(p) ==
  /\ sync[p].phase = "release"
  /\ lock' = "none" /\ To(p, "idle")
  /\ UNCHANGED broken /\ UNCHANGED Elsewhere

Crash(p) ==
  /\ sync[p].phase # "idle" /\ sync' = [sync EXCEPT ![p] = Idle]
  /\ UNCHANGED <<lock, broken>> /\ UNCHANGED Elsewhere

(* gitmesh.verify reads HEAD and checks what is new since the last time;   *)
(* whatever it finds, the HEAD it read becomes the last verified one.      *)
VerifyReadsHead ==
  /\ verify = None /\ verify' = head
  /\ UNCHANGED <<head, remote, tracking, lock, sync, broken, had, received, last, counted>>

\* Fault: what is recorded is HEAD at the end of the check.
RecordPresentHead == head

Recorded == verify

VerifyRecords ==
  /\ verify # None
  /\ counted' = counted \cup (Ancestors(verify) \ Ancestors(last))
  /\ last' = Recorded /\ verify' = None
  /\ UNCHANGED <<head, remote, tracking, lock, sync, broken, had, received>>

Next ==
  \/ \E r \in Remotes, c \in Commits : Push(r, c)
  \/ \E c \in Commits : Commit(c)
  \/ \E p \in Syncs :
       \/ OpenLock(p) \/ BreakLock(p) \/ StampLock(p) \/ Refuse(p)
       \/ \E verifySignatures \in BOOLEAN : Choose(p, verifySignatures)
       \/ MergeFfOnly(p) \/ ReleaseLock(p) \/ Crash(p)
       \/ \E r \in Remotes, reachable \in BOOLEAN : Fetch(p, r, reachable)
  \/ SixMinutes \/ VerifyReadsHead \/ VerifyRecords

Spec == Init /\ [][Next]_vars
-----------------------------------------------------------------------------
TypeOK ==
  /\ head \in Commits /\ lock \in {"none", "empty", "fresh", "stale"}
  /\ \A r \in Remotes : remote[r] \in Commits /\ tracking[r] \in Commits
  /\ \A p \in Syncs : /\ sync[p].phase \in {"idle", "reopen", "break", "locked", "fetch", "merge", "release"}
                      /\ sync[p].left \subseteq Remotes /\ sync[p].fetched \subseteq Commits
  /\ last \in Commits \cup {None} /\ counted \subseteq Commits

(* Even when two syncs overlap, and whatever is pushed or committed while  *)
(* they run: no commit HEAD has been at is lost, whether signatures are    *)
(* verified or not, and a sync that verifies them has brought in commits   *)
(* with a good one only, even if HEAD moved after it had looked.           *)
HeadKeepsHistory == had \subseteq Ancestors(head) /\ received \subseteq Signed

(* Two syncs are at work together only after a lock was taken over; a      *)
(* crash alone never lets a second one in.                                 *)
AtWork == {p \in Syncs : sync[p].phase \in {"locked", "fetch", "merge", "release"}}
OverlapNeedsTakeover == Cardinality(AtWork) > 1 => broken

(* The incremental checks leave no gap: everything behind the last         *)
(* verified commit has been counted by some check.                         *)
NothingEscapesVerification == Ancestors(last) \subseteq counted
=============================================================================
