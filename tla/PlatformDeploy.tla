--------------------------- MODULE PlatformDeploy ---------------------------
(* Platform artifacts on a host: building and signing one, verifying it,   *)
(* switching the current and previous links, rolling back, and collecting  *)
(* old ones; each command is several file operations, and they overlap     *)
(* (deploy/: artifact-build, artifact-verify, atomic-swap,                 *)
(* atomic-rollback, artifact-gc).                                          *)
EXTENDS Naturals, FiniteSets, Sequences, SequencesExt

CONSTANTS
  Hashes, \* tree hashes of the dist trees that may be built
  Retain, \* --retain
  Keyed   \* SIGNING_PRIVATE_KEY is set

VARIABLES
  dirs,      \* directories under platform/, newest first, with what they hold
  current, previous, \* the links
  worker,    \* deploy.artifact.build, .swap or .rollback, one at a time
  gc,        \* deploy.artifact.gc: what it still wants to delete
  switched,  \* history: what the current link was set to, and whether it verified
  overlapped \* history: the collector ran while a link was being switched

vars == <<dirs, current, previous, worker, gc, switched, overlapped>>

None == "none"
Idle == [op |-> "idle", hash |-> None, old |-> None]
NotRunning == [running |-> FALSE, candidates |-> {}]
Dir(name, tree, manifest, signature) ==
  [name |-> name, tree |-> tree, manifest |-> manifest, signature |-> signature]
Names == {dirs[i].name : i \in DOMAIN dirs}
IndexOf(name) == CHOOSE i \in DOMAIN dirs : dirs[i].name = name
Named(name) == dirs[IndexOf(name)]
Without(name) == IF name \in Names THEN RemoveAt(dirs, IndexOf(name)) ELSE dirs

Init ==
  /\ dirs = <<>> /\ current = None /\ previous = None
  /\ worker = Idle /\ gc = NotRunning
  /\ switched = {} /\ overlapped = FALSE

(* deploy.artifact.build: the dist trees are copied to a staging directory *)
(* beside the artifacts.                                                   *)
BuildStages(tree) ==
  /\ worker.op = "idle"
  /\ worker' = [Idle EXCEPT !.op = "staged", !.hash = tree]
  /\ dirs' = <<Dir("staging", tree, None, None)>> \o Without("staging")
  /\ UNCHANGED <<current, previous, gc, switched, overlapped>>

(* An artifact with this hash is reused, the staging directory removed;    *)
(* otherwise it is renamed, unless the collector has taken it.             *)
BuildRenames ==
  /\ worker.op = "staged"
  /\ IF worker.hash \in Names \/ "staging" \notin Names
     THEN dirs' = Without("staging") /\ worker' = Idle
     ELSE /\ dirs' = <<Dir(worker.hash, worker.hash, None, None)>> \o Without("staging")
          /\ worker' = [worker EXCEPT !.op = "renamed"]
  /\ UNCHANGED <<current, previous, gc, switched, overlapped>>

(* What is signed: the manifest with its empty signature and its           *)
(* algorithm; what is verified: the manifest without the two.              *)
SignedFields == {"hash", "files", "totalSize", "builtAt", "gitSha", "buildHost",
                 "signature", "signatureAlgorithm"}
VerifiedFields == {"hash", "files", "totalSize", "builtAt", "gitSha", "buildHost"}

Edit(name, d) == [i \in DOMAIN dirs |-> IF dirs[i].name = name THEN d ELSE dirs[i]]

(* writeManifest makes the directory anew should it be gone.               *)
BuildWritesManifest ==
  LET d == Dir(worker.hash, IF worker.hash \in Names THEN worker.hash ELSE None,
               worker.hash, IF Keyed THEN "signed" ELSE None)
  IN  /\ worker.op = "renamed"
      /\ dirs' = IF worker.hash \in Names THEN Edit(worker.hash, d) ELSE <<d>> \o dirs
      /\ worker' = Idle
      /\ UNCHANGED <<current, previous, gc, switched, overlapped>>

(* deploy.artifact.verify: the tree must hash to what the manifest says,   *)
(* and a signature must be over what is verified.                          *)
Verified(name) ==
  /\ name \in Names
  /\ Named(name).manifest # None /\ Named(name).tree = Named(name).manifest
  /\ Named(name).signature # None => SignedFields = VerifiedFields

(* deploy.atomic.swap reads the current link once it has verified.         *)
SwapVerifies(hash) ==
  /\ worker.op = "idle" /\ Verified(hash)
  /\ worker' = [op |-> "swapping", hash |-> hash, old |-> current]
  /\ overlapped' = (overlapped \/ gc.running) /\ switched' = {}
  /\ UNCHANGED <<dirs, current, previous, gc>>

\* Fault: the previous link is kept when there is one.
KeepFirstPrevious ==
  /\ worker.op = "swapping"
  /\ previous' = IF previous = None /\ worker.old \notin {None, worker.hash}
                 THEN worker.old ELSE previous
  /\ worker' = [worker EXCEPT !.op = "switching"]
  /\ UNCHANGED <<dirs, current, gc, switched, overlapped>>

(* The previous link first, unless nothing changes.                        *)
SwapSetsPrevious ==
  /\ worker.op = "swapping"
  /\ previous' = IF worker.old \notin {None, worker.hash} THEN worker.old ELSE previous
  /\ worker' = [worker EXCEPT !.op = "switching"]
  /\ UNCHANGED <<dirs, current, gc, switched, overlapped>>

(* deploy.atomic.rollback: nothing to go back to, a missing directory or a *)
(* failed verification end it.                                             *)
RollbackVerifies ==
  /\ worker.op = "idle" /\ previous # None /\ Verified(previous)
  /\ worker' = [op |-> "switching", hash |-> previous, old |-> current]
  /\ overlapped' = (overlapped \/ gc.running) /\ switched' = {}
  /\ UNCHANGED <<dirs, current, previous, gc>>

(* atomicSymlinkSwap of the current link, by swap and rollback.            *)
SetCurrent ==
  /\ worker.op = "switching"
  /\ current' = worker.hash
  /\ switched' = {[hash |-> worker.hash, from |-> worker.old]}
  /\ worker' = Idle
  /\ UNCHANGED <<dirs, previous, gc, overlapped>>

(* The process dies; what it has done so far stays, staging included.      *)
Crash ==
  /\ worker.op # "idle" /\ worker' = Idle
  /\ UNCHANGED <<dirs, current, previous, gc, switched, overlapped>>

\* Fault: only the current link protects.
OnlyCurrent == {current}

Referenced == {current, previous}

(* deploy.artifact.gc reads both links, then lists every directory; beyond *)
(* the newest ones those no link names are candidates.                     *)
GcReads ==
  /\ ~ gc.running /\ dirs # <<>>
  /\ gc' = [running |-> TRUE,
            candidates |-> {dirs[i].name : i \in {j \in DOMAIN dirs :
                              j > Retain /\ dirs[j].name \notin Referenced}}]
  /\ overlapped' = (overlapped \/ worker.op \in {"swapping", "switching"})
  /\ UNCHANGED <<dirs, current, previous, worker, switched>>

(* One after the other, newest first.                                      *)
GcDeletes(name) ==
  /\ name \in gc.candidates
  /\ \A i, j \in DOMAIN dirs :
       dirs[i].name = name /\ dirs[j].name \in gc.candidates => i <= j
  /\ dirs' = Without(name)
  /\ gc' = [gc EXCEPT !.candidates = @ \ {name}]
  /\ UNCHANGED <<current, previous, worker, switched, overlapped>>

GcEnds ==
  /\ gc.running /\ gc.candidates = {} /\ gc' = NotRunning
  /\ UNCHANGED <<dirs, current, previous, worker, switched, overlapped>>

(* Files of an artifact change on disk; bound of the model: while nothing  *)
(* else runs.                                                              *)
Corrupt(name) ==
  /\ worker.op = "idle" /\ ~ gc.running
  /\ name \in Names /\ name \notin Referenced /\ Named(name).tree \in Hashes
  /\ dirs' = Edit(name, [Named(name) EXCEPT !.tree = "other"])
  /\ UNCHANGED <<current, previous, worker, gc, switched, overlapped>>

Next ==
  \/ \E hash \in Hashes : BuildStages(hash) \/ SwapVerifies(hash) \/ Corrupt(hash)
  \/ BuildRenames \/ BuildWritesManifest
  \/ SwapSetsPrevious \/ RollbackVerifies \/ SetCurrent \/ Crash
  \/ GcReads \/ GcEnds \/ \E name \in gc.candidates : GcDeletes(name)

Spec == Init /\ [][Next]_vars
-----------------------------------------------------------------------------
TypeOK ==
  /\ {current, previous} \subseteq Hashes \cup {None}
  /\ Names \subseteq Hashes \cup {"staging"} /\ Cardinality(Names) = Len(dirs)
  /\ worker.op \in {"idle", "staged", "renamed", "swapping", "switching"}

(* As long as no collection overlapped a switch, both links name artifacts *)
(* that are there with a manifest, through crashes of builds and swaps.    *)
LinksStand ==
  ~ overlapped => \A h \in {current, previous} \ {None} :
                    h \in Names /\ Named(h).manifest # None

(* After a switch away from an artifact, and whatever happened before, the *)
(* artifact it went away from can be gone back to, or the switch was a     *)
(* rollback.                                                               *)
WayBack ==
  worker.op = "idle" => \A s \in switched :
    s.from \notin {None, s.hash} => previous \in {s.from, s.hash}

(* A signed artifact that nobody has touched verifies.                     *)
SignedArtifactsVerify ==
  \A i \in DOMAIN dirs :
    dirs[i].signature # None /\ dirs[i].tree = dirs[i].manifest => Verified(dirs[i].name)

(* The links stand whatever overlaps.                                      *)
ReferencedIsNeverDeleted ==
  \A h \in {current, previous} \ {None} : h \in Names
=============================================================================
