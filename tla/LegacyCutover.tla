--------------------------- MODULE LegacyCutover ----------------------------
(* The cut from the old way of releasing to certified releases: the marker *)
(* and the deletion of old artifacts under it (certification/cutover,      *)
(* certification/cleanup).  Files appear and change meanwhile; what calls  *)
(* these functions is outside the repository.                              *)
EXTENDS Naturals, FiniteSets

CONSTANTS
  Candidates,  \* certified candidates, and rollback targets
  Paths        \* paths of old artifacts

VARIABLES
  facts,      \* what verifyCutover is asked about, one flag per check
  marker,     \* the marker, or NoMarker
  disk,       \* what is at each path: "legacy", "kept", "protected", "gone"
  inventory,  \* the last inventory: disk as it was read, or NoInventory
  plan,       \* the plan and the inventory it was built from
  tombstones, \* paths deleted under the plan
  mains       \* the candidate certified on main

vars == <<facts, marker, disk, inventory, plan, tombstones, mains>>

NoMarker == [candidate |-> "none"]
None == [p \in {} |-> "none"]

Facts == [legacyReads : BOOLEAN, dev : BOOLEAN, alt : BOOLEAN, main : BOOLEAN,
          evaluators : BOOLEAN, window : BOOLEAN, revoked : BOOLEAN]

(* verifyCutover for a candidate and its rollback target: legacy reads are *)
(* refused first; decisions of all gates and of an evaluator, a completed  *)
(* health window, health not revoked and another candidate to go back to.  *)
VerifyCutover(f, candidate, rollback) ==
  /\ ~ f.legacyReads /\ f.dev /\ f.alt /\ f.main /\ f.evaluators /\ f.window /\ ~ f.revoked
  /\ rollback # candidate

(* buildCutoverMarker: the target is kept as "bootstrap", the exception    *)
(* for bootstrapping is closed.                                            *)
BuildCutoverMarker(candidate, rollback) ==
  [candidate |-> candidate, rollback |-> rollback, reason |-> "bootstrap", closed |-> TRUE]

(* isRollbackTargetProtected: with a marker of verifyCutover, never.       *)
RollbackTargetProtected(m) == IF m.reason = "bootstrap" THEN ~ m.closed ELSE TRUE

(* verifyCleanupPrerequisites.                                             *)
CleanupPrerequisites(dossier, mirrors, references) ==
  /\ marker # NoMarker /\ marker.closed /\ mains = marker.candidate
  /\ dossier /\ mirrors /\ references

(* buildPlan: everything the inventory allows to delete.                   *)
BuildPlan(inv) == [inventory |-> inv, delete |-> {p \in DOMAIN inv : inv[p] = "legacy"}]

\* Fault: the plan is not compared with the inventory read now.
ValidateOldPlan(pl, approved, current) ==
  /\ pl = approved /\ \A p \in pl.delete : p \in DOMAIN pl.inventory

(* validatePlan: the plan is the one approved, its inventory is the current*)
(* one, and every path is in it and allowed.                               *)
ValidatePlan(pl, approved, current) ==
  /\ pl = approved /\ pl.inventory = current
  /\ \A p \in pl.delete : p \in DOMAIN current /\ current[p] = "legacy"

NoPlan == [inventory |-> None, delete |-> {}]

Init ==
  /\ facts \in Facts /\ marker = NoMarker /\ inventory = None /\ plan = NoPlan
  /\ disk \in [Paths -> {"legacy", "kept", "protected"}] /\ tombstones = {}
  /\ mains \in Candidates

CutOver(candidate, rollback) ==
  /\ marker = NoMarker /\ VerifyCutover(facts, candidate, rollback)
  /\ marker' = BuildCutoverMarker(candidate, rollback)
  /\ UNCHANGED <<facts, disk, inventory, plan, tombstones, mains>>

(* Another candidate is certified on main.                                 *)
Certify(c) ==
  /\ c # mains /\ mains' = c
  /\ UNCHANGED <<facts, marker, disk, inventory, plan, tombstones>>

(* buildInventory reads the disk.                                          *)
BuildInventory ==
  /\ marker # NoMarker
  /\ inventory' = [p \in {q \in Paths : disk[q] # "gone"} |-> disk[p]]
  /\ UNCHANGED <<facts, marker, disk, plan, tombstones, mains>>

Approve ==
  /\ inventory # None /\ plan' = BuildPlan(inventory)
  /\ UNCHANGED <<facts, marker, disk, inventory, tombstones, mains>>

(* An artifact comes under protection, or is released from it.             *)
Reclassify(p, as) ==
  /\ disk[p] # "gone" /\ disk[p] # as
  /\ disk' = [disk EXCEPT ![p] = as]
  /\ UNCHANGED <<facts, marker, inventory, plan, tombstones, mains>>

(* Apply: a fresh inventory is read, the prerequisites and the plan are    *)
(* checked against it, and every path of the plan leaves a tombstone.      *)
Apply(dossier, mirrors, references) ==
  /\ plan # NoPlan /\ CleanupPrerequisites(dossier, mirrors, references)
  /\ LET current == [p \in {q \in Paths : disk[q] # "gone"} |-> disk[p]]
     IN  ValidatePlan(plan, plan, current)
  /\ disk' = [p \in Paths |-> IF p \in plan.delete THEN "gone" ELSE disk[p]]
  /\ tombstones' = tombstones \cup {<<p, disk[p]>> : p \in plan.delete}
  /\ plan' = NoPlan
  /\ UNCHANGED <<facts, marker, inventory, mains>>

Next ==
  \/ BuildInventory \/ Approve
  \/ \E c, r \in Candidates : CutOver(c, r)
  \/ \E c \in Candidates : Certify(c)
  \/ \E p \in Paths, as \in {"legacy", "protected"} : Reclassify(p, as)
  \/ \E d, m, r \in BOOLEAN : Apply(d, m, r)
-----------------------------------------------------------------------------
TypeOK ==
  /\ facts \in Facts /\ mains \in Candidates
  /\ disk \in [Paths -> {"legacy", "kept", "protected", "gone"}]
  /\ marker # NoMarker => marker.candidate \in Candidates

(* Whatever is reclassified between the inventory and the deletion, only   *)
(* artifacts that were legacy when deleted are gone, each with a tombstone,*)
(* and none before a marker whose facts stand (validatePlan,               *)
(* verifyCleanupPrerequisites).                                            *)
OnlyLegacyIsDeleted ==
  /\ \A t \in tombstones : t[2] = "legacy"
  /\ {p \in Paths : disk[p] = "gone"} = {t[1] : t \in tombstones}
  /\ tombstones # {} => VerifyCutover(facts, marker.candidate, marker.rollback)
=============================================================================
