------------------------ MODULE CertificationProofs -------------------------
(***************************************************************************)
(* Theorems about the decisions, the deployment, the health, the cutover,  *)
(* the dossier and the evolution of candidates, and about the registry of   *)
(* services: MCCertification, for any values of its constants.             *)
(***************************************************************************)
EXTENDS MCCertification, FiniteSetTheorems, SequenceTheorems, TLAPS

LEMMA Bounds ==
  /\ MaxEvents \in Nat /\ MaxAge \in Nat /\ Threshold \in Nat /\ MaxDeliveries \in Nat
  /\ MaxRecords \in Nat /\ MaxOps \in Nat /\ MaxEvidence \in Nat /\ MaxTime \in Nat
BY CertificationAssumption

-----------------------------------------------------------------------------
(* One deployment (DeploymentOperation).                                    *)

States == {"planned", "authorized", "deploying", "deployed", "verifying", "succeeded", "failed",
           "rollback-authorized", "rolling-back", "rolled-back"}
\* The states a candidate without a passing decision never gets to.
Trusted == {"authorized", "deploying", "deployed", "verifying", "succeeded"}

OperationInv ==
  /\ request \in Operation!Requests /\ {op, stored} \subseteq States
  /\ {artifact, traffic, checking, checked} \subseteq BOOLEAN
  /\ recovery \in {"none", "crashed", "resume-verification", "restart-deployment",
                   "quarantine", "CERT-DEPLOY-13"}
  /\ op \in Trusted \/ artifact => Operation!AuthorizeDeployment(request)
  /\ traffic => artifact
  /\ recovery = "crashed" => op \in Trusted
  /\ Operation!RecoveryIsSafe

LEMMA OperationInit == ASSUME Operation!Init PROVE OperationInv
BY DEF Operation!Init, OperationInv, States, Trusted, Operation!RecoveryIsSafe

LEMMA OperationStep == ASSUME OperationInv, Operation!Next PROVE OperationInv'
<1>1. ASSUME NEW to \in States \ {"planned"}, Operation!Transition(to) PROVE OperationInv'
  <2>1. Operation!AuthorizeDeployment(request)' = Operation!AuthorizeDeployment(request)
    BY <1>1 DEF Operation!Transition, Operation!AuthorizeDeployment
  <2>2. to \in Trusted \ {"authorized"} => op \in Trusted
    BY <1>1 DEF Operation!Transition, Operation!Allowed, Operation!Row,
       Operation!DEPLOYMENT_TRANSITIONS, Trusted, OperationInv, States
  <2> QED
    BY <1>1, <2>1, <2>2 DEF Operation!Transition, OperationInv, Operation!RecoveryIsSafe,
       Operation!Running, States, Trusted
<1>2. CASE Operation!Persist \/ Operation!Upload \/ Operation!Switch \/ Operation!Verify
  <2>1. Operation!AuthorizeDeployment(request)' = Operation!AuthorizeDeployment(request)
    BY <1>2 DEF Operation!Persist, Operation!Upload, Operation!Switch, Operation!Verify,
       Operation!AuthorizeDeployment
  <2>2. CASE Operation!Persist
    BY <2>1, <2>2 DEF Operation!Persist, OperationInv, Operation!RecoveryIsSafe, Operation!Running
  <2>3. CASE Operation!Upload \/ Operation!Switch
    BY <2>1, <2>3 DEF Operation!Upload, Operation!Switch, OperationInv, Operation!RecoveryIsSafe,
       Operation!Running, Trusted
  <2>4. CASE Operation!Verify
    BY <2>1, <2>4 DEF Operation!Verify, OperationInv, Operation!RecoveryIsSafe, Operation!Running
  <2> QED
    BY <1>2, <2>2, <2>3, <2>4
<1>3. CASE Operation!Crash
  BY <1>3 DEF Operation!Crash, OperationInv, Operation!RecoveryIsSafe, Operation!Running,
     Operation!AuthorizeDeployment, Trusted
<1>4. CASE Operation!Recover
  <2>1. PICK same \in BOOLEAN : same = (op = stored)
    OBVIOUS
  <2>2. recovery' = Operation!EvaluateCrashRecovery(artifact, traffic, checking, checked, same, stored)
    BY <1>4, <2>1 DEF Operation!Recover
  <2> QED
    BY <1>4, <2>1, <2>2 DEF Operation!Recover, Operation!EvaluateCrashRecovery, Operation!ResumeFrom,
       OperationInv, Operation!RecoveryIsSafe, Operation!AuthorizeDeployment, Trusted, States
<1> QED
  BY <1>1, <1>2, <1>3, <1>4 DEF Operation!Next, States

LEMMA OperationTyped == ASSUME OperationInv PROVE Operation!TypeOK
BY DEF OperationInv, Operation!TypeOK, Operation!Row, Operation!DEPLOYMENT_TRANSITIONS, States

-----------------------------------------------------------------------------
(* The cutover (LegacyCutover).                                             *)

CutoverInv ==
  /\ facts \in Cutover!Facts /\ mains \in Candidates
  /\ disk \in [LegacyPaths -> {"legacy", "kept", "protected", "gone"}]
  /\ marker # Cutover!NoMarker =>
       /\ marker.candidate \in Candidates
       /\ Cutover!VerifyCutover(facts, marker.candidate, marker.rollback)
  /\ tombstones \subseteq LegacyPaths \X {"legacy"}
  /\ \A p \in LegacyPaths : disk[p] = "gone" <=> <<p, "legacy">> \in tombstones
  /\ tombstones # {} => marker # Cutover!NoMarker

LEMMA CutoverInit == ASSUME Cutover!Init PROVE CutoverInv
BY DEF Cutover!Init, CutoverInv

LEMMA CutoverStep == ASSUME CutoverInv, Cutover!Next PROVE CutoverInv'
<1>1. CASE Cutover!BuildInventory \/ Cutover!Approve \/ \E c \in Candidates : Cutover!Certify(c)
  BY <1>1 DEF Cutover!BuildInventory, Cutover!Approve, Cutover!Certify, CutoverInv, Cutover!VerifyCutover
<1>2. ASSUME NEW c \in Candidates, NEW r \in Candidates, Cutover!CutOver(c, r) PROVE CutoverInv'
  BY <1>2 DEF Cutover!CutOver, CutoverInv, Cutover!VerifyCutover, Cutover!BuildCutoverMarker
<1>3. ASSUME NEW p \in LegacyPaths, NEW as \in {"legacy", "protected"}, Cutover!Reclassify(p, as)
      PROVE  CutoverInv'
  <2>1. \A q \in LegacyPaths : disk'[q] = "gone" <=> disk[q] = "gone"
    BY <1>3 DEF Cutover!Reclassify, CutoverInv
  <2> QED
    BY <1>3, <2>1 DEF Cutover!Reclassify, CutoverInv, Cutover!VerifyCutover
<1>4. ASSUME NEW d \in BOOLEAN, NEW m \in BOOLEAN, NEW r \in BOOLEAN, Cutover!Apply(d, m, r)
      PROVE  CutoverInv'
  <2>1. PICK delete : delete = cutoverPlan.delete
    OBVIOUS
  <2>2. \A p \in delete : p \in LegacyPaths /\ disk[p] = "legacy"
    BY <1>4, <2>1 DEF Cutover!Apply, Cutover!ValidatePlan
  <2>3. /\ disk' = [p \in LegacyPaths |-> IF p \in delete THEN "gone" ELSE disk[p]]
        /\ tombstones' = tombstones \cup {<<p, disk[p]>> : p \in delete}
        /\ marker # Cutover!NoMarker
        /\ UNCHANGED <<facts, marker, mains>>
    BY <1>4, <2>1 DEF Cutover!Apply, Cutover!CleanupPrerequisites
  <2>4. tombstones' = tombstones \cup {<<p, "legacy">> : p \in delete}
    BY <2>2, <2>3
  <2>5. \A p \in LegacyPaths : <<p, "legacy">> \in tombstones' <=> <<p, "legacy">> \in tombstones \/ p \in delete
    BY <2>4
  <2>6. disk' \in [LegacyPaths -> {"legacy", "kept", "protected", "gone"}]
    BY <2>3 DEF CutoverInv
  <2>7. tombstones' \subseteq LegacyPaths \X {"legacy"}
    BY <2>2, <2>4 DEF CutoverInv
  <2> QED
    BY <2>3, <2>5, <2>6, <2>7 DEF CutoverInv, Cutover!VerifyCutover
<1> QED
  BY <1>1, <1>2, <1>3, <1>4 DEF Cutover!Next

LEMMA CutoverSafe == ASSUME CutoverInv PROVE Cutover!TypeOK /\ Cutover!OnlyLegacyIsDeleted
<1>1. \A p \in LegacyPaths : disk[p] = "gone" <=> \E t \in tombstones : t[1] = p
  <2>1. ASSUME NEW p \in LegacyPaths, disk[p] = "gone" PROVE \E t \in tombstones : t[1] = p
    <3>1. <<p, "legacy">> \in tombstones /\ <<p, "legacy">>[1] = p
      BY <2>1 DEF CutoverInv
    <3> QED
      BY <3>1
  <2>2. ASSUME NEW t \in tombstones, t[1] \in LegacyPaths PROVE disk[t[1]] = "gone"
    BY <2>2 DEF CutoverInv
  <2> QED
    BY <2>1, <2>2
<1>2. {p \in LegacyPaths : disk[p] = "gone"} = {t[1] : t \in tombstones}
  BY <1>1 DEF CutoverInv
<1> QED
  BY <1>2 DEF CutoverInv, Cutover!TypeOK, Cutover!OnlyLegacyIsDeleted

-----------------------------------------------------------------------------
(* The health monitor (HealthMonitor).                                      *)

\* The decision of the window under way stands, its projection does not.
Deciding == cycle.phase \in {"incident", "projection"}
Done == {i \in DOMAIN windows : windows[i].completed > 0}
\* The number of decisions the projection has counted.
Projected == IF Deciding THEN Len(decisions) - 1 ELSE Len(decisions)

HealthTypes ==
  /\ windows \in Seq([id : Windows, effective : BOOLEAN, completed : Nat])
  /\ Len(windows) <= MaxDeliveries
  /\ decisions \in Seq([window : Windows, health : {"current", "degraded"}])
  /\ cycle \in [phase : {"idle", "requirements", "health-decision", "incident", "projection"},
                window : Windows \cup {0}, found : {"none", "current", "degraded"}, due : BOOLEAN]
  /\ incidents \subseteq Windows /\ health \in {"current", "degraded", "revoked"}
  /\ degraded \in Nat

\* The cycle is about the last window, which is the first of its id.
UnderWay ==
  /\ cycle.phase # "idle" =>
       /\ Len(windows) > 0 /\ windows[Len(windows)].effective
       /\ windows[Len(windows)].id = cycle.window /\ windows[Len(windows)].completed = 0
  /\ cycle.phase \in {"health-decision", "incident", "projection"} => cycle.found # "none"
  /\ \A i, j \in DOMAIN windows : j < i /\ windows[i].effective => windows[j].id # windows[i].id

\* A decision is about a completed window or the one under way.
Decided ==
  /\ \A k \in DOMAIN decisions : \E i \in DOMAIN windows :
       /\ windows[i].id = decisions[k].window
       /\ windows[i].completed > 0 \/ (Deciding /\ i = Len(windows))
  /\ \A k, l \in DOMAIN decisions : decisions[k].window = decisions[l].window => k = l
  /\ Len(decisions) = Cardinality(Done) + (IF Deciding THEN 1 ELSE 0)

\* The projection's counter is a stretch of degraded decisions at its end.
Counted ==
  /\ degraded <= Projected
  /\ \A k \in DOMAIN decisions :
       Projected - degraded < k /\ k <= Projected => decisions[k].health = "degraded"
  /\ health = "revoked" => Threshold <= degraded

HealthInv == HealthTypes /\ UnderWay /\ Decided /\ Counted

LEMMA DoneIsFinite ==
  ASSUME HealthTypes
  PROVE  IsFiniteSet(Done) /\ Cardinality(Done) \in Nat /\ Cardinality(Done) <= Len(windows)
<1>1. Len(windows) \in Nat /\ DOMAIN windows = 1 .. Len(windows)
  BY DEF HealthTypes
<1>2. PICK n \in Nat : n = Len(windows)
  BY <1>1
<1>3. IsFiniteSet(1 .. n) /\ Cardinality(1 .. n) = n
  BY FS_Interval
<1>4. Done \subseteq 1 .. n
  BY <1>1, <1>2 DEF Done
<1>5. IsFiniteSet(Done) /\ Cardinality(Done) <= n
  BY <1>3, <1>4, FS_Subset
<1> QED
  BY <1>2, <1>5, FS_CardinalityType

LEMMA HealthInit == ASSUME Health!Init PROVE HealthInv
<1>1. windows = <<>> /\ decisions = <<>> /\ cycle = Health!NoCycle /\ degraded = 0
      /\ incidents = {} /\ health = "current"
  BY DEF Health!Init
<1>2. HealthTypes
  BY <1>1, Bounds DEF HealthTypes, Health!NoCycle
<1>3. Done = {} /\ ~Deciding /\ Projected = 0
  BY <1>1 DEF Done, Deciding, Projected, Health!NoCycle
<1>4. Cardinality(Done) = 0
  BY <1>3, FS_EmptySet
<1> QED
  BY <1>1, <1>2, <1>3, <1>4 DEF HealthInv, UnderWay, Decided, Counted, Health!NoCycle

LEMMA DeliverKeeps ==
  ASSUME HealthInv, NEW w \in Windows, NEW t \in Nat, Health!Deliver(w, t) PROVE HealthInv'
<1>1. PICK first \in BOOLEAN : first = Health!Effective(w, t)
  BY DEF Health!Effective
<1> DEFINE new == [id |-> w, effective |-> first, completed |-> 0]
<1>2. /\ windows' = Append(windows, new) /\ Len(windows) < MaxDeliveries
      /\ cycle' = IF first THEN [Health!NoCycle EXCEPT !.phase = "requirements", !.window = w] ELSE cycle
      /\ cycle.phase = "idle" /\ UNCHANGED <<decisions, incidents, health, degraded>>
  BY <1>1 DEF Health!Deliver
<1>3. /\ Len(windows) \in Nat /\ Len(windows') = Len(windows) + 1
      /\ DOMAIN windows = 1 .. Len(windows) /\ DOMAIN windows' = 1 .. Len(windows) + 1
      /\ windows'[Len(windows) + 1] = new /\ \A i \in DOMAIN windows : windows'[i] = windows[i]
  BY <1>2 DEF HealthInv, HealthTypes
<1>4. first => \A i \in DOMAIN windows : windows[i].id # w
  BY <1>1 DEF Health!Effective
<1>5. /\ cycle'.phase = IF first THEN "requirements" ELSE "idle"
      /\ first => cycle'.window = w
  BY <1>2 DEF HealthInv, HealthTypes, Health!NoCycle
<1>6. HealthTypes'
  <2>1. windows' \in Seq([id : Windows, effective : BOOLEAN, completed : Nat])
    BY <1>2 DEF HealthInv, HealthTypes
  <2>2. Len(windows') <= MaxDeliveries
    BY <1>2, <1>3, Bounds
  <2>3. cycle' \in [phase : {"idle", "requirements", "health-decision", "incident", "projection"},
                   window : Windows \cup {0}, found : {"none", "current", "degraded"}, due : BOOLEAN]
    BY <1>2 DEF HealthInv, HealthTypes, Health!NoCycle
  <2> QED
    BY <2>1, <2>2, <2>3, <1>2 DEF HealthInv, HealthTypes
<1>7. UnderWay'
  BY <1>3, <1>4, <1>5 DEF HealthInv, UnderWay
<1>8. Done' = Done /\ ~Deciding /\ ~Deciding' /\ Projected' = Projected
  BY <1>2, <1>3, <1>5 DEF Done, Deciding, Projected
<1>9. Decided'
  BY <1>2, <1>3, <1>8 DEF HealthInv, Decided
<1>10. Counted'
  BY <1>2, <1>8 DEF HealthInv, Counted
<1> QED
  BY <1>6, <1>7, <1>9, <1>10 DEF HealthInv

\* A step that leaves windows and decisions alone and does not project.
LEMMA PhaseKeeps ==
  ASSUME HealthInv, UNCHANGED <<windows, decisions, health, degraded>>, incidents' \subseteq Windows,
         cycle' \in [phase : {"requirements", "health-decision", "incident", "projection"},
                     window : Windows \cup {0}, found : {"none", "current", "degraded"}, due : BOOLEAN],
         cycle.phase # "idle", cycle'.window = cycle.window, Deciding' = Deciding,
         cycle'.phase \in {"health-decision", "incident", "projection"} => cycle'.found # "none"
  PROVE  HealthInv'
<1>1. HealthTypes' /\ UnderWay'
  BY DEF HealthInv, HealthTypes, UnderWay
<1>2. Done' = Done /\ Projected' = Projected
  BY DEF Done, Projected
<1>3. Decided' /\ Counted'
  BY <1>2 DEF HealthInv, Decided, Counted
<1> QED
  BY <1>1, <1>3 DEF HealthInv

LEMMA CurrentWindow ==
  ASSUME HealthInv, cycle.phase # "idle"
  PROVE  /\ Len(windows) \in DOMAIN windows /\ Len(windows) \in Nat \ {0}
         /\ windows[Len(windows)].completed = 0 /\ windows[Len(windows)].effective
         /\ windows[Len(windows)].id = cycle.window /\ cycle.window \in Windows
<1> DEFINE row == [id : Windows, effective : BOOLEAN, completed : Nat]
<1>1. windows \in Seq(row) /\ Len(windows) > 0
  BY DEF HealthInv, HealthTypes, UnderWay
<1>2. /\ Len(windows) \in Nat \ {0} /\ DOMAIN windows = 1 .. Len(windows)
      /\ Len(windows) \in 1 .. Len(windows)
  <2> HIDE DEF row
  <2> QED BY <1>1
<1>3. windows[Len(windows)] \in row
  <2> HIDE DEF row
  <2> QED BY <1>1, <1>2, ElementOfSeq
<1>4. windows[Len(windows)].id \in Windows
  BY <1>3
<1> QED
  BY <1>2, <1>4 DEF HealthInv, UnderWay

LEMMA AppendKeeps == ASSUME HealthInv, Health!AppendDecision PROVE HealthInv'
<1> DEFINE new == [window |-> cycle.window, health |-> cycle.found]
<1>1. /\ cycle.phase = "health-decision" /\ decisions' = Append(decisions, new)
      /\ cycle' = [cycle EXCEPT !.phase = IF cycle.due THEN "incident" ELSE "projection"]
      /\ UNCHANGED <<windows, incidents, health, degraded>>
  BY DEF Health!AppendDecision
<1>2. /\ Len(windows) \in DOMAIN windows /\ windows[Len(windows)].id = cycle.window
      /\ windows[Len(windows)].completed = 0 /\ cycle.window \in Windows
      /\ cycle.found \in {"current", "degraded"} /\ windows[Len(windows)].effective
  BY <1>1, CurrentWindow DEF HealthInv, HealthTypes, UnderWay
<1>3. /\ Len(decisions) \in Nat /\ Len(decisions') = Len(decisions) + 1
      /\ DOMAIN decisions = 1 .. Len(decisions) /\ DOMAIN decisions' = 1 .. Len(decisions) + 1
      /\ decisions'[Len(decisions) + 1] = new
      /\ \A k \in DOMAIN decisions : decisions'[k] = decisions[k]
  BY <1>1 DEF HealthInv, HealthTypes
<1>4. ~Deciding /\ Deciding' /\ Done' = Done /\ Projected' = Len(decisions) /\ Projected = Len(decisions)
  BY <1>1, <1>3 DEF HealthInv, HealthTypes, Deciding, Done, Projected
<1>5. HealthTypes'
  <2>1. new \in [window : Windows, health : {"current", "degraded"}]
    BY <1>2
  <2> HIDE DEF new
  <2>2. decisions' \in Seq([window : Windows, health : {"current", "degraded"}])
    BY <1>1, <2>1 DEF HealthInv, HealthTypes
  <2>3. cycle' \in [phase : {"idle", "requirements", "health-decision", "incident", "projection"},
                    window : Windows \cup {0}, found : {"none", "current", "degraded"}, due : BOOLEAN]
    BY <1>1 DEF HealthInv, HealthTypes
  <2> QED
    BY <1>1, <2>2, <2>3 DEF HealthInv, HealthTypes
<1>6. UnderWay'
  BY <1>1, <1>2 DEF HealthInv, HealthTypes, UnderWay
<1>7. \A k \in DOMAIN decisions : decisions[k].window # cycle.window
  <2>1. \A k \in DOMAIN decisions : \E i \in DOMAIN windows :
          windows[i].id = decisions[k].window /\ windows[i].completed > 0
    BY <1>4 DEF HealthInv, Decided
  <2>2. \A i \in DOMAIN windows : windows[i].completed > 0 => i < Len(windows)
    BY <1>2 DEF HealthInv, HealthTypes
  <2> QED
    BY <2>1, <2>2, <1>2 DEF HealthInv, UnderWay
<1>8. Decided'
  <2>1. ASSUME NEW k \in DOMAIN decisions'
        PROVE  \E i \in DOMAIN windows' :
                 /\ windows'[i].id = decisions'[k].window
                 /\ windows'[i].completed > 0 \/ (Deciding' /\ i = Len(windows'))
    BY <1>1, <1>2, <1>3, <1>4 DEF HealthInv, Decided
  <2>2. \A k, l \in DOMAIN decisions' : decisions'[k].window = decisions'[l].window => k = l
    BY <1>3, <1>7 DEF HealthInv, Decided
  <2>3. Cardinality(Done) \in Nat /\ Cardinality(Done') = Cardinality(Done)
    BY <1>4, DoneIsFinite DEF HealthInv
  <2>4. Len(decisions) = Cardinality(Done)
    BY <1>4, <2>3 DEF HealthInv, Decided
  <2> QED
    BY <2>1, <2>2, <2>3, <2>4, <1>3, <1>4 DEF Decided
<1>9. Counted'
  BY <1>1, <1>3, <1>4 DEF HealthInv, HealthTypes, Counted
<1> QED
  BY <1>5, <1>6, <1>8, <1>9 DEF HealthInv

LEMMA DecisionIsTyped ==
  ASSUME HealthInv, NEW k \in DOMAIN decisions
  PROVE  decisions[k].health \in {"current", "degraded"}
<1> DEFINE row == [window : Windows, health : {"current", "degraded"}]
<1>1. decisions \in Seq(row)
  BY DEF HealthInv, HealthTypes
<1>2. decisions[k] \in row
  <2> HIDE DEF row
  <2> QED BY <1>1, ElementOfSeq
<1> QED
  BY <1>2

LEMMA ProjectKeeps == ASSUME HealthInv, Health!Project PROVE HealthInv'
<1> DEFINE n == Len(windows)  last == decisions[Len(decisions)]
<1>1. /\ n \in DOMAIN windows /\ windows[n].completed = 0 /\ n \in Nat \ {0}
      /\ DOMAIN windows = 1 .. n /\ cycle.phase = "projection"
  BY DEF Health!Project, HealthInv, HealthTypes, UnderWay
<1>2. /\ windows' = [windows EXCEPT ![n].completed = n] /\ cycle' = Health!NoCycle
      /\ UNCHANGED <<decisions, incidents>>
      /\ degraded' = IF last.health = "degraded" THEN degraded + 1 ELSE 0
      /\ health' = IF last.health = "degraded" /\ degraded' >= Threshold THEN "revoked" ELSE last.health
  BY DEF Health!Project, Health!Last, Health!ShouldRevoke
<1>3. /\ DOMAIN windows' = DOMAIN windows /\ Len(windows') = n
      /\ \A i \in DOMAIN windows : windows'[i].id = windows[i].id /\ windows'[i].effective = windows[i].effective
      /\ windows'[n].completed = n
      /\ \A i \in DOMAIN windows : i # n => windows'[i] = windows[i]
  BY <1>1, <1>2 DEF HealthInv, HealthTypes
<1>4. Deciding /\ ~Deciding' /\ Done' = Done \cup {n} /\ n \notin Done
  BY <1>1, <1>2, <1>3 DEF Deciding, Done, Health!NoCycle
<1>5. Cardinality(Done') = Cardinality(Done) + 1 /\ Cardinality(Done) \in Nat
  BY <1>4, DoneIsFinite, FS_AddElement DEF HealthInv
<1>6. Len(decisions) = Cardinality(Done) + 1 /\ Len(decisions) \in DOMAIN decisions
      /\ DOMAIN decisions = 1 .. Len(decisions) /\ Len(decisions) \in Nat
  BY <1>4, <1>5 DEF HealthInv, HealthTypes, Decided
<1>7. HealthTypes'
  <2> DEFINE row == [id : Windows, effective : BOOLEAN, completed : Nat]
  <2>0. windows \in Seq(row)
    BY DEF HealthInv, HealthTypes
  <2>1. windows[n] \in row
    <3> HIDE DEF row
    <3> QED BY <1>1, <2>0, ElementOfSeq
  <2>2. [windows[n] EXCEPT !.completed = n] \in row
    BY <2>1, <1>1
  <2>3. windows' = [windows EXCEPT ![n] = [windows[n] EXCEPT !.completed = n]]
    BY <1>2
  <2>4. windows' \in Seq(row)
    <3> HIDE DEF row
    <3> QED
      BY <2>0, <2>2, <2>3, <1>1, ExceptSeq
  <2>5. decisions[Len(decisions)].health \in {"current", "degraded"}
    BY <1>6, DecisionIsTyped
  <2>6. degraded' \in Nat /\ health' \in {"current", "degraded", "revoked"}
    BY <2>5, <1>2 DEF HealthInv, HealthTypes
  <2>7. Len(windows') <= MaxDeliveries
    BY <1>3 DEF HealthInv, HealthTypes
  <2>8. cycle' \in [phase : {"idle", "requirements", "health-decision", "incident", "projection"},
                   window : Windows \cup {0}, found : {"none", "current", "degraded"}, due : BOOLEAN]
    BY <1>2 DEF Health!NoCycle
  <2> QED
    BY <2>4, <2>6, <2>7, <2>8, <1>2 DEF HealthInv, HealthTypes
<1>8. UnderWay'
  BY <1>2, <1>3 DEF HealthInv, UnderWay, Health!NoCycle
<1>9. Decided'
  <2>1. \A k \in DOMAIN decisions' : \E i \in DOMAIN windows' :
          windows'[i].id = decisions'[k].window /\ windows'[i].completed > 0
    BY <1>1, <1>2, <1>3 DEF HealthInv, Decided
  <2> QED
    BY <2>1, <1>2, <1>4, <1>5, <1>6 DEF HealthInv, Decided
<1>10. Counted'
  <2>1. Projected = Len(decisions) - 1 /\ Projected' = Len(decisions)
    BY <1>2, <1>4 DEF Projected
  <2>2. degraded \in Nat /\ Threshold \in Nat /\ last.health \in {"current", "degraded"}
    <3>1. decisions[Len(decisions)].health \in {"current", "degraded"}
      BY <1>6, DecisionIsTyped
    <3> QED
      BY <3>1, Bounds DEF HealthInv, HealthTypes
  <2> QED
    BY <2>1, <2>2, <1>2, <1>6 DEF HealthInv, Counted
<1> QED
  BY <1>7, <1>8, <1>9, <1>10 DEF HealthInv

LEMMA HealthStep == ASSUME HealthInv, Health!Next PROVE HealthInv'
<1>1. ASSUME NEW w \in Windows, NEW t \in 0 .. MaxDeliveries, Health!Deliver(w, t) PROVE HealthInv'
  BY <1>1, DeliverKeeps, Bounds
<1>2. ASSUME NEW f \in Health!Findings, Health!RunRequirements(f) PROVE HealthInv'
  <2>1. PICK h, due : h = Health!EvaluateHealth(f).health /\ due = Health!EvaluateHealth(f).incident
    OBVIOUS
  <2>2. h \in {"current", "degraded"} /\ due \in BOOLEAN
    BY <2>1 DEF Health!EvaluateHealth, Health!Findings
  <2>3. /\ cycle.phase = "requirements"
        /\ cycle' = [cycle EXCEPT !.phase = "health-decision", !.found = h, !.due = due]
        /\ UNCHANGED <<windows, decisions, incidents, health, degraded>>
    BY <1>2, <2>1 DEF Health!RunRequirements
  <2>4. /\ cycle' \in [phase : {"requirements", "health-decision", "incident", "projection"},
                      window : Windows \cup {0}, found : {"none", "current", "degraded"}, due : BOOLEAN]
        /\ cycle'.window = cycle.window /\ cycle'.phase = "health-decision" /\ cycle'.found # "none"
    BY <2>2, <2>3 DEF HealthInv, HealthTypes
  <2> QED
    BY <2>3, <2>4, PhaseKeeps DEF HealthInv, HealthTypes, Deciding
<1>3. CASE Health!CreateIncident
  <2>1. cycle.window \in Windows
    BY <1>3, CurrentWindow DEF Health!CreateIncident
  <2>2. /\ cycle.phase = "incident" /\ incidents' = incidents \cup {cycle.window}
        /\ cycle' = [cycle EXCEPT !.phase = "projection"]
        /\ UNCHANGED <<windows, decisions, health, degraded>>
    BY <1>3 DEF Health!CreateIncident
  <2>3. cycle' \in [phase : {"requirements", "health-decision", "incident", "projection"},
                    window : Windows \cup {0}, found : {"none", "current", "degraded"}, due : BOOLEAN]
        /\ cycle'.window = cycle.window /\ cycle'.phase = "projection" /\ cycle'.found = cycle.found
    BY <2>2 DEF HealthInv, HealthTypes
  <2>4. cycle'.found # "none" /\ Deciding' = Deciding /\ incidents' \subseteq Windows
    BY <2>1, <2>2, <2>3 DEF HealthInv, HealthTypes, UnderWay, Deciding
  <2> QED
    BY <2>2, <2>3, <2>4, PhaseKeeps
<1>4. CASE Health!Crash
  <2>1. PICK phase : phase = Health!ResumeFrom(Health!Persisted(cycle.window \in incidents))
    OBVIOUS
  <2>2. /\ cycle.phase # "idle" /\ cycle' = [cycle EXCEPT !.phase = phase]
        /\ UNCHANGED <<windows, decisions, incidents, health, degraded>>
    BY <1>4, <2>1 DEF Health!Crash
  <2>3. /\ Deciding => phase \in {"incident", "projection"}
        /\ ~Deciding => phase = cycle.phase
    BY <2>1, <2>2 DEF Health!ResumeFrom, Health!Persisted, Deciding, HealthInv, HealthTypes
  <2> QED
    BY <2>2, <2>3, PhaseKeeps DEF HealthInv, HealthTypes, UnderWay, Deciding
<1> QED
  BY <1>1, <1>2, <1>3, <1>4, AppendKeeps, ProjectKeeps DEF Health!Next

LEMMA HealthCardinality == \A S : Health!Cardinality(S) = Cardinality(S)
BY DEF Health!Cardinality, Cardinality

LEMMA HealthSafe == ASSUME HealthInv PROVE Health!TypeOK /\ Health!WindowsCountOnce
<1>1. Cardinality(Done) \in Nat /\ Cardinality(Done) <= Len(windows) /\ Len(windows) \in Nat
      /\ Len(decisions) \in Nat /\ DOMAIN decisions = 1 .. Len(decisions)
  BY DoneIsFinite DEF HealthInv, HealthTypes
<1>2. Projected = Cardinality(Done)
  BY <1>1 DEF HealthInv, Decided, Projected
<1>3. Health!TypeOK
  BY <1>1, <1>2, Bounds DEF HealthInv, HealthTypes, Counted, Health!TypeOK
<1>4. ASSUME health = "revoked", NEW done,
             done = IF Deciding THEN SubSeq(decisions, 1, Len(decisions) - 1) ELSE decisions
      PROVE  /\ Len(done) >= Threshold
             /\ \A i \in Len(done) - Threshold + 1 .. Len(done) : done[i].health = "degraded"
  <2>1. Len(done) = Projected /\ Projected <= Len(decisions)
        /\ \A i \in 1 .. Projected : done[i] = decisions[i]
    BY <1>1, <1>2, <1>4 DEF HealthInv, HealthTypes, Projected
  <2>2. Threshold <= degraded /\ degraded <= Projected /\ degraded \in Nat /\ Threshold \in Nat
    BY <1>4, Bounds DEF HealthInv, HealthTypes, Counted
  <2>3. \A i \in 1 .. Projected : Projected - degraded < i => decisions[i].health = "degraded"
    BY <1>1, <2>1 DEF HealthInv, Counted
  <2> QED
    BY <1>1, <1>2, <2>1, <2>2, <2>3
<1>5. health = "revoked" =>
        LET done == IF Deciding THEN SubSeq(decisions, 1, Len(decisions) - 1) ELSE decisions
        IN  /\ Len(done) >= Threshold
            /\ \A i \in Len(done) - Threshold + 1 .. Len(done) : done[i].health = "degraded"
  BY <1>4
<1>6. /\ {i \in DOMAIN windows : windows[i].completed > 0} = Done
      /\ Deciding <=> cycle.phase \in {"incident", "projection"}
  BY DEF Done, Deciding
<1>7. \A i, j \in DOMAIN decisions : decisions[i].window = decisions[j].window => i = j
  BY DEF HealthInv, Decided
<1>8. Len(decisions) = Cardinality(Done) + (IF Deciding THEN 1 ELSE 0)
  BY DEF HealthInv, Decided
<1>9. Len(decisions) = Cardinality({i \in DOMAIN windows : windows[i].completed > 0})
                       + (IF cycle.phase \in {"incident", "projection"} THEN 1 ELSE 0)
  <2> HIDE DEF Done, Deciding
  <2> QED BY <1>6, <1>8
<1>10. health = "revoked" =>
         LET done == IF cycle.phase \in {"incident", "projection"} THEN Health!Front(decisions)
                     ELSE decisions
         IN  /\ Len(done) >= Threshold
             /\ \A i \in Len(done) - Threshold + 1 .. Len(done) : done[i].health = "degraded"
  BY <1>5 DEF Deciding, Health!Front
<1>11. Health!WindowsCountOnce
  BY ONLY <1>7, <1>9, <1>10, HealthCardinality DEF Health!WindowsCountOnce
<1> QED
  BY <1>3, <1>11

-----------------------------------------------------------------------------
(* The records of evolving candidates (Evolution).                          *)

Records == [candidate : Evolving \cup {"kill-switch"}, from : Evo!Stages, to : Evo!Stages,
            decision : {"admit", "incomplete"}, number : Nat, key : Keys \cup {"kill-switch"}]
IsLatest(m, S) == m \in S /\ \A k \in S : k <= m

EvolutionTypes ==
  /\ stage \in [Evolving -> Evo!Stages \cup {"none"}] /\ killed \in BOOLEAN
  /\ transitions \in Seq(Records) /\ Len(transitions) <= MaxRecords
  /\ \A i \in DOMAIN transitions :
       transitions[i].candidate \in Evolving <=> transitions[i].key \in Keys

\* A record starts at the stage the latest one of its candidate before led to.
RecordsFollow == \A i \in DOMAIN transitions : transitions[i].candidate \in Evolving =>
  \/ Evo!Before(i) = {} /\ transitions[i].from = "defined"
  \/ \E m \in DOMAIN transitions :
       IsLatest(m, Evo!Before(i)) /\ transitions[i].from = Evo!Left(transitions[m])

\* The stage of a candidate is the one its latest record led to.
StagesAgree == \A c \in Evolving :
  \/ Evo!History(c) = {} /\ stage[c] \in {"none", "defined"}
  \/ stage[c] # "none" /\ \E m \in DOMAIN transitions :
       IsLatest(m, Evo!History(c)) /\ stage[c] = Evo!Left(transitions[m])

EvolutionInv ==
  /\ EvolutionTypes /\ Evo!NumbersCountUp /\ Evo!KeysAreUsedOnce /\ Evo!FinalIsFinal
  /\ RecordsFollow /\ StagesAgree

LEMMA EvolutionInit == ASSUME Evo!Init PROVE EvolutionInv
<1>1. stage = [c \in Evolving |-> "none"] /\ transitions = <<>> /\ killed = FALSE
  BY DEF Evo!Init
<1>2. EvolutionTypes
  <2>1. transitions \in Seq(Records)
    <3> HIDE DEF Records
    <3> QED BY <1>1
  <2>2. Len(transitions) <= MaxRecords /\ DOMAIN transitions = {}
    BY <1>1, Bounds
  <2>3. stage \in [Evolving -> Evo!Stages \cup {"none"}]
    BY <1>1
  <2> QED
    BY <1>1, <2>1, <2>2, <2>3 DEF EvolutionTypes
<1>3. DOMAIN transitions = {} /\ \A c : Evo!History(c) = {}
  BY <1>1 DEF Evo!History
<1> QED
  BY <1>1, <1>2, <1>3 DEF EvolutionInv, Evo!NumbersCountUp, Evo!KeysAreUsedOnce, Evo!FinalIsFinal,
     RecordsFollow, StagesAgree

\* What a record appended leaves alone, and what it adds.
LEMMA RecordAppended ==
  ASSUME EvolutionTypes, NEW r \in Records, transitions' = Append(transitions, r),
         NEW n, n = Len(transitions) + 1
  PROVE  /\ n \in Nat /\ n \notin DOMAIN transitions /\ n \in DOMAIN transitions'
         /\ transitions'[n] = r /\ Len(transitions') = n /\ transitions' \in Seq(Records)
         /\ DOMAIN transitions' = DOMAIN transitions \cup {n}
         /\ \A i \in DOMAIN transitions : i \in Nat /\ i < n /\ transitions'[i] = transitions[i]
         /\ \A i \in DOMAIN transitions : Evo!Before(i)' = Evo!Before(i)
         /\ Evo!Before(n)' = Evo!History(r.candidate)
         /\ Evo!History(r.candidate)' = Evo!History(r.candidate) \cup {n}
         /\ \A c : c # r.candidate => Evo!History(c)' = Evo!History(c)
<1>1. /\ Len(transitions) \in Nat /\ DOMAIN transitions = 1 .. Len(transitions)
      /\ transitions' \in Seq(Records) /\ Len(transitions') = n
      /\ DOMAIN transitions' = 1 .. n /\ transitions'[n] = r
      /\ \A i \in 1 .. Len(transitions) : transitions'[i] = transitions[i]
  <2>1. transitions \in Seq(Records)
    BY DEF EvolutionTypes
  <2> HIDE DEF Records
  <2> QED
    BY <2>1
<1>2. \A i \in DOMAIN transitions : i \in Nat /\ i < n /\ transitions'[i] = transitions[i]
  BY <1>1
<1>3. \A i \in DOMAIN transitions : Evo!Before(i)' = Evo!Before(i)
  <2>1. ASSUME NEW i \in DOMAIN transitions PROVE Evo!Before(i)' = Evo!Before(i)
    <3>1. \A j \in 1 .. i - 1 : j \in DOMAIN transitions
      BY <1>1
    <3> QED
      BY <1>1, <3>1 DEF Evo!Before
  <2> QED
    BY <2>1
<1>4. Evo!Before(n)' = Evo!History(r.candidate)
  <2>1. 1 .. n - 1 = DOMAIN transitions
    BY <1>1
  <2> QED
    BY <1>1, <2>1 DEF Evo!Before, Evo!History
<1>5. /\ Evo!History(r.candidate)' = Evo!History(r.candidate) \cup {n}
      /\ \A c : c # r.candidate => Evo!History(c)' = Evo!History(c)
  BY <1>1 DEF Evo!History
<1> QED
  BY <1>1, <1>2, <1>3, <1>4, <1>5

LEMMA RecordsKeep ==
  ASSUME EvolutionInv, NEW r \in Records, transitions' = Append(transitions, r),
         Len(transitions) < MaxRecords, killed' \in BOOLEAN,
         r.candidate \in Evolving <=> r.key \in Keys,
         \/ r.candidate \notin Evolving /\ stage' = stage
         \/ /\ r.candidate \in Evolving /\ stage[r.candidate] = r.from
            /\ \A i \in DOMAIN transitions : transitions[i].key # r.key
            /\ r.from \in Evo!TERMINAL_STAGES => r.to = "quarantined"
            /\ r.number = Evo!Cardinality(Evo!History(r.candidate))
            /\ stage' = [stage EXCEPT ![r.candidate] = Evo!Left(r)]
  PROVE  EvolutionInv'
<1>0. PICK n : n = Len(transitions) + 1
  OBVIOUS
<1>1. /\ n \in Nat /\ n \notin DOMAIN transitions /\ n \in DOMAIN transitions'
      /\ transitions'[n] = r /\ Len(transitions') = n /\ transitions' \in Seq(Records)
      /\ DOMAIN transitions' = DOMAIN transitions \cup {n}
      /\ \A i \in DOMAIN transitions : i \in Nat /\ i < n /\ transitions'[i] = transitions[i]
      /\ \A i \in DOMAIN transitions : Evo!Before(i)' = Evo!Before(i)
      /\ Evo!Before(n)' = Evo!History(r.candidate)
      /\ Evo!History(r.candidate)' = Evo!History(r.candidate) \cup {n}
      /\ \A c : c # r.candidate => Evo!History(c)' = Evo!History(c)
  BY <1>0, RecordAppended DEF EvolutionInv
<1>2. r.from \in Evo!Stages /\ Evo!Left(r) \in Evo!Stages /\ "none" \notin Evo!Stages
  BY DEF Records, Evo!Left, Evo!Stages
<1>3. EvolutionTypes'
  <2>1. n <= MaxRecords
    BY <1>0, Bounds DEF EvolutionInv, EvolutionTypes
  <2>2. stage' \in [Evolving -> Evo!Stages \cup {"none"}]
    BY <1>2 DEF EvolutionInv, EvolutionTypes
  <2>3. \A i \in DOMAIN transitions' :
          transitions'[i].candidate \in Evolving <=> transitions'[i].key \in Keys
    BY <1>1 DEF EvolutionInv, EvolutionTypes
  <2> QED
    BY <1>1, <2>1, <2>2, <2>3 DEF EvolutionTypes
<1>4. Evo!NumbersCountUp'
  <2>1. ASSUME NEW i \in DOMAIN transitions', transitions'[i].candidate \in Evolving
        PROVE  transitions'[i].number = Evo!Cardinality(Evo!Before(i)')
    <3>1. CASE i = n
      BY <1>1, <2>1, <3>1
    <3>2. CASE i \in DOMAIN transitions
      BY <1>1, <2>1, <3>2 DEF EvolutionInv, Evo!NumbersCountUp
    <3> QED
      BY <1>1, <3>1, <3>2
  <2> QED
    BY <2>1 DEF Evo!NumbersCountUp
<1>5. Evo!KeysAreUsedOnce'
  <2>1. \A i \in DOMAIN transitions : transitions[i].candidate \in Evolving => transitions[i].key # r.key
    BY DEF EvolutionInv, EvolutionTypes
  <2>2. r.candidate \in Evolving => \A i \in DOMAIN transitions : transitions[i].key # r.key
    OBVIOUS
  <2> QED
    BY <1>1, <2>1, <2>2 DEF EvolutionInv, Evo!KeysAreUsedOnce
<1>6. Evo!FinalIsFinal'
  BY <1>1 DEF EvolutionInv, Evo!FinalIsFinal, Evo!TERMINAL_STAGES
<1>7. RecordsFollow'
  <2>1. ASSUME NEW i \in DOMAIN transitions, transitions[i].candidate \in Evolving
        PROVE  \/ Evo!Before(i)' = {} /\ transitions'[i].from = "defined"
               \/ \E m \in DOMAIN transitions' :
                    IsLatest(m, Evo!Before(i)') /\ transitions'[i].from = Evo!Left(transitions'[m])
    BY <1>1, <2>1 DEF EvolutionInv, RecordsFollow
  <2>2. ASSUME r.candidate \in Evolving
        PROVE  \/ Evo!Before(n)' = {} /\ transitions'[n].from = "defined"
               \/ \E m \in DOMAIN transitions' :
                    IsLatest(m, Evo!Before(n)') /\ transitions'[n].from = Evo!Left(transitions'[m])
    BY <1>1, <1>2, <2>2 DEF EvolutionInv, StagesAgree
  <2> QED
    BY <1>1, <2>1, <2>2 DEF RecordsFollow
<1>8. StagesAgree'
  <2>1. ASSUME NEW c \in Evolving, c # r.candidate
        PROVE  \/ Evo!History(c)' = {} /\ stage'[c] \in {"none", "defined"}
               \/ stage'[c] # "none" /\ \E m \in DOMAIN transitions' :
                    IsLatest(m, Evo!History(c)') /\ stage'[c] = Evo!Left(transitions'[m])
    <3>1. Evo!History(c)' = Evo!History(c) /\ stage'[c] = stage[c]
      BY <1>1, <2>1 DEF EvolutionInv, EvolutionTypes
    <3> QED
      BY <1>1, <3>1 DEF EvolutionInv, StagesAgree
  <2>2. ASSUME r.candidate \in Evolving
        PROVE  /\ stage'[r.candidate] # "none" /\ IsLatest(n, Evo!History(r.candidate)')
               /\ stage'[r.candidate] = Evo!Left(transitions'[n])
    <3>1. stage'[r.candidate] = Evo!Left(r)
      BY <2>2 DEF EvolutionInv, EvolutionTypes
    <3>2. \A k \in Evo!History(r.candidate) : k \in Nat /\ k < n
      BY <1>1 DEF Evo!History
    <3> QED
      BY <1>1, <1>2, <3>1, <3>2 DEF IsLatest
  <2> QED
    BY <1>1, <2>1, <2>2 DEF StagesAgree
<1> QED
  BY <1>3, <1>4, <1>5, <1>6, <1>7, <1>8 DEF EvolutionInv

LEMMA EvolutionStep == ASSUME EvolutionInv, Evo!Next PROVE EvolutionInv'
<1>1. CASE Evo!ActivateKillSwitch
  <2> DEFINE r == Evo!Record("kill-switch", "promoted", "quarantined", "admit", Len(transitions), "kill-switch")
  <2>1. Len(transitions) \in Nat
    BY DEF EvolutionInv, EvolutionTypes
  <2>2. r \in Records /\ r.candidate = "kill-switch" /\ r.key = "kill-switch"
    BY <2>1 DEF Records, Evo!Record, Evo!Stages
  <2>3. r.candidate \notin Evolving /\ r.key \notin Keys
    BY <2>2, CertificationAssumption
  <2>4. transitions' = Append(transitions, r) /\ stage' = stage /\ killed' \in BOOLEAN
        /\ Len(transitions) < MaxRecords
    BY <1>1 DEF Evo!ActivateKillSwitch
  <2> HIDE DEF r
  <2> QED
    BY <2>2, <2>3, <2>4, RecordsKeep
<1>2. ASSUME NEW c \in Evolving, Evo!RegisterCandidate(c), UNCHANGED <<transitions, killed>>
      PROVE  EvolutionInv'
  <2>1. stage[c] = "none" /\ stage' = [stage EXCEPT ![c] = "defined"] /\ "defined" \in Evo!Stages
    BY <1>2 DEF Evo!RegisterCandidate, Evo!Stages
  <2>2. EvolutionTypes'
    BY <1>2, <2>1 DEF EvolutionInv, EvolutionTypes
  <2>3. /\ \A i : Evo!Before(i)' = Evo!Before(i)
        /\ \A d : Evo!History(d)' = Evo!History(d)
    BY <1>2 DEF Evo!Before, Evo!History
  <2>4. Evo!NumbersCountUp' /\ Evo!KeysAreUsedOnce' /\ Evo!FinalIsFinal' /\ RecordsFollow'
    BY <1>2, <2>3 DEF EvolutionInv, Evo!NumbersCountUp, Evo!KeysAreUsedOnce, Evo!FinalIsFinal,
       RecordsFollow
  <2>5. stage'[c] = "defined" /\ \A d \in Evolving : d # c => stage'[d] = stage[d]
    BY <2>1 DEF EvolutionInv, EvolutionTypes
  <2>6. StagesAgree'
    BY <1>2, <2>1, <2>3, <2>5 DEF EvolutionInv, StagesAgree
  <2> QED
    BY <2>2, <2>4, <2>6 DEF EvolutionInv
<1>3. ASSUME NEW c \in Evolving, NEW from \in Evo!Stages, NEW to \in Evo!Stages,
             NEW number \in 0 .. MaxRecords, NEW key \in Keys, NEW e \in Evidences,
             Evo!RequestTransition(c, from, to, number, key, e)
      PROVE  EvolutionInv'
  <2>1. PICK word \in {"admit", "incomplete"} :
          /\ transitions' = Append(transitions, Evo!Record(c, from, to, word, number, key))
          /\ stage' = IF word = "admit" THEN [stage EXCEPT ![c] = to] ELSE stage
    BY <1>3 DEF Evo!RequestTransition
  <2> DEFINE r == Evo!Record(c, from, to, word, number, key)
  <2>2. /\ r \in Records /\ r.candidate = c /\ r.key = key /\ r.from = from /\ r.to = to
        /\ r.number = number /\ Evo!Left(r) = IF word = "admit" THEN to ELSE from
    BY Bounds DEF Records, Evo!Record, Evo!Left
  <2>3. /\ stage[c] = from /\ \A i \in DOMAIN transitions : transitions[i].key # key
        /\ from \in Evo!TERMINAL_STAGES => to = "quarantined"
        /\ number = Evo!Cardinality(Evo!History(c))
        /\ Len(transitions) < MaxRecords /\ killed' \in BOOLEAN
    BY <1>3 DEF Evo!RequestTransition, Evo!Admissible, EvolutionInv, EvolutionTypes
  <2> HIDE DEF r
  <2>4. stage' = [stage EXCEPT ![c] = Evo!Left(r)]
    BY <2>1, <2>2, <2>3 DEF EvolutionInv, EvolutionTypes
  <2>5. transitions' = Append(transitions, r)
    BY <2>1 DEF r
  <2> QED
    BY <2>2, <2>3, <2>4, <2>5, RecordsKeep
<1> QED
  BY <1>1, <1>2, <1>3 DEF Evo!Next, Evo!DefineCandidate

\* The latest of a set of numbers is the one CHOOSE finds.
LEMMA LatestIsChosen ==
  ASSUME NEW S \in SUBSET Nat, NEW m, IsLatest(m, S)
  PROVE  (CHOOSE j \in S : \A k \in S : k <= j) = m
<1>1. PICK x : x = CHOOSE j \in S : \A k \in S : k <= j
  OBVIOUS
<1>2. x \in S /\ \A k \in S : k <= x
  BY <1>1 DEF IsLatest
<1> QED
  BY <1>1, <1>2 DEF IsLatest

LEMMA EvolutionSafe == ASSUME EvolutionInv PROVE Evo!TypeOK /\ Evo!RecordIsReplayable
<1>1. Evo!TypeOK
  BY DEF EvolutionInv, EvolutionTypes, Evo!TypeOK
<1>2. DOMAIN transitions \subseteq Nat
  BY DEF EvolutionInv, EvolutionTypes
<1>3. ASSUME NEW i \in DOMAIN transitions, transitions[i].candidate \in Evolving
      PROVE  transitions[i].from = IF Evo!Before(i) = {} THEN "defined"
               ELSE Evo!Left(transitions[CHOOSE j \in Evo!Before(i) : \A k \in Evo!Before(i) : k <= j])
  <2>1. CASE Evo!Before(i) = {}
    BY <1>3, <2>1 DEF EvolutionInv, RecordsFollow, IsLatest
  <2>2. CASE Evo!Before(i) # {}
    <3>1. PICK m : IsLatest(m, Evo!Before(i)) /\ transitions[i].from = Evo!Left(transitions[m])
      BY <1>3, <2>2 DEF EvolutionInv, RecordsFollow
    <3>2. Evo!Before(i) \in SUBSET Nat
      BY <1>2 DEF Evo!Before
    <3> QED
      BY <2>2, <3>1, <3>2, LatestIsChosen
  <2> QED
    BY <2>1, <2>2
<1>4. ASSUME NEW c \in Evolving
      PROVE  IF Evo!History(c) = {} THEN stage[c] \in {"none", "defined"}
             ELSE stage[c] = Evo!Left(transitions[CHOOSE j \in Evo!History(c) : \A k \in Evo!History(c) : k <= j])
  <2>1. CASE Evo!History(c) = {}
    BY <2>1 DEF EvolutionInv, StagesAgree, IsLatest
  <2>2. CASE Evo!History(c) # {}
    <3>1. PICK m : IsLatest(m, Evo!History(c)) /\ stage[c] = Evo!Left(transitions[m])
      BY <2>2 DEF EvolutionInv, StagesAgree
    <3>2. Evo!History(c) \in SUBSET Nat
      BY <1>2 DEF Evo!History
    <3> QED
      BY <2>2, <3>1, <3>2, LatestIsChosen
  <2> QED
    BY <2>1, <2>2
<1>5. Evo!StagesFollow
  BY <1>3, <1>4 DEF Evo!StagesFollow
<1> QED
  BY <1>1, <1>5 DEF EvolutionInv, Evo!RecordIsReplayable

-----------------------------------------------------------------------------
(* The dossier of a candidate (CertificationDossier).                       *)

IsSeq(s) == \E S : s \in Seq(S)
\* The root the dossier had with its first n events.
RootAt(n) == Dossier!DossierRoot("ours", SubSeq(hashes, 1, n))

ChainInv ==
  /\ IsSeq(events) /\ IsSeq(hashes) /\ Len(events) = Len(hashes) /\ Len(events) <= MaxEvents
  /\ \A i \in 1 .. Len(events) :
       /\ hashes[i] = Dossier!EventHash(events[i]) /\ events[i].sequence = i
       /\ events[i].previous = IF i = 1 THEN <<>> ELSE hashes[i - 1]
  /\ root # <<>> => Len(hashes) > 0 /\ root = Dossier!DossierRoot("ours", hashes)

\* A prepared event goes on top of the chain as it was at some length.
DraftsInv ==
  /\ DOMAIN draft = Writers
  /\ \A w \in Writers : draft[w] # <<>> => \E n \in 0 .. Len(hashes) :
       /\ draft[w].sequence = n + 1 /\ n < MaxEvents
       /\ draft[w].previous = IF n = 0 THEN <<>> ELSE hashes[n]

\* A root outside the repository is one the dossier has had.
CopiesInv ==
  /\ copy.root # <<>> => \E n \in 1 .. Len(hashes) : copy.root = RootAt(n)
  /\ replica # <<>> => \E n \in 1 .. Len(hashes) : replica = RootAt(n)
  /\ report = "verified" => /\ copy.root # <<>>
                            /\ copy.root = Dossier!DossierRoot("ours", Dossier!EventHashes(copy.events))
  /\ report \in {"none", "verified", "issues", "CERT-ORCHESTRATOR-10"}

StoresInv ==
  /\ objects \in [Dossier!Adapters -> [Heavy -> 0 .. 2]] /\ age \in [Heavy -> 0 .. MaxAge]

DossierInv == ChainInv /\ DraftsInv /\ CopiesInv /\ StoresInv

LEMMA Lengths ==
  ASSUME NEW s, IsSeq(s)
  PROVE  Len(s) \in Nat /\ DOMAIN s = 1 .. Len(s) /\ (s = <<>> <=> Len(s) = 0)
BY DEF IsSeq

LEMMA Appended ==
  ASSUME NEW s, IsSeq(s), NEW x
  PROVE  /\ IsSeq(Append(s, x)) /\ Len(Append(s, x)) = Len(s) + 1
         /\ Append(s, x)[Len(s) + 1] = x
         /\ \A i \in 1 .. Len(s) : Append(s, x)[i] = s[i]
         /\ \A n \in 1 .. Len(s) : SubSeq(Append(s, x), 1, n) = SubSeq(s, 1, n)
<1>1. PICK S : s \in Seq(S)
  BY DEF IsSeq
<1>2. s \in Seq(S \cup {x}) /\ Append(s, x) \in Seq(S \cup {x})
  BY <1>1
<1>3. IsSeq(Append(s, x))
  BY <1>2 DEF IsSeq
<1>4. /\ Len(s) \in Nat /\ Len(Append(s, x)) = Len(s) + 1
      /\ Append(s, x)[Len(s) + 1] = x
      /\ \A i \in 1 .. Len(s) : Append(s, x)[i] = s[i]
  BY <1>1
<1>5. ASSUME NEW n \in 1 .. Len(s) PROVE SubSeq(Append(s, x), 1, n) = SubSeq(s, 1, n)
  BY <1>2, <1>4, <1>5
<1> QED
  BY <1>3, <1>4, <1>5

LEMMA WholeSequence == ASSUME NEW s, IsSeq(s) PROVE SubSeq(s, 1, Len(s)) = s
BY DEF IsSeq

LEMMA DossierInit == ASSUME Dossier!Init PROVE DossierInv
<1>1. <<>> \in Seq({}) /\ Len(<<>>) = 0
  OBVIOUS
<1>2. /\ events = <<>> /\ hashes = <<>> /\ root = <<>> /\ draft = [w \in Writers |-> <<>>]
      /\ copy.root = <<>> /\ report = "none" /\ replica = <<>>
      /\ objects = [a \in Dossier!Adapters |-> [p \in Heavy |-> 0]] /\ age = [p \in Heavy |-> 0]
  BY DEF Dossier!Init, Dossier!None
<1>3. ChainInv
  <2>1. IsSeq(events) /\ IsSeq(hashes)
    BY <1>1, <1>2 DEF IsSeq
  <2> QED
    BY <1>1, <1>2, <2>1, Bounds DEF ChainInv
<1>4. DraftsInv /\ CopiesInv
  BY <1>2 DEF DraftsInv, CopiesInv
<1>5. StoresInv
  BY <1>2, Bounds DEF StoresInv
<1> QED
  BY <1>3, <1>4, <1>5 DEF DossierInv

\* A hash of the chain tells its place.
LEMMA HashesDiffer ==
  ASSUME ChainInv, NEW i \in 1 .. Len(hashes)
  PROVE  hashes[i][3] = i /\ hashes[i] # <<>>
<1>1. hashes[i] = Dossier!EventHash(events[i]) /\ events[i].sequence = i
  BY DEF ChainInv
<1> QED
  BY <1>1 DEF Dossier!EventHash

LEMMA AppendEventKeeps ==
  ASSUME DossierInv, NEW w \in Writers, Dossier!AppendDossierEvent(w) PROVE DossierInv'
<1>1. /\ draft[w] # <<>> /\ draft' = [draft EXCEPT ![w] = <<>>]
      /\ UNCHANGED <<copy, report, replica, objects, age>>
  BY DEF Dossier!AppendDossierEvent, Dossier!Aside, Dossier!None
<1>2. /\ Len(hashes) \in Nat /\ Len(events) = Len(hashes) /\ (hashes = <<>> <=> Len(hashes) = 0)
      /\ IsSeq(events) /\ IsSeq(hashes)
  BY Lengths DEF DossierInv, ChainInv
<1>3. \A v \in Writers : draft'[v] # <<>> => draft'[v] = draft[v]
  BY <1>1 DEF DossierInv, DraftsInv
<1>4. DOMAIN draft' = Writers
  BY <1>1 DEF DossierInv, DraftsInv
<1>5. StoresInv'
  BY <1>1 DEF DossierInv, StoresInv
<1>6. CASE UNCHANGED <<events, hashes, root>>
  <2>1. ChainInv' /\ CopiesInv'
    BY <1>1, <1>6 DEF DossierInv, ChainInv, CopiesInv, RootAt
  <2>2. DraftsInv'
    BY <1>3, <1>4, <1>6 DEF DossierInv, DraftsInv
  <2> QED
    BY <1>5, <2>1, <2>2 DEF DossierInv
<1>7. CASE /\ draft[w].previous = Dossier!Head0(hashes) /\ events' = Append(events, draft[w])
           /\ hashes' = Append(hashes, Dossier!EventHash(draft[w]))
           /\ root' = Dossier!DossierRoot("ours", hashes')
  <2>1. PICK n : n = Len(hashes)
    OBVIOUS
  <2>2. PICK e : e = draft[w]
    OBVIOUS
  <2>3. /\ IsSeq(events') /\ IsSeq(hashes') /\ Len(events') = n + 1 /\ Len(hashes') = n + 1
        /\ events'[n + 1] = e /\ hashes'[n + 1] = Dossier!EventHash(e)
        /\ \A i \in 1 .. n : events'[i] = events[i] /\ hashes'[i] = hashes[i]
        /\ \A i \in 1 .. n : SubSeq(hashes', 1, i) = SubSeq(hashes, 1, i)
    BY <1>2, <1>7, <2>1, <2>2, Appended
  <2>4. e.previous = IF n = 0 THEN <<>> ELSE hashes[n]
    BY <1>2, <1>7, <2>1, <2>2 DEF Dossier!Head0, Dossier!None
  <2>5. PICK k \in 0 .. n : /\ e.sequence = k + 1 /\ k < MaxEvents
                            /\ e.previous = IF k = 0 THEN <<>> ELSE hashes[k]
    BY <1>1, <2>1, <2>2 DEF DossierInv, DraftsInv
  <2>6. k = n
    <3>1. \A i \in 1 .. n : hashes[i][3] = i /\ hashes[i] # <<>>
      BY <2>1, HashesDiffer DEF DossierInv
    <3> QED
      BY <1>2, <2>1, <2>4, <2>5, <3>1
  <2>7. ChainInv'
    <3>1. n + 1 <= MaxEvents
      BY <1>2, <2>1, <2>5, <2>6, Bounds
    <3>2. ASSUME NEW i \in 1 .. n + 1
          PROVE  /\ hashes'[i] = Dossier!EventHash(events'[i]) /\ events'[i].sequence = i
                 /\ events'[i].previous = IF i = 1 THEN <<>> ELSE hashes'[i - 1]
      <4>1. CASE i = n + 1
        BY <1>2, <2>1, <2>3, <2>4, <2>5, <2>6, <4>1
      <4>2. CASE i \in 1 .. n
        <5>1. /\ hashes[i] = Dossier!EventHash(events[i]) /\ events[i].sequence = i
              /\ events[i].previous = IF i = 1 THEN <<>> ELSE hashes[i - 1]
          BY <1>2, <2>1, <4>2 DEF DossierInv, ChainInv
        <5>2. i # 1 => i - 1 \in 1 .. n
          BY <1>2, <2>1, <4>2
        <5> QED
          BY <2>3, <4>2, <5>1, <5>2
      <4> QED
        BY <1>2, <2>1, <4>1, <4>2
    <3> QED
      BY <1>2, <1>7, <2>1, <2>3, <3>1, <3>2 DEF ChainInv
  <2>8. DraftsInv'
    <3>1. ASSUME NEW v \in Writers, draft'[v] # <<>>
          PROVE  \E m \in 0 .. Len(hashes') :
                   /\ draft'[v].sequence = m + 1 /\ m < MaxEvents
                   /\ draft'[v].previous = IF m = 0 THEN <<>> ELSE hashes'[m]
      <4>1. draft'[v] = draft[v] /\ draft[v] # <<>>
        BY <1>3, <3>1
      <4>2. PICK m \in 0 .. n : /\ draft[v].sequence = m + 1 /\ m < MaxEvents
                                /\ draft[v].previous = IF m = 0 THEN <<>> ELSE hashes[m]
        BY <2>1, <4>1 DEF DossierInv, DraftsInv
      <4>3. m \in 0 .. Len(hashes') /\ (m # 0 => hashes'[m] = hashes[m])
        BY <1>2, <2>1, <2>3, <4>2
      <4> QED
        BY <4>1, <4>2, <4>3
    <3> QED
      BY <1>4, <3>1 DEF DraftsInv
  <2>9. CopiesInv'
    <3>1. \A m \in 1 .. n : m \in 1 .. Len(hashes') /\ RootAt(m)' = RootAt(m)
      BY <1>2, <2>1, <2>3 DEF RootAt, Dossier!DossierRoot
    <3> QED
      BY <1>1, <2>1, <3>1 DEF DossierInv, CopiesInv
  <2> QED
    BY <1>5, <2>7, <2>8, <2>9 DEF DossierInv
<1> QED
  BY <1>6, <1>7 DEF Dossier!AppendDossierEvent

\* A step that leaves the chain and the drafts alone.
LEMMA ChainStays ==
  ASSUME DossierInv, UNCHANGED <<events, hashes, root>>
  PROVE  ChainInv' /\ (UNCHANGED draft => DraftsInv') /\ (UNCHANGED <<copy, report, replica>> => CopiesInv')
         /\ \A m : RootAt(m)' = RootAt(m)
<1>1. ChainInv'
  BY DEF DossierInv, ChainInv
<1>2. UNCHANGED draft => DraftsInv'
  BY DEF DossierInv, DraftsInv
<1>3. \A m : RootAt(m)' = RootAt(m)
  BY DEF RootAt
<1>4. UNCHANGED <<copy, report, replica>> => CopiesInv'
  BY <1>3 DEF DossierInv, CopiesInv
<1> QED
  BY <1>1, <1>2, <1>3, <1>4

LEMMA RootIsLast ==
  ASSUME DossierInv, root # <<>> PROVE Len(hashes) \in 1 .. Len(hashes) /\ root = RootAt(Len(hashes))
<1>1. /\ IsSeq(hashes) /\ Len(hashes) > 0 /\ root = Dossier!DossierRoot("ours", hashes)
  BY DEF DossierInv, ChainInv
<1>2. Len(hashes) \in Nat /\ SubSeq(hashes, 1, Len(hashes)) = hashes
  BY <1>1, Lengths, WholeSequence
<1>3. Len(hashes) \in 1 .. Len(hashes)
  BY <1>1, <1>2
<1>4. root = RootAt(Len(hashes))
  BY <1>1, <1>2, Zenon DEF RootAt
<1> QED
  BY <1>3, <1>4

LEMMA DossierStep == ASSUME DossierInv, Dossier!Next PROVE DossierInv'
<1>1. CASE Dossier!ReadBack
  <2>1. UNCHANGED <<events, hashes, root, draft, replica, objects, age>> /\ report' = "none"
    BY <1>1 DEF Dossier!ReadBack, Dossier!Aside
  <2>2. copy'.root = root
    BY <1>1 DEF Dossier!ReadBack
  <2>3. CopiesInv'
    BY <2>1, <2>2, ChainStays, RootIsLast DEF DossierInv, CopiesInv
  <2> QED
    BY <2>1, <2>3, ChainStays DEF DossierInv, StoresInv
<1>2. CASE Dossier!Inspect
  <2>1. /\ UNCHANGED <<events, hashes, root, draft, copy, replica, objects, age>>
        /\ copy.root # <<>> /\ report' = Dossier!VerifyCertification(copy, copy.root)
    BY <1>2 DEF Dossier!Inspect, Dossier!Aside, Dossier!None
  <2>2. /\ report' \in {"none", "verified", "issues", "CERT-ORCHESTRATOR-10"}
        /\ report' = "verified" => copy.root = Dossier!DossierRoot("ours", Dossier!EventHashes(copy.events))
    BY <2>1 DEF Dossier!VerifyCertification, Dossier!RootHolds, Dossier!None
  <2>3. CopiesInv'
    BY <2>1, <2>2, ChainStays DEF DossierInv, CopiesInv
  <2> QED
    BY <2>1, <2>3, ChainStays DEF DossierInv, StoresInv
<1>3. ASSUME NEW w \in Writers, NEW p \in Payloads, Dossier!Prepare(w, p) PROVE DossierInv'
  <2> DEFINE e == [kind |-> "evidence", candidate |-> "ours", sequence |-> Len(events) + 1,
                   previous |-> Dossier!Head0(hashes), payload |-> p]
  <2>1. /\ Len(events) < MaxEvents /\ draft' = [draft EXCEPT ![w] = e]
        /\ UNCHANGED <<events, hashes, root, copy, report, replica, objects, age>>
    BY <1>3 DEF Dossier!Prepare, Dossier!Aside
  <2>2. /\ Len(hashes) \in Nat /\ Len(events) = Len(hashes) /\ (hashes = <<>> <=> Len(hashes) = 0)
    BY Lengths DEF DossierInv, ChainInv
  <2>3. /\ e.sequence = Len(hashes) + 1
        /\ e.previous = IF Len(hashes) = 0 THEN <<>> ELSE hashes[Len(hashes)]
    BY <2>2 DEF Dossier!Head0, Dossier!None
  <2> HIDE DEF e
  <2>4. DOMAIN draft' = Writers /\ draft'[w] = e /\ \A v \in Writers : v # w => draft'[v] = draft[v]
    BY <2>1 DEF DossierInv, DraftsInv
  <2>5. Len(hashes) \in 0 .. Len(hashes)
    BY <2>2
  <2>6. DraftsInv'
    BY <2>1, <2>2, <2>3, <2>4, <2>5 DEF DossierInv, DraftsInv
  <2> QED
    BY <2>1, <2>6, ChainStays DEF DossierInv, StoresInv
<1>4. ASSUME NEW r, Dossier!VerifyDurableReplica(r) PROVE DossierInv'
  <2>1. /\ UNCHANGED <<events, hashes, root, draft, copy, report, objects, age>>
        /\ root # <<>> /\ replica' \in {root, replica}
    BY <1>4 DEF Dossier!VerifyDurableReplica, Dossier!Aside, Dossier!None
  <2>2. CopiesInv'
    BY <2>1, ChainStays, RootIsLast DEF DossierInv, CopiesInv
  <2> QED
    BY <2>1, <2>2, ChainStays DEF DossierInv, StoresInv
<1>5. ASSUME UNCHANGED <<events, hashes, root, draft, copy, report, replica>>, StoresInv' PROVE DossierInv'
  BY <1>5, ChainStays DEF DossierInv
<1>6. CASE Dossier!Certify \/ \E i \in Writers, key \in {"k1", "k2"} : Dossier!AddIssuer(i, key)
  BY <1>5, <1>6 DEF Dossier!Certify, Dossier!AddIssuer, DossierInv, StoresInv
<1>7. ASSUME NEW p \in Heavy, NEW size \in 1 .. 2,
             Dossier!PutObject(p, size) \/ \E answered \in BOOLEAN : Dossier!PutObjectR2(p, size, answered)
      PROVE  DossierInv'
  <2>1. objects' \in [Dossier!Adapters -> [Heavy -> 0 .. 2]] /\ age' \in [Heavy -> 0 .. MaxAge]
    BY <1>7, Bounds DEF Dossier!PutObject, Dossier!PutObjectR2, DossierInv, StoresInv, Dossier!Adapters
  <2> QED
    BY <1>5, <1>7, <2>1 DEF Dossier!PutObject, Dossier!PutObjectR2, StoresInv
<1>8. ASSUME NEW p \in Heavy, Dossier!Age(p) \/ Dossier!Collect(p) PROVE DossierInv'
  <2>1. objects' \in [Dossier!Adapters -> [Heavy -> 0 .. 2]] /\ age' \in [Heavy -> 0 .. MaxAge]
    BY <1>8, Bounds DEF Dossier!Age, Dossier!Collect, DossierInv, StoresInv
  <2> QED
    BY <1>5, <1>8, <2>1 DEF Dossier!Age, Dossier!Collect, StoresInv
<1> QED
  BY <1>1, <1>2, <1>3, <1>4, <1>6, <1>7, <1>8, AppendEventKeeps DEF Dossier!Next

LEMMA DossierSafe == ASSUME DossierInv PROVE Dossier!TypeOK /\ Dossier!DossierIsSound
<1>1. /\ DOMAIN events = 1 .. Len(events) /\ DOMAIN hashes = 1 .. Len(events)
      /\ Len(events) \in Nat /\ Len(events) = Len(hashes) /\ IsSeq(hashes)
  BY Lengths DEF DossierInv, ChainInv
<1>2. Dossier!TypeOK
  BY <1>1 DEF DossierInv, ChainInv, CopiesInv, StoresInv, Dossier!TypeOK
<1>3. hashes = Dossier!EventHashes(events)
  <2>1. hashes = [i \in DOMAIN hashes |-> hashes[i]]
    BY DEF DossierInv, ChainInv, IsSeq
  <2> QED
    BY <1>1, <2>1 DEF DossierInv, ChainInv, Dossier!EventHashes
<1>4. Dossier!ChainHolds(events)
  <2>1. \A i \in 1 .. Len(events) : i # 1 => i - 1 \in 1 .. Len(events)
    BY <1>1
  <2> QED
    BY <1>1, <2>1 DEF DossierInv, ChainInv, Dossier!ChainHolds, Dossier!None
<1>5. \A i, j \in DOMAIN events : events[i].previous = events[j].previous => i = j
  <2>1. \A i \in 1 .. Len(hashes) : hashes[i][3] = i /\ hashes[i] # <<>>
    BY HashesDiffer DEF DossierInv
  <2>2. \A i \in 1 .. Len(events) : /\ events[i].previous = IF i = 1 THEN <<>> ELSE hashes[i - 1]
                                    /\ i # 1 => i - 1 \in 1 .. Len(hashes)
    BY <1>1 DEF DossierInv, ChainInv
  <2> QED
    BY <1>1, <2>1, <2>2
<1>6. ASSUME report = "verified"
      PROVE  copy.root = Dossier!DossierRoot("ours", [i \in DOMAIN copy.events |-> hashes[i]])
  <2>1. PICK n \in 1 .. Len(hashes) : copy.root = RootAt(n)
    BY <1>6 DEF DossierInv, CopiesInv
  <2>2. copy.root = Dossier!DossierRoot("ours", Dossier!EventHashes(copy.events))
    BY <1>6 DEF DossierInv, CopiesInv
  <2>3. Dossier!EventHashes(copy.events) = SubSeq(hashes, 1, n)
    BY <2>1, <2>2 DEF RootAt, Dossier!DossierRoot
  <2>4. DOMAIN copy.events = DOMAIN Dossier!EventHashes(copy.events)
    BY DEF Dossier!EventHashes
  <2>5. SubSeq(hashes, 1, n) = [i \in 1 .. n |-> hashes[i]]
    BY <1>1 DEF IsSeq
  <2>6. DOMAIN copy.events = 1 .. n
    BY <2>3, <2>4, <2>5
  <2> QED
    BY <2>2, <2>3, <2>5, <2>6
<1>7. replica # <<>> => \E n \in 1 .. Len(hashes) : replica = Dossier!DossierRoot("ours", SubSeq(hashes, 1, n))
  BY DEF DossierInv, CopiesInv, RootAt
<1>8. root # <<>> => root = Dossier!DossierRoot("ours", hashes)
  BY DEF DossierInv, ChainInv
<1>9. Dossier!DossierIsSound
  BY ONLY <1>3, <1>4, <1>5, <1>6, <1>7, <1>8 DEF Dossier!DossierIsSound, Dossier!None
<1> QED
  BY <1>2, <1>9

-----------------------------------------------------------------------------
(* The registry of services (ServiceDeploy).                                *)

Steps == {"idle", "gates", "evidence", "wrangler", "probe", "record", "recording", "url", "url-write"}
\* The steps before the operation is in the registry.
Early == {"gates", "evidence", "wrangler", "probe", "record", "recording"}
States3 == {"none", "succeeded", "failed"}
DeployRecords == [op : Nat, state : States3]
Registries == [Services -> [dev : DeployRecords, prod : DeployRecords, url : Nat]]
Processes == [at : Steps, cmd : Service!Commands \cup {"none"}, service : Services \cup {"none"},
              op : Nat, url : Nat, state : States3, read : Seq(Registries)]

ServiceTypes ==
  /\ registry \in Registries /\ proc \in [Procs -> Processes]
  /\ lock \in [Services -> [by : Procs \cup {"free"}, alive : BOOLEAN]]
  /\ worker \in [Services -> [Service!Targets -> Seq(Nat)]]
  /\ \A s \in Services, t \in Service!Targets : Service!Served(s, t) \subseteq 0 .. ops
  /\ ops \in 0 .. MaxOps /\ smoked \subseteq 1 .. ops

\* A registry, or a copy of it, that tells the truth and names nothing under way.
Sound(r) == \A s \in Services, t \in Service!Targets :
  /\ r[s][t].op <= ops
  /\ r[s][t].state = "succeeded" =>
       r[s][t].op \in Service!Served(s, t) /\ (t = "prod" => r[s][t].op \notin smoked)
  /\ \A p \in Procs : proc[p].at \in Early => proc[p].op # r[s][t].op

\* A command at work holds its lock, and what it will record is true.
AtWork(p) == proc[p].at # "idle" =>
  /\ proc[p].service \in Services /\ lock[proc[p].service] = [by |-> p, alive |-> TRUE]
  /\ proc[p].op \in 1 .. ops /\ proc[p].cmd \in Service!Commands
  /\ proc[p].at \in {"gates", "evidence", "wrangler", "probe"} => proc[p].op \notin smoked
  /\ proc[p].at = "probe" => proc[p].cmd # "rollback"
  /\ proc[p].at \in {"probe", "record", "recording"} /\ proc[p].state = "succeeded" =>
       proc[p].op \in Service!Served(proc[p].service, Service!Target(p))
  /\ proc[p].at \in {"record", "recording"} /\ proc[p].state = "succeeded" =>
       proc[p].cmd = "dev-deploy" \/ proc[p].op \notin smoked
  /\ proc[p].at \in {"recording", "url-write"} =>
       proc[p].read[1] \in Registries /\ Sound(proc[p].read[1])

ServiceInv ==
  /\ ServiceTypes /\ Sound(registry) /\ \A p \in Procs : AtWork(p)
  /\ \A p, q \in Procs : proc[p].at # "idle" /\ proc[q].at # "idle" /\ proc[p].op = proc[q].op => p = q

LEMMA ServiceInit == ASSUME Service!Init PROVE ServiceInv
<1>1. /\ registry = [s \in Services |-> Service!Entry] /\ lock = [s \in Services |-> Service!Free]
      /\ worker = [s \in Services |-> [t \in Service!Targets |-> <<0>>]]
      /\ proc = [p \in Procs |-> Service!Idle] /\ smoked = {} /\ ops = 0
  BY DEF Service!Init
<1>2. registry \in Registries
  BY <1>1 DEF Registries, DeployRecords, States3, Service!Entry, Service!NoRecord
<1>3. Service!Idle \in Processes
  <2>1. <<>> \in Seq(Registries)
    OBVIOUS
  <2> HIDE DEF Registries
  <2> QED
    BY <2>1 DEF Processes, Service!Idle, Steps, States3
<1>4. \A p \in Procs : proc[p].at = "idle"
  BY <1>1 DEF Service!Idle
<1>5. worker \in [Services -> [Service!Targets -> Seq(Nat)]]
  BY <1>1
<1>6. \A s \in Services, t \in Service!Targets : Service!Served(s, t) = {0}
  BY <1>1 DEF Service!Served
<1>7. ServiceTypes
  <2>1. lock \in [Services -> [by : Procs \cup {"free"}, alive : BOOLEAN]]
    BY <1>1 DEF Service!Free
  <2>2. proc \in [Procs -> Processes]
    BY <1>1, <1>3
  <2> QED
    BY <1>1, <1>2, <1>5, <1>6, <2>1, <2>2, Bounds DEF ServiceTypes
<1>8. Sound(registry)
  BY <1>1, <1>4 DEF Sound, Service!Entry, Service!NoRecord, Service!Targets, Early
<1> QED
  BY <1>4, <1>7, <1>8 DEF ServiceInv, AtWork

\* What a step of one process leaves of the others, and of any registry.
Gentle(p) ==
  /\ ops <= ops' /\ \A q \in Procs : q # p => proc'[q] = proc[q]
  /\ \A s \in Services, t \in Service!Targets : Service!Served(s, t) \subseteq Service!Served(s, t)'
  /\ smoked' \subseteq smoked \cup IF proc[p].at = "probe" THEN {proc[p].op} ELSE {}
  /\ proc'[p].at \in Early => \/ proc[p].at \in Early /\ proc'[p].op = proc[p].op
                              \/ proc'[p].op > ops

LEMMA SoundKeeps ==
  ASSUME ServiceInv, NEW p \in Procs, Gentle(p), NEW r \in Registries, Sound(r), ops' \in Nat
  PROVE  Sound(r)'
<1>1. ASSUME NEW s \in Services, NEW t \in Service!Targets
      PROVE  /\ r[s][t].op <= ops'
             /\ r[s][t].state = "succeeded" =>
                  r[s][t].op \in Service!Served(s, t)' /\ (t = "prod" => r[s][t].op \notin smoked')
             /\ \A q \in Procs : proc'[q].at \in Early => proc'[q].op # r[s][t].op
  <2>1. /\ r[s][t].op <= ops /\ \A q \in Procs : proc[q].at \in Early => proc[q].op # r[s][t].op
        /\ r[s][t].state = "succeeded" =>
             r[s][t].op \in Service!Served(s, t) /\ (t = "prod" => r[s][t].op \notin smoked)
    BY DEF Sound
  <2>2. r[s][t] \in DeployRecords
    BY DEF Registries, Service!Targets
  <2>3. r[s][t].op \in Nat /\ ops \in Nat
    BY <2>2 DEF DeployRecords, ServiceInv, ServiceTypes
  <2>4. proc[p].at = "probe" => proc[p].op # r[s][t].op
    BY <2>1 DEF Early
  <2> QED
    BY <2>1, <2>3, <2>4 DEF Gentle
<1> QED
  BY <1>1 DEF Sound

LEMMA OthersKeep ==
  ASSUME ServiceInv, NEW p \in Procs, Gentle(p), ServiceTypes', NEW q \in Procs, q # p,
         proc[q].at # "idle" => lock'[proc[q].service] = lock[proc[q].service]
  PROVE  AtWork(q)'
<1>1. SUFFICES ASSUME proc[q].at # "idle" PROVE AtWork(q)'
  BY DEF Gentle, AtWork
<1>2. AtWork(q) /\ proc'[q] = proc[q] /\ ops \in Nat /\ ops' \in Nat /\ ops <= ops'
  BY DEF ServiceInv, ServiceTypes, Gentle
<1>3. proc[p].at = "probe" => proc[p].op # proc[q].op
  BY <1>1 DEF ServiceInv
<1>4. proc[q].op \notin smoked => proc[q].op \notin smoked'
  BY <1>3 DEF Gentle
<1>5. Service!Target(q)' = Service!Target(q) /\ Service!Target(q) \in Service!Targets
  BY <1>2 DEF Service!Target, Service!Targets
<1>6. proc[q].at \in {"recording", "url-write"} => Sound(proc[q].read[1])'
  <2>1. PICK r : r = proc[q].read[1]
    OBVIOUS
  <2>2. proc[q].at \in {"recording", "url-write"} => Sound(r)'
    BY <1>1, <1>2, <2>1, SoundKeeps DEF AtWork
  <2>3. proc'[q].read[1] = r
    BY <1>2, <2>1
  <2> QED
    BY <2>2, <2>3 DEF Sound
<1>7. Service!Served(proc[q].service, Service!Target(q)) \subseteq Service!Served(proc[q].service, Service!Target(q))'
  <2>1. proc[q].service \in Services
    BY <1>1, <1>2 DEF AtWork
  <2>2. PICK s \in Services, t \in Service!Targets : s = proc[q].service /\ t = Service!Target(q)
    BY <2>1, <1>5
  <2>3. Service!Served(s, t) \subseteq Service!Served(s, t)'
    BY DEF Gentle
  <2>4. proc'[q].service = s /\ Service!Target(q)' = t
    BY <1>2, <1>5, <2>2
  <2> QED
    BY <2>2, <2>3, <2>4 DEF Service!Served
<1> QED
  BY <1>1, <1>2, <1>4, <1>5, <1>6, <1>7 DEF AtWork

LEMMA IdleTyped == Service!Idle \in Processes /\ Service!Idle.at = "idle"
<1>1. <<>> \in Seq(Registries)
  OBVIOUS
<1> HIDE DEF Registries
<1> QED
  BY <1>1 DEF Processes, Service!Idle, Steps, States3

LEMMA Working ==
  ASSUME ServiceInv, NEW p \in Procs
  PROVE  /\ proc[p] \in Processes /\ DOMAIN proc = Procs /\ ops \in Nat
         /\ proc[p].at # "idle" =>
              /\ AtWork(p) /\ proc[p].service \in Services /\ proc[p].service \in DOMAIN lock
              /\ Service!Target(p) \in Service!Targets /\ proc[p].op \in 1 .. ops
              /\ lock[proc[p].service].by = p
<1>1. AtWork(p) /\ proc[p] \in Processes /\ DOMAIN proc = Procs /\ ops \in Nat /\ DOMAIN lock = Services
  BY DEF ServiceInv, ServiceTypes
<1>2. ASSUME proc[p].at # "idle"
      PROVE  /\ proc[p].service \in Services /\ proc[p].op \in 1 .. ops
             /\ lock[proc[p].service] = [by |-> p, alive |-> TRUE]
  BY <1>1, <1>2 DEF AtWork
<1> QED
  BY <1>1, <1>2 DEF Service!Target, Service!Targets

LEMMA ProcessKeeps ==
  ASSUME ServiceInv, NEW p \in Procs, Gentle(p), ServiceTypes', AtWork(p)', Sound(registry)',
         \A q \in Procs : q # p /\ proc[q].at # "idle" => lock'[proc[q].service] = lock[proc[q].service],
         proc'[p].at # "idle" => \/ proc[p].at # "idle" /\ proc'[p].op = proc[p].op
                                 \/ proc'[p].op > ops
  PROVE  ServiceInv'
<1>1. \A q \in Procs : AtWork(q)'
  BY OthersKeep
<1>2. \A q \in Procs : q # p => proc'[q] = proc[q]
  BY DEF Gentle
<1>3. \A q \in Procs : proc[q].at # "idle" => proc[q].op <= ops
  BY Working
<1>4. ASSUME NEW q \in Procs, q # p, proc'[q].at # "idle", proc'[p].at # "idle"
      PROVE  proc'[p].op # proc'[q].op
  <2>1. proc'[q] = proc[q] /\ proc[q].op <= ops
    BY <1>2, <1>3, <1>4
  <2>2. proc[q].op \in Nat /\ ops \in Nat
    BY <1>2, <1>4, Working
  <2>3. CASE proc[p].at # "idle" /\ proc'[p].op = proc[p].op
    BY <1>2, <1>4, <2>1, <2>3 DEF ServiceInv
  <2>4. CASE proc'[p].op > ops
    BY <2>1, <2>2, <2>4
  <2> QED
    BY <1>4, <2>3, <2>4
<1>5. \A q, r \in Procs : proc'[q].at # "idle" /\ proc'[r].at # "idle" /\ proc'[q].op = proc'[r].op => q = r
  <2>1. ASSUME NEW q \in Procs, NEW r \in Procs, q # p, r # p, proc'[q].at # "idle",
               proc'[r].at # "idle", proc'[q].op = proc'[r].op
        PROVE  q = r
    BY <1>2, <2>1 DEF ServiceInv
  <2> QED
    BY <1>4, <2>1
<1> QED
  BY <1>1, <1>5 DEF ServiceInv

\* Two commands at work have different services.
LEMMA ServicesDiffer ==
  ASSUME ServiceInv, NEW p \in Procs, NEW q \in Procs, p # q, proc[p].at # "idle", proc[q].at # "idle"
  PROVE  proc[p].service # proc[q].service
BY Working

LEMMA LeaveKeeps ==
  ASSUME ServiceInv, NEW p \in Procs, proc[p].at # "idle", Service!Leave(p), UNCHANGED <<worker, smoked, ops>>,
         registry' \in Registries, Sound(registry)'
  PROVE  ServiceInv'
<1>1. /\ proc' = [proc EXCEPT ![p] = Service!Idle]
      /\ lock' = [lock EXCEPT ![proc[p].service] = Service!Free]
  BY DEF Service!Leave
<1>2. Service!Idle \in Processes /\ Service!Idle.at = "idle"
  BY IdleTyped
<1>3. /\ proc'[p].at = "idle" /\ \A q \in Procs : q # p => proc'[q] = proc[q]
      /\ proc' \in [Procs -> Processes]
  BY <1>1, <1>2 DEF ServiceInv, ServiceTypes
<1>4. \A s, t : Service!Served(s, t)' = Service!Served(s, t)
  BY DEF Service!Served
<1>5. lock' \in [Services -> [by : Procs \cup {"free"}, alive : BOOLEAN]]
  BY <1>1 DEF ServiceInv, ServiceTypes, Service!Free
<1>6. ServiceTypes'
  BY <1>3, <1>4, <1>5 DEF ServiceInv, ServiceTypes
<1>7. Gentle(p)
  BY <1>3, <1>4 DEF Gentle, Early, ServiceInv, ServiceTypes
<1>8. AtWork(p)'
  BY <1>3 DEF AtWork
<1>9. \A q \in Procs : q # p /\ proc[q].at # "idle" => lock'[proc[q].service] = lock[proc[q].service]
  BY <1>1, ServicesDiffer, Working
<1> QED
  BY <1>3, <1>6, <1>7, <1>8, <1>9, ProcessKeeps

\* A step of a command at work that changes neither the locks nor the registry.
LEMMA WorkKeeps ==
  ASSUME ServiceInv, NEW p \in Procs, proc[p].at # "idle", UNCHANGED <<registry, lock, ops>>,
         NEW next \in Processes, proc' = [proc EXCEPT ![p] = next],
         next.at # "idle", next.cmd = proc[p].cmd, next.service = proc[p].service, next.op = proc[p].op,
         next.at \in Early => proc[p].at \in Early,
         worker' \in [Services -> [Service!Targets -> Seq(Nat)]],
         \A s \in Services, t \in Service!Targets :
           Service!Served(s, t) \subseteq Service!Served(s, t)' /\ Service!Served(s, t)' \subseteq 0 .. ops,
         smoked' \subseteq smoked \cup IF proc[p].at = "probe" THEN {proc[p].op} ELSE {},
         next.at \in {"gates", "evidence", "wrangler", "probe"} => proc[p].op \notin smoked',
         next.at = "probe" => proc[p].cmd # "rollback",
         next.at \in {"probe", "record", "recording"} /\ next.state = "succeeded" =>
           proc[p].op \in Service!Served(proc[p].service, Service!Target(p))',
         next.at \in {"record", "recording"} /\ next.state = "succeeded" =>
           proc[p].cmd = "dev-deploy" \/ proc[p].op \notin smoked',
         next.at \in {"recording", "url-write"} => next.read[1] \in Registries /\ Sound(next.read[1])
  PROVE  ServiceInv'
<1>1. /\ proc'[p] = next /\ \A q \in Procs : q # p => proc'[q] = proc[q]
      /\ proc' \in [Procs -> Processes]
  BY DEF ServiceInv, ServiceTypes
<1>2. AtWork(p) /\ ops \in Nat
  BY Working
<1>3. ServiceTypes'
  BY <1>1, <1>2 DEF ServiceInv, ServiceTypes, AtWork
<1>4. Gentle(p)
  BY <1>1, <1>2 DEF Gentle
<1>5. Sound(registry)'
  <2>1. PICK r \in Registries : r = registry
    BY DEF ServiceInv, ServiceTypes
  <2>2. Sound(r)'
    BY <1>2, <1>4, <2>1, SoundKeeps DEF ServiceInv
  <2> QED
    BY <2>1, <2>2
<1>6. AtWork(p)'
  <2>1. next.at \in {"recording", "url-write"} => Sound(next.read[1])'
    <3>1. PICK r : r = next.read[1]
      OBVIOUS
    <3> QED
      BY <1>2, <1>4, <3>1, SoundKeeps
  <2>2. Service!Target(p)' = Service!Target(p)
    BY <1>1 DEF Service!Target
  <2>3. proc'[p].service = proc[p].service
    BY <1>1
  <2>4. Service!Served(proc[p].service, Service!Target(p))' =
          {worker'[proc'[p].service][Service!Target(p)'][i] : i \in DOMAIN worker'[proc'[p].service][Service!Target(p)']}
    BY DEF Service!Served
  <2> QED
    BY <1>1, <1>2, <2>1, <2>2, <2>3, <2>4 DEF AtWork, Service!Served
<1> QED
  BY <1>1, <1>3, <1>4, <1>5, <1>6, ProcessKeeps

\* The registry of a step that only ends a command.
LEMMA LeaveSound ==
  ASSUME ServiceInv, NEW p \in Procs, proc[p].at # "idle", proc' = [proc EXCEPT ![p] = Service!Idle],
         UNCHANGED <<worker, smoked, ops>>, NEW r \in Registries, Sound(r)
  PROVE  Sound(r)'
<1>1. \A q \in Procs : proc'[q].at \in Early => proc'[q] = proc[q]
  BY DEF Service!Idle, Early, ServiceInv, ServiceTypes
<1>2. \A s, t : Service!Served(s, t)' = Service!Served(s, t)
  BY DEF Service!Served
<1> QED
  BY <1>1, <1>2 DEF Sound

LEMMA StartKeeps ==
  ASSUME ServiceInv, NEW p \in Procs, NEW s \in Services, NEW cmd \in Service!Commands,
         NEW first \in {"gates", "wrangler"}, Service!Start(p, s, cmd, first)
  PROVE  ServiceInv'
<1> DEFINE next == [Service!Idle EXCEPT !.at = first, !.cmd = cmd, !.service = s,
                                        !.op = ops + 1, !.url = registry[s].url]
<1>1. /\ proc[p].at = "idle" /\ ops < MaxOps /\ lock[s] = Service!Free /\ ops' = ops + 1
      /\ lock' = [lock EXCEPT ![s] = [by |-> p, alive |-> TRUE]]
      /\ proc' = [proc EXCEPT ![p] = next] /\ UNCHANGED <<registry, worker, smoked>>
  BY DEF Service!Start, Service!AcquireServiceLock
<1>2. ops \in Nat /\ ops' \in Nat /\ smoked \subseteq 1 .. ops
  BY <1>1 DEF ServiceInv, ServiceTypes
<1>3. next \in Processes /\ next.at = first /\ next.op = ops + 1 /\ next.service = s /\ next.cmd = cmd
  <2>1. PICK idle \in Processes : idle = Service!Idle
    BY IdleTyped
  <2>2. registry[s].url \in Nat /\ ops + 1 \in Nat
    BY <1>2 DEF ServiceInv, ServiceTypes, Registries
  <2>3. next = [idle EXCEPT !.at = first, !.cmd = cmd, !.service = s, !.op = ops + 1, !.url = registry[s].url]
    BY <2>1
  <2> HIDE DEF Registries, next
  <2> QED
    BY <2>1, <2>2, <2>3 DEF Processes, Steps
<1> HIDE DEF next
<1>4. /\ proc'[p] = next /\ \A q \in Procs : q # p => proc'[q] = proc[q]
      /\ proc' \in [Procs -> Processes]
  BY <1>1, <1>3 DEF ServiceInv, ServiceTypes
<1>5. \A t, u : Service!Served(t, u)' = Service!Served(t, u)
  BY <1>1 DEF Service!Served
<1>6. ServiceTypes'
  <2>1. lock' \in [Services -> [by : Procs \cup {"free"}, alive : BOOLEAN]]
    BY <1>1 DEF ServiceInv, ServiceTypes
  <2>2. ops' \in 0 .. MaxOps /\ smoked' \subseteq 1 .. ops'
    BY <1>1, <1>2, Bounds
  <2>3. \A t \in Services, u \in Service!Targets : Service!Served(t, u)' \subseteq 0 .. ops'
    BY <1>1, <1>2, <1>5 DEF ServiceInv, ServiceTypes
  <2> QED
    BY <1>1, <1>4, <2>1, <2>2, <2>3 DEF ServiceInv, ServiceTypes
<1>7. Gentle(p)
  BY <1>1, <1>2, <1>3, <1>4, <1>5 DEF Gentle
<1>8. Sound(registry)'
  <2>1. PICK r \in Registries : r = registry
    BY DEF ServiceInv, ServiceTypes
  <2>2. Sound(r)'
    BY <1>2, <1>7, <2>1, SoundKeeps DEF ServiceInv
  <2> QED
    BY <1>1, <2>1, <2>2
<1>9. AtWork(p)'
  <2>1. lock'[s] = [by |-> p, alive |-> TRUE]
    BY <1>1 DEF ServiceInv, ServiceTypes
  <2>2. ops + 1 \in 1 .. ops' /\ ops + 1 \notin smoked'
    BY <1>1, <1>2
  <2> QED
    BY <1>3, <1>4, <2>1, <2>2 DEF AtWork
<1>10. \A q \in Procs : q # p /\ proc[q].at # "idle" => lock'[proc[q].service] = lock[proc[q].service]
  <2>1. ASSUME NEW q \in Procs, proc[q].at # "idle" PROVE proc[q].service # s
    <3>1. lock[proc[q].service].by = q
      BY <2>1, Working
    <3> QED
      BY <1>1, <3>1, CertificationAssumption DEF Service!Free
  <2> QED
    BY <1>1, <2>1 DEF ServiceInv, ServiceTypes
<1> QED
  BY <1>2, <1>3, <1>4, <1>6, <1>7, <1>8, <1>9, <1>10, ProcessKeeps

LEMMA GatesKeep ==
  ASSUME ServiceInv, NEW p \in Procs, NEW pass, NEW next \in {"evidence", "wrangler"},
         proc[p].at \in {"gates", "evidence"},
         IF pass THEN Service!Goto(p, next) /\ UNCHANGED lock ELSE Service!Leave(p),
         UNCHANGED <<registry, worker, smoked, ops>>
  PROVE  ServiceInv'
<1>1. proc[p].at # "idle" /\ proc[p] \in Processes /\ AtWork(p)
  BY Working
<1>2. \A s, t : Service!Served(s, t)' = Service!Served(s, t)
  BY DEF Service!Served
<1>3. CASE pass
  <2> DEFINE x == [proc[p] EXCEPT !.at = next]
  <2>1. /\ x \in Processes /\ proc' = [proc EXCEPT ![p] = x] /\ x.at = next
        /\ x.cmd = proc[p].cmd /\ x.service = proc[p].service /\ x.op = proc[p].op
    <3> HIDE DEF Registries
    <3> QED
      BY <1>1, <1>3 DEF Service!Goto, Processes, Steps
  <2>2. proc[p].op \notin smoked
    BY <1>1 DEF AtWork
  <2> HIDE DEF x
  <2>3. \A s \in Services, t \in Service!Targets :
          Service!Served(s, t) \subseteq Service!Served(s, t)' /\ Service!Served(s, t)' \subseteq 0 .. ops
    BY <1>2 DEF ServiceInv, ServiceTypes
  <2>4. worker' \in [Services -> [Service!Targets -> Seq(Nat)]]
    BY DEF ServiceInv, ServiceTypes
  <2> QED
    BY <1>1, <1>3, <2>1, <2>2, <2>3, <2>4, WorkKeeps DEF Early
<1>4. CASE ~ pass
  <2>1. PICK r \in Registries : r = registry
    BY DEF ServiceInv, ServiceTypes
  <2>2. Sound(registry)' 
    <3>1. Sound(r)'
      BY <1>1, <1>4, <2>1, LeaveSound DEF Service!Leave, ServiceInv
    <3> QED
      BY <2>1, <3>1
  <2> QED
    BY <1>1, <1>4, <2>1, <2>2, LeaveKeeps
<1> QED
  BY <1>3, <1>4

LEMMA UploadKeeps ==
  ASSUME ServiceInv, NEW s \in Services, NEW t \in Service!Targets, NEW o \in 0 .. ops,
         Service!Uploaded(s, t, o) \/ UNCHANGED worker
  PROVE  /\ worker' \in [Services -> [Service!Targets -> Seq(Nat)]]
         /\ \A v \in Services, u \in Service!Targets :
              Service!Served(v, u) \subseteq Service!Served(v, u)' /\ Service!Served(v, u)' \subseteq 0 .. ops
         /\ Service!Uploaded(s, t, o) => o \in Service!Served(s, t)'
<1>1. /\ worker \in [Services -> [Service!Targets -> Seq(Nat)]] /\ o \in Nat
      /\ \A v \in Services, u \in Service!Targets : Service!Served(v, u) \subseteq 0 .. ops
  BY DEF ServiceInv, ServiceTypes
<1>2. CASE UNCHANGED worker /\ ~ Service!Uploaded(s, t, o)
  BY <1>1, <1>2 DEF Service!Served
<1>3. CASE Service!Uploaded(s, t, o)
  <2>1. PICK live \in Seq(Nat) : live = worker[s][t]
    BY <1>1
  <2>2. PICK longer \in Seq(Nat) : longer = Append(live, o)
    BY <1>1, <2>1, AppendProperties
  <2>3. worker' = [worker EXCEPT ![s] = [worker[s] EXCEPT ![t] = longer]]
    BY <1>1, <1>3, <2>1, <2>2 DEF Service!Uploaded
  <2>4. /\ worker' \in [Services -> [Service!Targets -> Seq(Nat)]] /\ worker'[s][t] = longer
        /\ \A v \in Services, u \in Service!Targets :
             v # s \/ u # t => worker'[v][u] = worker[v][u]
    BY <1>1, <2>2, <2>3
  <2>5. {longer[i] : i \in DOMAIN longer} = {live[i] : i \in DOMAIN live} \cup {o}
    <3>1. /\ DOMAIN live = 1 .. Len(live) /\ DOMAIN longer = 1 .. Len(live) + 1 /\ Len(live) \in Nat
          /\ longer[Len(live) + 1] = o /\ \A i \in 1 .. Len(live) : longer[i] = live[i]
      BY <1>1, <2>1, <2>2, AppendProperties, LenProperties
    <3> QED
      BY <3>1
  <2>8. /\ Service!Served(s, t) = {live[i] : i \in DOMAIN live}
        /\ Service!Served(s, t)' = {longer[i] : i \in DOMAIN longer}
    BY <2>1, <2>4 DEF Service!Served
  <2>6. ASSUME NEW v \in Services, NEW u \in Service!Targets
        PROVE  Service!Served(v, u) \subseteq Service!Served(v, u)' /\ Service!Served(v, u)' \subseteq 0 .. ops
    <3>1. Service!Served(v, u) \subseteq 0 .. ops
      BY <1>1
    <3>2. CASE v = s /\ u = t
      BY <2>8, <2>5, <3>1, <3>2
    <3>3. CASE v # s \/ u # t
      BY <2>4, <3>1, <3>3 DEF Service!Served
    <3> QED
      BY <3>2, <3>3
  <2>7. o \in Service!Served(s, t)'
    BY <2>8, <2>5
  <2> QED
    BY <2>4, <2>6, <2>7
<1> QED
  BY <1>2, <1>3

LEMMA WranglerKeeps ==
  ASSUME ServiceInv, NEW p \in Procs, NEW exit \in {0, 1}, NEW arrived \in BOOLEAN, NEW url \in BOOLEAN,
         Service!RunWranglerDeploy(p, exit, arrived, url)
  PROVE  ServiceInv'
<1> DEFINE x == [proc[p] EXCEPT
      !.at = IF exit = 0 THEN "probe" ELSE "record",
      !.state = IF exit = 0 THEN "succeeded" ELSE "failed",
      !.url = IF url THEN proc[p].op ELSE IF proc[p].cmd = "promote" THEN @ ELSE 0]
<1>1. /\ proc[p].at = "wrangler" /\ proc[p].cmd # "rollback" /\ (exit = 0 => arrived)
      /\ IF arrived THEN Service!Uploaded(proc[p].service, Service!Target(p), proc[p].op)
                    ELSE UNCHANGED worker
      /\ proc' = [proc EXCEPT ![p] = x] /\ UNCHANGED <<registry, lock, smoked, ops>>
  <2>1. p \in DOMAIN proc
    BY Working
  <2> QED
    BY <2>1 DEF Service!RunWranglerDeploy
<1>2. /\ proc[p] \in Processes /\ AtWork(p) /\ proc[p].service \in Services
      /\ Service!Target(p) \in Service!Targets /\ proc[p].op \in 1 .. ops /\ ops \in Nat
  BY <1>1, Working
<1>3. /\ x \in Processes /\ x.at = IF exit = 0 THEN "probe" ELSE "record"
      /\ x.state = IF exit = 0 THEN "succeeded" ELSE "failed"
      /\ x.cmd = proc[p].cmd /\ x.service = proc[p].service /\ x.op = proc[p].op
  <2>1. proc[p].op \in Nat
    BY <1>2
  <2> QED
    BY <1>2, <2>1 DEF Processes, Steps, States3
<1> HIDE DEF x
<1>4. PICK s \in Services, t \in Service!Targets : s = proc[p].service /\ t = Service!Target(p)
  BY <1>2
<1>5. /\ worker' \in [Services -> [Service!Targets -> Seq(Nat)]]
      /\ \A v \in Services, u \in Service!Targets :
           Service!Served(v, u) \subseteq Service!Served(v, u)' /\ Service!Served(v, u)' \subseteq 0 .. ops
      /\ arrived => proc[p].op \in Service!Served(s, t)'
  BY <1>1, <1>2, <1>4, UploadKeeps DEF ServiceInv, ServiceTypes
<1>6. proc'[p] = x
  BY <1>1 DEF ServiceInv, ServiceTypes
<1>7. exit = 0 => proc[p].op \in Service!Served(proc[p].service, Service!Target(p))'
  <2>1. proc'[p].service = s /\ Service!Target(p)' = t
    BY <1>3, <1>4, <1>6 DEF Service!Target
  <2> QED
    BY <1>1, <1>5, <2>1 DEF Service!Served
<1>8. proc[p].op \notin smoked
  BY <1>1, <1>2 DEF AtWork
<1> QED
  BY <1>1, <1>2, <1>3, <1>5, <1>7, <1>8, WorkKeeps DEF Early

LEMMA SmokeKeeps ==
  ASSUME ServiceInv, NEW p \in Procs, NEW status, Service!RunSmokeCheck(p, status) PROVE ServiceInv'
<1> DEFINE x == [proc[p] EXCEPT !.at = "record",
       !.state = IF status = "fail" /\ proc[p].cmd = "promote" THEN "failed" ELSE @]
<1>1. /\ proc[p].at = "probe" /\ proc' = [proc EXCEPT ![p] = x]
      /\ smoked' = IF status = "fail" THEN smoked \cup {proc[p].op} ELSE smoked
      /\ UNCHANGED <<registry, lock, worker, ops>>
  <2>1. p \in DOMAIN proc
    BY Working
  <2> QED
    BY <2>1 DEF Service!RunSmokeCheck
<1>2. /\ proc[p] \in Processes /\ AtWork(p) /\ proc[p].service \in Services
      /\ Service!Target(p) \in Service!Targets
  BY <1>1, Working
<1>3. /\ x \in Processes /\ x.at = "record" /\ x.cmd = proc[p].cmd /\ x.service = proc[p].service
      /\ x.op = proc[p].op /\ (x.state = "succeeded" => proc[p].state = "succeeded")
      /\ x.state = "succeeded" => ~ (status = "fail" /\ proc[p].cmd = "promote")
  BY <1>2 DEF Processes, Steps, States3
<1> HIDE DEF x
<1>4. proc'[p] = x
  BY <1>1 DEF ServiceInv, ServiceTypes
<1>5. \A v, u : Service!Served(v, u)' = Service!Served(v, u)
  BY <1>1 DEF Service!Served
<1>6. /\ worker' \in [Services -> [Service!Targets -> Seq(Nat)]]
      /\ \A v \in Services, u \in Service!Targets :
           Service!Served(v, u) \subseteq Service!Served(v, u)' /\ Service!Served(v, u)' \subseteq 0 .. ops
  BY <1>1, <1>5 DEF ServiceInv, ServiceTypes
<1>7. x.state = "succeeded" => proc[p].op \in Service!Served(proc[p].service, Service!Target(p))'
  <2>1. proc[p].state = "succeeded" => proc[p].op \in Service!Served(proc[p].service, Service!Target(p))
    BY <1>1, <1>2 DEF AtWork
  <2>2. proc'[p].service = proc[p].service /\ Service!Target(p)' = Service!Target(p)
    BY <1>3, <1>4 DEF Service!Target
  <2> QED
    BY <1>1, <1>3, <2>1, <2>2 DEF Service!Served
<1>8. x.state = "succeeded" => proc[p].cmd = "dev-deploy" \/ proc[p].op \notin smoked'
  <2>1. proc[p].cmd # "rollback" /\ proc[p].op \notin smoked /\ proc[p].cmd \in Service!Commands
    BY <1>1, <1>2 DEF AtWork
  <2> QED
    BY <1>1, <1>3, <2>1 DEF Service!Commands
<1>9. smoked' \subseteq smoked \cup IF proc[p].at = "probe" THEN {proc[p].op} ELSE {}
  BY <1>1
<1> QED
  BY <1>1, <1>3, <1>6, <1>7, <1>8, <1>9, WorkKeeps DEF Early

LEMMA RollbackKeeps ==
  ASSUME ServiceInv, NEW p \in Procs, NEW exit \in {0, 1}, Service!RunWranglerRollback(p, exit)
  PROVE  ServiceInv'
<1>1. /\ proc[p].at = "wrangler" /\ proc[p].cmd = "rollback" /\ UNCHANGED <<registry, smoked, ops>>
  BY DEF Service!RunWranglerRollback
<1>2. /\ proc[p] \in Processes /\ AtWork(p) /\ proc[p].service \in Services /\ p \in DOMAIN proc
  BY <1>1, Working
<1>3. CASE Service!Leave(p) /\ UNCHANGED worker
  <2>1. registry \in Registries /\ Sound(registry)
    BY DEF ServiceInv, ServiceTypes
  <2>2. PICK r \in Registries : r = registry
    BY <2>1
  <2>3. Sound(r)'
    BY <1>1, <1>3, <2>1, <2>2, LeaveSound DEF Service!Leave
  <2>4. Sound(registry)'
    BY <1>1, <2>2, <2>3
  <2> QED
    BY <1>1, <1>3, <2>1, <2>4, LeaveKeeps
<1>4. ASSUME Len(worker[proc[p].service]["prod"]) > 1,
             Service!Uploaded(proc[p].service, "prod", worker[proc[p].service]["prod"][Len(worker[proc[p].service]["prod"]) - 1]),
             proc' = [proc EXCEPT ![p].at = "record", ![p].state = "failed"], UNCHANGED lock
      PROVE  ServiceInv'
  <2>1. PICK live \in Seq(Nat) : live = worker[proc[p].service]["prod"]
    BY <1>2 DEF ServiceInv, ServiceTypes, Service!Targets
  <2>2. Len(live) - 1 \in DOMAIN live
    BY <1>4, <2>1
  <2>3. Service!Served(proc[p].service, "prod") = {live[i] : i \in DOMAIN live}
    BY <2>1 DEF Service!Served
  <2>4. Service!Served(proc[p].service, "prod") \subseteq 0 .. ops
    BY <1>2 DEF ServiceInv, ServiceTypes, Service!Targets
  <2>5. PICK o \in 0 .. ops : o = live[Len(live) - 1]
    BY <2>2, <2>3, <2>4
  <2>6. PICK s \in Services : s = proc[p].service
    BY <1>2
  <2>7. Service!Uploaded(s, "prod", o) /\ "prod" \in Service!Targets
    BY <1>4, <2>1, <2>5, <2>6 DEF Service!Targets
  <2>8. /\ worker' \in [Services -> [Service!Targets -> Seq(Nat)]]
        /\ \A v \in Services, u \in Service!Targets :
             Service!Served(v, u) \subseteq Service!Served(v, u)' /\ Service!Served(v, u)' \subseteq 0 .. ops
    BY <2>7, UploadKeeps
  <2> DEFINE x == [proc[p] EXCEPT !.at = "record", !.state = "failed"]
  <2>9. x \in Processes /\ x.at = "record" /\ x.state = "failed" /\ x.cmd = proc[p].cmd
        /\ x.service = proc[p].service /\ x.op = proc[p].op
    BY <1>2 DEF Processes, Steps, States3
  <2>10. proc' = [proc EXCEPT ![p] = x]
    BY <1>2, <1>4
  <2> HIDE DEF x
  <2> QED
    BY <1>1, <1>4, <2>8, <2>9, <2>10, WorkKeeps DEF Early
<1> QED
  BY <1>3, <1>4 DEF Service!RunWranglerRollback

LEMMA ReadKeeps ==
  ASSUME ServiceInv, NEW p \in Procs,
         \/ Service!ReadServicesRegistry(p, "record", "recording")
         \/ Service!ReadServicesRegistry(p, "url", "url-write")
  PROVE  ServiceInv'
<1>1. PICK next \in {"recording", "url-write"} :
        /\ proc[p].at = IF next = "recording" THEN "record" ELSE "url"
        /\ proc' = [proc EXCEPT ![p].at = next, ![p].read = <<registry>>]
        /\ UNCHANGED <<registry, lock, worker, smoked, ops>>
  BY DEF Service!ReadServicesRegistry
<1>2. /\ proc[p] \in Processes /\ AtWork(p) /\ p \in DOMAIN proc
      /\ proc[p].service \in Services /\ Service!Target(p) \in Service!Targets
  BY <1>1, Working
<1> DEFINE x == [proc[p] EXCEPT !.at = next, !.read = <<registry>>]
<1>3. /\ x \in Processes /\ x.at = next /\ x.state = proc[p].state /\ x.cmd = proc[p].cmd
      /\ x.service = proc[p].service /\ x.op = proc[p].op /\ x.read[1] = registry
  <2>1. registry \in Registries /\ Sound(registry)
    BY DEF ServiceInv, ServiceTypes
  <2>2. <<registry>> \in Seq(Registries)
    <3> HIDE DEF Registries
    <3> QED BY <2>1
  <2> HIDE DEF Registries
  <2> QED
    BY <1>2, <2>1, <2>2 DEF Processes, Steps
<1>4. proc' = [proc EXCEPT ![p] = x]
  BY <1>1, <1>2
<1> HIDE DEF x
<1>5. \A v, u : Service!Served(v, u)' = Service!Served(v, u)
  BY <1>1 DEF Service!Served
<1>6. /\ worker' \in [Services -> [Service!Targets -> Seq(Nat)]]
      /\ \A v \in Services, u \in Service!Targets :
           Service!Served(v, u) \subseteq Service!Served(v, u)' /\ Service!Served(v, u)' \subseteq 0 .. ops
  BY <1>1, <1>5 DEF ServiceInv, ServiceTypes
<1>7. next = "recording" /\ x.state = "succeeded" =>
        /\ proc[p].op \in Service!Served(proc[p].service, Service!Target(p))'
        /\ proc[p].cmd = "dev-deploy" \/ proc[p].op \notin smoked'
  <2>1. proc'[p] = x
    BY <1>2, <1>4
  <2>2. next = "recording" /\ proc[p].state = "succeeded" =>
          /\ proc[p].op \in Service!Served(proc[p].service, Service!Target(p))
          /\ proc[p].cmd = "dev-deploy" \/ proc[p].op \notin smoked
    BY <1>1, <1>2 DEF AtWork
  <2>3. proc'[p].service = proc[p].service /\ Service!Target(p)' = Service!Target(p)
    BY <1>3, <2>1 DEF Service!Target
  <2> QED
    BY <1>1, <1>3, <2>2, <2>3 DEF Service!Served
<1>8. registry \in Registries /\ Sound(registry)
  BY DEF ServiceInv, ServiceTypes
<1> QED
  BY <1>1, <1>3, <1>4, <1>6, <1>7, <1>8, WorkKeeps DEF Early

LEMMA RecordKeeps ==
  ASSUME ServiceInv, NEW p \in Procs, Service!RecordDevDeployState(p) \/ Service!RecordProdDeployState(p)
  PROVE  ServiceInv'
<1>1. /\ proc[p].at = "recording" /\ UNCHANGED <<worker, smoked, ops>>
      /\ registry' = [proc[p].read[1] EXCEPT ![proc[p].service][Service!Target(p)] =
                        [op |-> proc[p].op, state |-> proc[p].state]]
      /\ \/ UNCHANGED lock /\ proc' = [proc EXCEPT ![p].at = "url", ![p].read = <<>>]
         \/ Service!Leave(p)
  BY DEF Service!RecordDevDeployState, Service!RecordProdDeployState, Service!RecordDeployState
<1>2. /\ proc[p] \in Processes /\ AtWork(p) /\ p \in DOMAIN proc /\ ops \in Nat
      /\ proc[p].service \in Services /\ Service!Target(p) \in Service!Targets
      /\ proc[p].op \in 1 .. ops
  BY <1>1, Working
<1>3. PICK s \in Services, t \in Service!Targets : s = proc[p].service /\ t = Service!Target(p)
  BY <1>2
<1>4. PICK o \in Nat, st \in States3 : o = proc[p].op /\ st = proc[p].state
  BY <1>2 DEF Processes
<1>5. PICK r \in Registries : r = proc[p].read[1] /\ Sound(r)
  BY <1>1, <1>2 DEF AtWork
<1> DEFINE entry == [op |-> o, state |-> st]
<1>6. entry \in DeployRecords /\ entry.op = o /\ entry.state = st
  BY DEF DeployRecords
<1> HIDE DEF entry
<1>7. registry' = [r EXCEPT ![s][t] = entry]
  BY <1>1, <1>3, <1>4, <1>5 DEF entry
<1>8. /\ registry' \in Registries /\ registry'[s][t] = entry
      /\ \A v \in Services, u \in Service!Targets : v # s \/ u # t => registry'[v][u] = r[v][u]
  BY <1>6, <1>7 DEF Registries, Service!Targets
<1>9. /\ proc'[p].at \in {"url", "idle"} /\ \A q \in Procs : q # p => proc'[q] = proc[q]
  <2>1. CASE Service!Leave(p)
    <3>1. proc' = [proc EXCEPT ![p] = Service!Idle]
      BY <2>1 DEF Service!Leave
    <3>2. Service!Idle.at = "idle"
      BY DEF Service!Idle
    <3> QED
      BY <1>2, <3>1, <3>2
  <2>2. CASE proc' = [proc EXCEPT ![p].at = "url", ![p].read = <<>>]
    <3>1. PICK x \in Processes : x = proc[p]
      BY <1>2
    <3>2. PICK y : y = [x EXCEPT !.at = "url", !.read = <<>>]
      OBVIOUS
    <3>3. y.at = "url"
      BY <3>2 DEF Processes
    <3>4. proc' = [proc EXCEPT ![p] = y]
      BY <1>2, <2>2, <3>1, <3>2
    <3> QED
      BY <1>2, <3>3, <3>4
  <2> QED
    BY <1>1, <2>1, <2>2
<1>10. \A v, u : Service!Served(v, u)' = Service!Served(v, u)
  BY <1>1 DEF Service!Served
<1>11. Gentle(p)
  BY <1>1, <1>2, <1>9, <1>10 DEF Gentle, Early
<1>12. Sound(r)'
  BY <1>1, <1>2, <1>5, <1>11, SoundKeeps
<1>13. /\ o <= ops /\ \A q \in Procs : proc'[q].at \in Early => proc'[q].op # o
       /\ st = "succeeded" => o \in Service!Served(s, t) /\ (t = "prod" => o \notin smoked)
  <2>1. \A q \in Procs : proc'[q].at \in Early => q # p /\ proc[q].at # "idle"
    BY <1>9 DEF Early
  <2>2. \A q \in Procs : proc'[q].at \in Early => proc'[q].op # o
    BY <1>1, <1>4, <1>9, <2>1 DEF ServiceInv
  <2>3. st = "succeeded" => o \in Service!Served(s, t) /\ (proc[p].cmd = "dev-deploy" \/ o \notin smoked)
    BY <1>1, <1>2, <1>3, <1>4 DEF AtWork
  <2>4. t = "prod" => proc[p].cmd # "dev-deploy"
    BY <1>3 DEF Service!Target
  <2> QED
    BY <1>2, <1>4, <2>2, <2>3, <2>4
<1>14. Sound(registry)'
  <2>1. ASSUME NEW v \in Services, NEW u \in Service!Targets
        PROVE  /\ registry'[v][u].op <= ops'
               /\ registry'[v][u].state = "succeeded" =>
                    registry'[v][u].op \in Service!Served(v, u)' /\ (u = "prod" => registry'[v][u].op \notin smoked')
               /\ \A q \in Procs : proc'[q].at \in Early => proc'[q].op # registry'[v][u].op
    <3>1. CASE v = s /\ u = t
      <4>1. registry'[v][u] = entry /\ entry.op = o /\ entry.state = st
        BY <1>6, <1>8, <3>1
      <4>2. o <= ops' /\ \A q \in Procs : proc'[q].at \in Early => proc'[q].op # o
        BY <1>1, <1>13
      <4>3. st = "succeeded" => o \in Service!Served(v, u)' /\ (u = "prod" => o \notin smoked')
        BY <1>1, <1>10, <1>13, <3>1
      <4> QED
        BY <4>1, <4>2, <4>3
    <3>2. CASE v # s \/ u # t
      <4>1. registry'[v][u] = r[v][u]
        BY <1>8, <3>2
      <4> QED
        BY <1>12, <4>1 DEF Sound
    <3> QED
      BY <3>1, <3>2
  <2> QED
    BY <2>1 DEF Sound
<1>15. CASE Service!Leave(p)
  BY <1>1, <1>8, <1>14, <1>15, LeaveKeeps
<1>16. CASE UNCHANGED lock /\ proc' = [proc EXCEPT ![p].at = "url", ![p].read = <<>>]
  <2> DEFINE x == [proc[p] EXCEPT !.at = "url", !.read = <<>>]
  <2>1. /\ x \in Processes /\ x.at = "url" /\ x.service = proc[p].service /\ x.op = proc[p].op
        /\ x.cmd = proc[p].cmd
    <3>1. <<>> \in Seq(Registries)
      OBVIOUS
    <3> HIDE DEF Registries
    <3> QED
      BY <1>2, <3>1 DEF Processes, Steps
  <2>2. proc' = [proc EXCEPT ![p] = x]
    BY <1>2, <1>16
  <2> HIDE DEF x
  <2>3. proc'[p] = x /\ proc' \in [Procs -> Processes]
    BY <2>1, <2>2 DEF ServiceInv, ServiceTypes
  <2>4. ServiceTypes'
    BY <1>1, <1>8, <1>10, <1>16, <2>3 DEF ServiceInv, ServiceTypes
  <2>5. AtWork(p)'
    BY <1>1, <1>2, <1>16, <2>1, <2>3 DEF AtWork
  <2> QED
    BY <1>1, <1>11, <1>14, <1>16, <2>1, <2>3, <2>4, <2>5, ProcessKeeps
<1> QED
  BY <1>1, <1>15, <1>16

LEMMA UrlKeeps == ASSUME ServiceInv, NEW p \in Procs, Service!UpdateWorkersDevUrl(p) PROVE ServiceInv'
<1>1. /\ proc[p].at = "url-write" /\ Service!Leave(p) /\ UNCHANGED <<worker, smoked, ops>>
      /\ registry' = [proc[p].read[1] EXCEPT ![proc[p].service].url = proc[p].url]
  BY DEF Service!UpdateWorkersDevUrl
<1>2. AtWork(p) /\ proc[p].service \in Services /\ proc[p] \in Processes
  BY <1>1, Working
<1>3. PICK r \in Registries : r = proc[p].read[1] /\ Sound(r)
  BY <1>1, <1>2 DEF AtWork
<1>4. PICK s \in Services, n \in Nat : s = proc[p].service /\ n = proc[p].url
  BY <1>2 DEF Processes
<1>5. registry' = [r EXCEPT ![s].url = n]
  BY <1>1, <1>3, <1>4
<1>6. /\ registry' \in Registries
      /\ \A v \in Services, u \in Service!Targets : registry'[v][u] = r[v][u]
  BY <1>5 DEF Registries, Service!Targets
<1>7. Sound(r)'
  BY <1>1, <1>3, LeaveSound DEF Service!Leave
<1>8. Sound(registry)'
  BY <1>6, <1>7 DEF Sound
<1> QED
  BY <1>1, <1>6, <1>8, LeaveKeeps

LEMMA CrashKeeps == ASSUME ServiceInv, NEW p \in Procs, Service!Crash(p) PROVE ServiceInv'
<1>1. /\ proc[p].at # "idle" /\ proc' = [proc EXCEPT ![p] = Service!Idle]
      /\ lock' = [lock EXCEPT ![proc[p].service] = IF @.by = p THEN [@ EXCEPT !.alive = FALSE] ELSE @]
      /\ UNCHANGED <<registry, worker, smoked, ops>>
  BY DEF Service!Crash
<1>2. /\ proc'[p].at = "idle" /\ \A q \in Procs : q # p => proc'[q] = proc[q]
      /\ proc' \in [Procs -> Processes]
  BY <1>1, IdleTyped DEF ServiceInv, ServiceTypes
<1>3. \A s, t : Service!Served(s, t)' = Service!Served(s, t)
  BY <1>1 DEF Service!Served
<1>4. PICK s \in Services : s = proc[p].service
  BY <1>1, Working
<1>5. /\ lock' \in [Services -> [by : Procs \cup {"free"}, alive : BOOLEAN]]
      /\ \A v \in Services : v # s => lock'[v] = lock[v]
  BY <1>1, <1>4 DEF ServiceInv, ServiceTypes
<1>6. ServiceTypes'
  BY <1>1, <1>2, <1>3, <1>5 DEF ServiceInv, ServiceTypes
<1>7. Gentle(p)
  BY <1>1, <1>2, <1>3 DEF Gentle, Early, ServiceInv, ServiceTypes
<1>8. Sound(registry)'
  <2>1. PICK r \in Registries : r = registry /\ Sound(r)
    BY DEF ServiceInv, ServiceTypes
  <2>2. Sound(r)'
    BY <1>1, <2>1, LeaveSound
  <2> QED
    BY <1>1, <2>1, <2>2
<1>9. AtWork(p)'
  BY <1>2 DEF AtWork
<1>10. \A q \in Procs : q # p /\ proc[q].at # "idle" => lock'[proc[q].service] = lock[proc[q].service]
  BY <1>1, <1>4, <1>5, ServicesDiffer, Working
<1> QED
  BY <1>2, <1>6, <1>7, <1>8, <1>9, <1>10, ProcessKeeps

LEMMA RecoverKeeps == ASSUME ServiceInv, NEW s \in Services, Service!RecoverLock(s) PROVE ServiceInv'
<1>1. /\ ~ lock[s].alive /\ lock' = [lock EXCEPT ![s] = Service!Free]
      /\ UNCHANGED <<registry, worker, proc, smoked, ops>>
  BY DEF Service!RecoverLock
<1>2. \A v, u : Service!Served(v, u)' = Service!Served(v, u)
  BY <1>1 DEF Service!Served
<1>3. /\ lock' \in [Services -> [by : Procs \cup {"free"}, alive : BOOLEAN]]
      /\ \A v \in Services : v # s => lock'[v] = lock[v]
  BY <1>1 DEF ServiceInv, ServiceTypes, Service!Free
<1>4. ServiceTypes'
  BY <1>1, <1>2, <1>3 DEF ServiceInv, ServiceTypes
<1>5. \A r : Sound(r) => Sound(r)'
  BY <1>1, <1>2 DEF Sound
<1>6. ASSUME NEW q \in Procs PROVE AtWork(q)'
  <2>1. CASE proc[q].at # "idle"
    <3>1. AtWork(q) /\ proc[q].service \in Services
      BY <2>1, Working
    <3>2. proc[q].service # s
      BY <1>1, <2>1, <3>1 DEF AtWork
    <3>3. lock'[proc[q].service] = lock[proc[q].service]
      BY <1>3, <3>1, <3>2
    <3>4. Service!Target(q)' = Service!Target(q)
      BY <1>1 DEF Service!Target
    <3>5. Service!Served(proc[q].service, Service!Target(q))' = Service!Served(proc[q].service, Service!Target(q))
      BY <1>1, <3>4 DEF Service!Served
    <3>6. proc[q].at \in {"recording", "url-write"} => Sound(proc[q].read[1])'
      <4>1. PICK r : r = proc[q].read[1]
        OBVIOUS
      <4>2. proc[q].at \in {"recording", "url-write"} => Sound(r)'
        BY <1>5, <2>1, <3>1, <4>1 DEF AtWork
      <4>3. proc'[q].read[1] = r
        BY <1>1, <4>1
      <4> QED
        BY <4>2, <4>3 DEF Sound
    <3> QED
      BY <1>1, <2>1, <3>1, <3>3, <3>5, <3>6 DEF AtWork
  <2>2. CASE proc[q].at = "idle"
    BY <1>1, <2>2 DEF AtWork
  <2> QED
    BY <2>1, <2>2
<1>7. Sound(registry)'
  <2>1. PICK r : r = registry /\ Sound(r)
    BY DEF ServiceInv
  <2> QED
    BY <1>1, <1>5, <2>1
<1> QED
  BY <1>1, <1>4, <1>6, <1>7 DEF ServiceInv

LEMMA ServiceStep == ASSUME ServiceInv, Service!Next PROVE ServiceInv'
<1>1. ASSUME NEW p \in Procs, NEW s \in Services,
             \/ Service!StartServiceDevDeploy(p, s) \/ Service!StartServicePromote(p, s)
             \/ Service!StartServiceRollback(p, s)
      PROVE  ServiceInv'
  BY <1>1, StartKeeps DEF Service!StartServiceDevDeploy, Service!StartServicePromote,
     Service!StartServiceRollback, Service!Commands
<1>2. ASSUME NEW p \in Procs, NEW b \in BOOLEAN, NEW c \in BOOLEAN,
             Service!DevDeployGates(p, b) \/ Service!PromoteGates(p, b) \/ Service!RunTestEvidenceGate(p, b, c)
      PROVE  ServiceInv'
  <2>1. CASE Service!DevDeployGates(p, b)
    BY <2>1, GatesKeep DEF Service!DevDeployGates, Service!RunPreDeployGates
  <2>2. CASE Service!PromoteGates(p, b)
    BY <2>2, GatesKeep DEF Service!PromoteGates, Service!RunPreDeployGates
  <2>3. CASE Service!RunTestEvidenceGate(p, b, c)
    <3>1. PICK pass : pass = (Service!ValidateSubdomains(b) /\ c)
      OBVIOUS
    <3>2. /\ proc[p].at = "evidence" /\ UNCHANGED <<registry, worker, smoked, ops>>
          /\ IF pass THEN Service!Goto(p, "wrangler") /\ UNCHANGED lock ELSE Service!Leave(p)
      BY <2>3, <3>1 DEF Service!RunTestEvidenceGate
    <3> QED
      BY <3>2, GatesKeep
  <2> QED
    BY <1>2, <2>1, <2>2, <2>3
<1> QED
  BY <1>1, <1>2, WranglerKeeps, SmokeKeeps, RollbackKeeps, ReadKeeps, RecordKeeps, UrlKeeps, CrashKeeps,
     RecoverKeeps DEF Service!Next

LEMMA ServiceSafe == ASSUME ServiceInv PROVE Service!TypeOK /\ Service!RegistryIsTruthful
<1>1. Sound(registry) /\ ServiceTypes
  BY DEF ServiceInv
<1>2. ASSUME NEW s \in Services, NEW t \in Service!Targets
      PROVE  /\ registry[s][t].op \in 0 .. ops /\ registry[s][t].state \in States3
             /\ \A i \in DOMAIN worker[s][t] : worker[s][t][i] \in 0 .. ops
  <2>1. registry[s][t] \in DeployRecords
    BY <1>1 DEF ServiceTypes, Registries, Service!Targets
  <2>2. registry[s][t].op <= ops /\ ops \in Nat
    BY <1>1 DEF Sound, ServiceTypes
  <2>3. Service!Served(s, t) \subseteq 0 .. ops
    BY <1>1 DEF ServiceTypes
  <2> QED
    BY <2>1, <2>2, <2>3 DEF DeployRecords, Service!Served
<1>3. Service!TypeOK
  BY <1>1, <1>2 DEF Service!TypeOK, ServiceTypes, States3
<1>4. \A s \in Services, t \in Service!Targets :
        registry[s][t].state = "succeeded" =>
          /\ registry[s][t].op \in Service!Served(s, t)
          /\ t = "prod" => registry[s][t].op \notin smoked
  BY <1>1 DEF Sound
<1> QED
  BY <1>3, <1>4, ServicesDiffer DEF Service!RegistryIsTruthful

-----------------------------------------------------------------------------
(* The gate.  An envelope is admitted under a number above every earlier cut,*)
(* so what an earlier decision saw does not change; that of several envelopes*)
(* one is the newest is carried along as the sequence grows.                *)

Subjects == {r.requirements : r \in Results}
Envelopes == [candidate : Releases, appliesTo : Subjects, failed : BOOLEAN,
              staleAfter : Nat, sequence : Nat]
Verdicts == {"pass", "fail", "stale", "incomplete"}

Admitted == {i \in DOMAIN decisionEvidence : decisionEvidence[i].sequence > 0}
Seen(cut) == Gate!BuildEvidenceIndex(Gate!Ours, cut)
About(q, cut) == {i \in Seen(cut) : q \in decisionEvidence[i].appliesTo}
Newest(i, q, cut) ==
  /\ i \in About(q, cut)
  /\ \A j \in About(q, cut) : decisionEvidence[j].sequence <= decisionEvidence[i].sequence

GateTypes ==
  /\ now \in 0 .. MaxTime
  /\ decisionEvidence \in Seq(Envelopes) /\ Len(decisionEvidence) <= MaxEvidence
  /\ admitted \in Nat /\ admitted = Cardinality(Admitted)

AdmittedInTurn ==
  /\ \A i \in DOMAIN decisionEvidence : decisionEvidence[i].sequence <= admitted
  /\ \A i, j \in Admitted : i # j => decisionEvidence[i].sequence # decisionEvidence[j].sequence

OneIsNewest == \A q : \A cut \in Nat : About(q, cut) = {} \/ \E i : Newest(i, q, cut)

DecisionIsEvaluated ==
  decision # Gate!NoDecision =>
    /\ decision.cut \in 0 .. admitted /\ decision.at \in Nat
    /\ decision = Gate!Evaluate(decision.cut, decision.at)

GateInv == GateTypes /\ AdmittedInTurn /\ OneIsNewest /\ DecisionIsEvaluated

(* The worst status counts: a pass only where nothing is worse.             *)
LEMMA AggregateIs ==
  ASSUME NEW S
  PROVE  /\ Gate!AggregateStatus(S) \in Verdicts
         /\ Gate!AggregateStatus(S) = "pass" => S \cap {"fail", "stale", "incomplete"} = {}
<1>1. CASE S = {}
  BY <1>1 DEF Gate!AggregateStatus, Verdicts
<1>2. CASE S # {}
  <2>1. PICK P : P = {k \in 1 .. 4 : Gate!Precedence[k] \in S \cup {"pass"}}
    OBVIOUS
  <2>2. /\ DOMAIN Gate!Precedence = 1 .. 4
        /\ Gate!Precedence[1] = "fail" /\ Gate!Precedence[2] = "stale"
        /\ Gate!Precedence[3] = "incomplete" /\ Gate!Precedence[4] = "pass"
    BY DEF Gate!Precedence
  <2>3. Gate!AggregateStatus(S) = Gate!Precedence[Gate!Min(P)]
    BY <1>2, <2>1, <2>2 DEF Gate!AggregateStatus
  <2>4. 4 \in P /\ P \subseteq 1 .. 4
    BY <2>1, <2>2
  <2>5. \E x \in P : \A y \in P : x <= y
    <3>1. CASE 1 \in P
      BY <2>4, <3>1
    <3>2. CASE 1 \notin P /\ 2 \in P
      BY <2>4, <3>2
    <3>3. CASE 1 \notin P /\ 2 \notin P /\ 3 \in P
      BY <2>4, <3>3
    <3>4. CASE 1 \notin P /\ 2 \notin P /\ 3 \notin P
      BY <2>4, <3>4
    <3> QED
      BY <3>1, <3>2, <3>3, <3>4
  <2>6. PICK m : m = Gate!Min(P)
    OBVIOUS
  <2>7. m \in P /\ \A y \in P : m <= y
    BY <2>5, <2>6 DEF Gate!Min
  <2>8. m = 1 \/ m = 2 \/ m = 3 \/ m = 4
    BY <2>4, <2>7
  <2>9. Gate!AggregateStatus(S) \in Verdicts
    BY <2>2, <2>3, <2>6, <2>8 DEF Verdicts
  <2>10. ASSUME Gate!AggregateStatus(S) = "pass" PROVE S \cap {"fail", "stale", "incomplete"} = {}
    <3>1. m = 4
      BY <2>2, <2>3, <2>6, <2>8, <2>10
    <3>2. 1 \notin P /\ 2 \notin P /\ 3 \notin P
      BY <2>7, <3>1
    <3>3. "fail" \notin S /\ "stale" \notin S /\ "incomplete" \notin S
      BY <2>1, <2>2, <3>2
    <3> QED
      BY <3>3
  <2> QED
    BY <2>9, <2>10
<1> QED
  BY <1>1, <1>2

(* What is judged: the newest envelope, which is the only one.              *)
LEMMA JudgeNone ==
  ASSUME NEW q, NEW cut, NEW t, About(q, cut) = {}
  PROVE  Gate!Judge(q, Seen(cut), t) = IF q \in Mandatory THEN "incomplete" ELSE "not-applicable"
BY DEF Gate!Judge, About

LEMMA EvidenceTyped ==
  ASSUME GateTypes
  PROVE  \A i \in DOMAIN decisionEvidence :
           decisionEvidence[i] \in Envelopes /\ decisionEvidence[i].sequence \in Nat
<1>1. \A i \in DOMAIN decisionEvidence : decisionEvidence[i] \in Envelopes
  BY DEF GateTypes
<1> QED
  BY <1>1 DEF Envelopes

LEMMA SeenAdmitted ==
  ASSUME GateTypes, NEW cut \in Nat
  PROVE  /\ Seen(cut) \subseteq Admitted
         /\ \A i \in Admitted : i \in DOMAIN decisionEvidence /\ decisionEvidence[i].sequence \in Nat
BY EvidenceTyped DEF Seen, Admitted, Gate!BuildEvidenceIndex

LEMMA NewestIsChosen ==
  ASSUME NEW ev, NEW A, NEW i \in A, \A j \in A : ev[j].sequence <= ev[i].sequence,
         \A j \in A : ev[j].sequence \in Nat,
         \A j, k \in A : j # k => ev[j].sequence # ev[k].sequence
  PROVE  (CHOOSE k \in A : \A j \in A : ev[j].sequence <= ev[k].sequence) = i
<1>1. PICK b : b = CHOOSE k \in A : \A j \in A : ev[j].sequence <= ev[k].sequence
  OBVIOUS
<1>2. b \in A /\ \A j \in A : ev[j].sequence <= ev[b].sequence
  BY <1>1
<1>3. ev[b].sequence = ev[i].sequence
  BY <1>2
<1> QED
  BY <1>1, <1>2, <1>3

LEMMA JudgeNewest ==
  ASSUME GateTypes, AdmittedInTurn, NEW q, NEW cut \in Nat, NEW t, NEW i, Newest(i, q, cut)
  PROVE  Gate!Judge(q, Seen(cut), t) =
           IF decisionEvidence[i].failed THEN "fail"
           ELSE IF decisionEvidence[i].staleAfter < t THEN "stale" ELSE "pass"
<1>1. PICK A : A = About(q, cut)
  OBVIOUS
<1>2. A = {k \in Seen(cut) : q \in decisionEvidence[k].appliesTo} /\ i \in A
  BY <1>1 DEF About, Newest
<1>3. PICK b : b = CHOOSE k \in A : \A j \in A : decisionEvidence[j].sequence <= decisionEvidence[k].sequence
  OBVIOUS
<1>4. b = i
  BY <1>1, <1>2, <1>3, SeenAdmitted, NewestIsChosen DEF Newest, AdmittedInTurn
<1>5. Gate!Judge(q, Seen(cut), t) =
        IF decisionEvidence[b].failed THEN "fail"
        ELSE IF decisionEvidence[b].staleAfter < t THEN "stale" ELSE "pass"
  BY <1>2, <1>3 DEF Gate!Judge
<1> QED
  BY <1>4, <1>5

LEMMA GateInit == Gate!Init => GateInv
<1> SUFFICES ASSUME Gate!Init PROVE GateInv
  OBVIOUS
<1>1. /\ now = 0 /\ decisionEvidence = <<>> /\ admitted = 0 /\ decision = Gate!NoDecision
  BY DEF Gate!Init
<1>2. Admitted = {} /\ \A q, cut : About(q, cut) = {}
  BY <1>1 DEF Admitted, About, Seen, Gate!BuildEvidenceIndex
<1>3. GateTypes
  BY <1>1, <1>2, Bounds, FS_EmptySet DEF GateTypes
<1>4. AdmittedInTurn /\ OneIsNewest /\ DecisionIsEvaluated
  BY <1>1, <1>2 DEF AdmittedInTurn, OneIsNewest, DecisionIsEvaluated
<1> QED
  BY <1>3, <1>4 DEF GateInv

(* While what was seen at the earlier cuts stays as it was, so do the       *)
(* verdicts on it.                                                          *)
LEMMA JudgeStays ==
  ASSUME GateInv, NEW cut \in Nat, Seen(cut)' = Seen(cut),
         \A i \in Seen(cut) : decisionEvidence'[i] = decisionEvidence[i],
         NEW t, NEW q
  PROVE  Gate!Judge(q, Seen(cut), t)' = Gate!Judge(q, Seen(cut), t)
<1>1. About(q, cut)' = About(q, cut)
  BY DEF About
<1>2. CASE About(q, cut) = {}
  <2>1. Gate!Judge(q, Seen(cut), t)' = IF q \in Mandatory THEN "incomplete" ELSE "not-applicable"
    BY <1>1, <1>2 DEF Gate!Judge, About
  <2> QED
    BY <1>2, <2>1, JudgeNone
<1>3. CASE About(q, cut) # {}
  <2>1. PICK i : Newest(i, q, cut)
    BY <1>3 DEF GateInv, OneIsNewest
  <2>2. i \in Seen(cut) /\ \A j \in About(q, cut) : j \in Seen(cut)
    BY <2>1 DEF Newest, About
  <2>3. Newest(i, q, cut)'
    BY <1>1, <2>1, <2>2 DEF Newest
  <2>4. Gate!Judge(q, Seen(cut), t)' =
          IF decisionEvidence'[i].failed THEN "fail"
          ELSE IF decisionEvidence'[i].staleAfter < t THEN "stale" ELSE "pass"
    <3>1. PICK A : A = About(q, cut)'
      OBVIOUS
    <3>2. A = {k \in Seen(cut)' : q \in decisionEvidence'[k].appliesTo} /\ i \in A
      BY <2>3, <3>1 DEF About, Newest
    <3>3. PICK b : b = CHOOSE k \in A : \A j \in A : decisionEvidence'[j].sequence <= decisionEvidence'[k].sequence
      OBVIOUS
    <3>4. \A j \in A : j \in Admitted /\ decisionEvidence'[j] = decisionEvidence[j]
      BY <1>1, <2>2, <3>1, SeenAdmitted DEF GateInv
    <3>5. /\ \A j \in A : decisionEvidence'[j].sequence <= decisionEvidence'[i].sequence
          /\ \A j \in A : decisionEvidence'[j].sequence \in Nat
          /\ \A j, k \in A : j # k => decisionEvidence'[j].sequence # decisionEvidence'[k].sequence
      BY <2>3, <3>1, <3>4, SeenAdmitted DEF GateInv, AdmittedInTurn, Newest
    <3>6. b = i
      BY <3>2, <3>3, <3>5, NewestIsChosen
    <3>7. Gate!Judge(q, Seen(cut), t)' =
            IF decisionEvidence'[b].failed THEN "fail"
            ELSE IF decisionEvidence'[b].staleAfter < t THEN "stale" ELSE "pass"
      BY <3>2, <3>3 DEF Gate!Judge
    <3> QED
      BY <3>6, <3>7
  <2>5. Gate!Judge(q, Seen(cut), t) =
          IF decisionEvidence[i].failed THEN "fail"
          ELSE IF decisionEvidence[i].staleAfter < t THEN "stale" ELSE "pass"
    BY <2>1, JudgeNewest DEF GateInv
  <2> QED
    BY <2>2, <2>4, <2>5
<1> QED
  BY <1>2, <1>3

LEMMA EvaluateStays ==
  ASSUME GateInv, NEW cut \in Nat, NEW t, Seen(cut)' = Seen(cut),
         \A i \in Seen(cut) : decisionEvidence'[i] = decisionEvidence[i]
  PROVE  Gate!Evaluate(cut, t)' = Gate!Evaluate(cut, t)
<1>1. \A q : Gate!Judge(q, Seen(cut), t)' = Gate!Judge(q, Seen(cut), t)
  BY JudgeStays
<1> QED
  BY <1>1 DEF Gate!Evaluate, Seen

LEMMA DecisionStays ==
  ASSUME GateInv, decision' = decision, admitted' \in Nat, admitted <= admitted',
         \A cut \in 0 .. admitted : /\ Seen(cut)' = Seen(cut)
                                    /\ \A i \in Seen(cut) : decisionEvidence'[i] = decisionEvidence[i]
  PROVE  DecisionIsEvaluated'
<1> SUFFICES ASSUME decision # Gate!NoDecision
             PROVE  /\ decision.cut \in 0 .. admitted' /\ decision.at \in Nat
                    /\ decision = Gate!Evaluate(decision.cut, decision.at)'
  BY DEF DecisionIsEvaluated
<1>1. PICK cut, t : cut = decision.cut /\ t = decision.at
  OBVIOUS
<1>2. cut \in 0 .. admitted /\ t \in Nat /\ decision = Gate!Evaluate(cut, t) /\ admitted \in Nat
  BY <1>1 DEF GateInv, DecisionIsEvaluated, GateTypes
<1>3. Gate!Evaluate(cut, t)' = Gate!Evaluate(cut, t)
  BY <1>2, EvaluateStays
<1>4. decision = Gate!Evaluate(decision.cut, decision.at)'
  BY <1>1, <1>2, <1>3
<1> QED
  BY <1>1, <1>2, <1>4

(* A new envelope is not admitted yet: nothing looks at it.                 *)
LEMMA ProducerKeeps ==
  ASSUME GateInv, NEW c \in Releases, NEW r \in Results, NEW w \in 0 .. 1, Gate!ExecuteProducer(c, r, w)
  PROVE  GateInv'
<1>1. PICK e : e = Gate!Envelope(c, r, w)
  OBVIOUS
<1>2. /\ decisionEvidence' = Append(decisionEvidence, e)
      /\ Len(decisionEvidence) < MaxEvidence
      /\ now' = now /\ admitted' = admitted /\ decision' = decision
  BY <1>1 DEF Gate!ExecuteProducer
<1>3. e \in Envelopes /\ e.sequence = 0
  <2>1. now + w \in Nat
    BY Bounds DEF GateInv, GateTypes
  <2> QED
    BY <1>1, <2>1 DEF Gate!Envelope, Envelopes, Subjects
<1>4. decisionEvidence \in Seq(Envelopes) /\ admitted \in Nat /\ MaxEvidence \in Nat
  BY Bounds DEF GateInv, GateTypes
<1>5. PICK n \in Nat : n = Len(decisionEvidence)
  BY <1>4
<1> HIDE DEF Envelopes
<1>6. /\ decisionEvidence' \in Seq(Envelopes) /\ Len(decisionEvidence') = n + 1
      /\ DOMAIN decisionEvidence = 1 .. n /\ DOMAIN decisionEvidence' = 1 .. n + 1
      /\ \A i \in 1 .. n : decisionEvidence'[i] = decisionEvidence[i]
      /\ decisionEvidence'[n + 1] = e
  BY <1>2, <1>3, <1>4, <1>5
<1>7. \A i \in 1 .. n + 1 : i \in 1 .. n \/ i = n + 1
  OBVIOUS
<1>8. Admitted' = Admitted
  BY <1>3, <1>6, <1>7 DEF Admitted
<1>9. \A cut \in Nat : /\ Seen(cut)' = Seen(cut)
                       /\ \A i \in Seen(cut) : decisionEvidence'[i] = decisionEvidence[i]
  BY <1>3, <1>6, <1>7 DEF Seen, Gate!BuildEvidenceIndex
<1>10. GateTypes'
  BY <1>2, <1>4, <1>5, <1>6, <1>8 DEF GateInv, GateTypes
<1>11. AdmittedInTurn'
  <2>1. \A i \in Admitted : i \in 1 .. n
    BY <1>6 DEF Admitted
  <2>2. \A i \in DOMAIN decisionEvidence' : decisionEvidence'[i].sequence <= admitted
    BY <1>3, <1>4, <1>6, <1>7 DEF GateInv, AdmittedInTurn
  <2> QED
    BY <1>2, <1>6, <1>8, <2>1, <2>2 DEF GateInv, AdmittedInTurn
<1>12. OneIsNewest'
  <2>1. ASSUME NEW q, NEW cut \in Nat
        PROVE  /\ About(q, cut)' = About(q, cut)
               /\ \A i : Newest(i, q, cut) => Newest(i, q, cut)'
    <3>1. About(q, cut)' = About(q, cut)
      BY <1>9 DEF About
    <3>2. About(q, cut) \subseteq Seen(cut)
      BY DEF About
    <3> QED
      BY <1>9, <3>1, <3>2 DEF Newest
  <2> QED
    BY <2>1 DEF GateInv, OneIsNewest
<1>13. DecisionIsEvaluated'
  <2>1. admitted' \in Nat /\ admitted <= admitted' /\ \A cut \in 0 .. admitted : cut \in Nat
    BY <1>2, <1>4
  <2> QED
    BY <1>2, <1>9, <2>1, DecisionStays
<1> QED
  BY <1>10, <1>11, <1>12, <1>13 DEF GateInv

(* The admitted envelope is the newest wherever it is seen, and no earlier  *)
(* cut sees it.                                                             *)
LEMMA AdmitKeeps ==
  ASSUME GateInv, NEW a \in DOMAIN decisionEvidence, Gate!Admit(a)
  PROVE  GateInv'
<1>1. /\ decisionEvidence[a].sequence = 0 /\ admitted' = admitted + 1
      /\ decisionEvidence' = [decisionEvidence EXCEPT ![a].sequence = admitted + 1]
      /\ now' = now /\ decision' = decision
  BY DEF Gate!Admit
<1>2. /\ decisionEvidence \in Seq(Envelopes) /\ admitted \in Nat /\ MaxEvidence \in Nat
      /\ admitted = Cardinality(Admitted) /\ Len(decisionEvidence) <= MaxEvidence
  BY Bounds DEF GateInv, GateTypes
<1>3. PICK x \in Envelopes : x = decisionEvidence[a]
  BY <1>2
<1>4. PICK y : y = [x EXCEPT !.sequence = admitted + 1]
  OBVIOUS
<1>5. y \in Envelopes /\ y.sequence = admitted + 1 /\ y.candidate = x.candidate /\ y.appliesTo = x.appliesTo
  <2>1. PICK k \in Nat : k = admitted + 1
    BY <1>2
  <2>2. /\ DOMAIN x = {"candidate", "appliesTo", "failed", "staleAfter", "sequence"}
        /\ x.candidate \in Releases /\ x.appliesTo \in Subjects /\ x.failed \in BOOLEAN
        /\ x.staleAfter \in Nat
    BY <1>3 DEF Envelopes
  <2>3. y = [candidate |-> x.candidate, appliesTo |-> x.appliesTo, failed |-> x.failed,
             staleAfter |-> x.staleAfter, sequence |-> k]
    BY <1>3, <1>4, <2>1 DEF Envelopes
  <2>4. y.sequence = k /\ y.candidate = x.candidate /\ y.appliesTo = x.appliesTo
    BY <2>3
  <2>5. y \in Envelopes
    BY <2>1, <2>2, <2>3 DEF Envelopes
  <2> QED
    BY <2>1, <2>4, <2>5
<1>6. decisionEvidence' = [decisionEvidence EXCEPT ![a] = y]
  BY <1>1, <1>3, <1>4
<1>7. PICK n \in Nat : n = Len(decisionEvidence) /\ a \in 1 .. n
  BY <1>2
<1> HIDE DEF Envelopes
<1>8. /\ decisionEvidence' \in Seq(Envelopes) /\ Len(decisionEvidence') = n
      /\ DOMAIN decisionEvidence = 1 .. n /\ DOMAIN decisionEvidence' = 1 .. n
      /\ \A i \in 1 .. n : i # a => decisionEvidence'[i] = decisionEvidence[i]
      /\ decisionEvidence'[a] = y
  BY <1>2, <1>5, <1>6, <1>7
<1>9. \A i \in 1 .. n : decisionEvidence[i].sequence \in Nat /\ decisionEvidence[i].sequence <= admitted
  BY <1>8, EvidenceTyped DEF GateInv, AdmittedInTurn
<1>10. Admitted' = Admitted \cup {a} /\ a \notin Admitted
  <2>1. decisionEvidence'[a].sequence > 0 /\ ~ (decisionEvidence[a].sequence > 0)
    BY <1>1, <1>2, <1>5, <1>8
  <2>2. \A i \in 1 .. n : i # a => decisionEvidence'[i].sequence = decisionEvidence[i].sequence
    BY <1>8
  <2>3. \A i \in 1 .. n : decisionEvidence'[i].sequence > 0 <=> (i = a \/ decisionEvidence[i].sequence > 0)
    BY <2>1, <2>2
  <2>4. /\ Admitted = {i \in 1 .. n : decisionEvidence[i].sequence > 0}
        /\ Admitted' = {i \in 1 .. n : decisionEvidence'[i].sequence > 0}
    BY <1>8 DEF Admitted
  <2> QED
    BY <1>7, <2>1, <2>3, <2>4
<1>11. GateTypes'
  <2>1. IsFiniteSet(Admitted)
    <3>1. IsFiniteSet(1 .. n) /\ Admitted \subseteq 1 .. n
      BY <1>8, FS_Interval DEF Admitted
    <3> QED
      BY <3>1, FS_Subset
  <2>2. Cardinality(Admitted)' = admitted + 1
    BY <1>2, <1>10, <2>1, FS_AddElement
  <2> QED
    BY <1>1, <1>2, <1>7, <1>8, <2>2 DEF GateInv, GateTypes
<1>12. AdmittedInTurn'
  <2>1. \A i \in DOMAIN decisionEvidence' : decisionEvidence'[i].sequence <= admitted + 1
    BY <1>2, <1>5, <1>8, <1>9
  <2>2. ASSUME NEW i \in Admitted', NEW j \in Admitted', i # j
        PROVE  decisionEvidence'[i].sequence # decisionEvidence'[j].sequence
    <3>1. \A k \in Admitted : k \in 1 .. n /\ k # a
      BY <1>8, <1>10 DEF Admitted
    <3>2. \A k \in Admitted : decisionEvidence'[k].sequence # admitted + 1
      <4> TAKE k \in Admitted
      <4>1. decisionEvidence'[k].sequence = decisionEvidence[k].sequence
        BY <1>8, <3>1
      <4>2. decisionEvidence[k].sequence \in Nat /\ decisionEvidence[k].sequence <= admitted
        BY <1>9, <3>1
      <4> QED
        BY <1>2, <4>1, <4>2
    <3>3. CASE i = a \/ j = a
      BY <1>5, <1>8, <1>10, <2>2, <3>2, <3>3
    <3>4. CASE i # a /\ j # a
      BY <1>8, <1>10, <2>2, <3>1, <3>4 DEF GateInv, AdmittedInTurn
    <3> QED
      BY <3>3, <3>4
  <2> QED
    BY <1>1, <2>1, <2>2 DEF AdmittedInTurn
<1>13. \A cut \in 0 .. admitted : /\ Seen(cut)' = Seen(cut)
                                  /\ \A i \in Seen(cut) : decisionEvidence'[i] = decisionEvidence[i]
  BY <1>1, <1>2, <1>5, <1>7, <1>8 DEF Seen, Gate!BuildEvidenceIndex
<1>14. OneIsNewest'
  <2> SUFFICES ASSUME NEW q, NEW cut \in Nat, About(q, cut)' # {}
               PROVE  \E i : Newest(i, q, cut)'
    BY DEF OneIsNewest
  <2>1. About(q, cut)' \subseteq 1 .. n
    BY <1>8 DEF About, Seen, Gate!BuildEvidenceIndex
  <2>2. CASE a \in About(q, cut)'
    <3>1. \A j \in 1 .. n : decisionEvidence'[j].sequence <= decisionEvidence'[a].sequence
      BY <1>2, <1>5, <1>8, <1>9
    <3> QED
      BY <2>1, <2>2, <3>1 DEF Newest
  <2>3. CASE a \notin About(q, cut)'
    <3>1. a \notin About(q, cut)
      BY <1>1 DEF About, Seen, Gate!BuildEvidenceIndex
    <3>2. \A i \in 1 .. n : i # a => (i \in About(q, cut)' <=> i \in About(q, cut))
      BY <1>8 DEF About, Seen, Gate!BuildEvidenceIndex
    <3>3. About(q, cut) \subseteq 1 .. n
      BY <1>8 DEF About, Seen, Gate!BuildEvidenceIndex
    <3>4. About(q, cut)' = About(q, cut)
      BY <2>1, <2>3, <3>1, <3>2, <3>3
    <3>5. PICK i : Newest(i, q, cut)
      BY <3>4 DEF GateInv, OneIsNewest
    <3>6. \A j \in About(q, cut) : decisionEvidence'[j] = decisionEvidence[j]
      BY <1>8, <3>1, <3>3
    <3>7. Newest(i, q, cut)'
      BY <3>4, <3>5, <3>6 DEF Newest
    <3> QED
      BY <3>7
  <2> QED
    BY <2>2, <2>3
<1>15. DecisionIsEvaluated'
  BY <1>1, <1>2, <1>13, DecisionStays
<1> QED
  BY <1>11, <1>12, <1>14, <1>15 DEF GateInv

LEMMA EvidenceStays ==
  ASSUME GateInv, now' \in 0 .. MaxTime, UNCHANGED <<decisionEvidence, admitted>>
  PROVE  /\ GateTypes' /\ AdmittedInTurn' /\ OneIsNewest'
         /\ \A cut : Seen(cut)' = Seen(cut)
<1>1. Admitted' = Admitted /\ \A cut : Seen(cut)' = Seen(cut)
  BY DEF Admitted, Seen, Gate!BuildEvidenceIndex
<1>2. \A q, cut : About(q, cut)' = About(q, cut)
  BY <1>1 DEF About
<1>3. \A i, q, cut : Newest(i, q, cut) <=> Newest(i, q, cut)'
  BY <1>2 DEF Newest
<1>4. OneIsNewest'
  BY <1>2, <1>3 DEF GateInv, OneIsNewest
<1> QED
  BY <1>1, <1>4 DEF GateInv, GateTypes, AdmittedInTurn

LEMMA DecideKeeps ==
  ASSUME GateInv, NEW cut \in 0 .. admitted, Gate!Decide(cut)
  PROVE  GateInv'
<1>1. decision' = Gate!Evaluate(cut, now) /\ UNCHANGED <<now, decisionEvidence, admitted>>
  BY DEF Gate!Decide
<1>2. GateTypes /\ now \in 0 .. MaxTime /\ now \in Nat /\ admitted \in Nat /\ cut \in Nat
  BY Bounds DEF GateInv, GateTypes
<1>3. /\ GateTypes' /\ AdmittedInTurn' /\ OneIsNewest'
      /\ \A k : Seen(k)' = Seen(k)
  BY <1>1, <1>2, EvidenceStays
<1>4. Gate!Evaluate(cut, now).cut = cut /\ Gate!Evaluate(cut, now).at = now
  BY DEF Gate!Evaluate
<1>5. PICK t \in Nat : t = now
  BY <1>2
<1>6. Gate!Evaluate(cut, t)' = Gate!Evaluate(cut, t)
  BY <1>1, <1>2, <1>3, EvaluateStays
<1>7. /\ decision'.cut = cut /\ decision'.at = t /\ decision' = Gate!Evaluate(cut, t)'
  BY <1>1, <1>4, <1>5, <1>6
<1>8. DecisionIsEvaluated'
  BY <1>1, <1>2, <1>7 DEF DecisionIsEvaluated
<1> QED
  BY <1>3, <1>8 DEF GateInv

LEMMA GateKeeps ==
  ASSUME GateInv, now' \in 0 .. MaxTime, UNCHANGED <<decisionEvidence, admitted, decision>>
  PROVE  GateInv'
<1>1. GateTypes' /\ AdmittedInTurn' /\ OneIsNewest' /\ \A cut : Seen(cut)' = Seen(cut)
  BY EvidenceStays
<1>2. admitted \in Nat
  BY DEF GateInv, GateTypes
<1>3. DecisionIsEvaluated'
  BY <1>1, <1>2, DecisionStays
<1> QED
  BY <1>1, <1>3 DEF GateInv

LEMMA GateStep == GateInv /\ Gate!Next => GateInv'
<1> SUFFICES ASSUME GateInv, Gate!Next PROVE GateInv'
  OBVIOUS
<1>1. now \in 0 .. MaxTime /\ MaxTime \in Nat
  BY Bounds DEF GateInv, GateTypes
<1>2. CASE Gate!Tick
  BY <1>1, <1>2, GateKeeps DEF Gate!Tick
<1>3. ASSUME NEW p \in Panels, Gate!AskPanel(p) PROVE GateInv'
  BY <1>1, <1>3, GateKeeps DEF Gate!AskPanel
<1>4. ASSUME NEW deps \in Remedies, Gate!HandBack(deps) PROVE GateInv'
  BY <1>1, <1>4, GateKeeps DEF Gate!HandBack
<1> QED
  BY <1>2, <1>3, <1>4, ProducerKeeps, AdmitKeeps, DecideKeeps DEF Gate!Next

(* A pass: no mandatory requirement is judged anything worse, so the newest *)
(* envelope about it passed and had not expired.                            *)
LEMMA PassBacked ==
  ASSUME GateInv, decision.status = "pass"
  PROVE  Gate!PassIsBacked
<1>1. decision # Gate!NoDecision
  BY DEF Gate!NoDecision
<1>2. PICK cut, t : cut = decision.cut /\ t = decision.at
  OBVIOUS
<1>3. /\ cut \in Nat /\ t \in Nat /\ decision = Gate!Evaluate(cut, t)
      /\ GateTypes /\ AdmittedInTurn /\ OneIsNewest
  BY <1>1, <1>2 DEF GateInv, DecisionIsEvaluated, GateTypes
<1>4. PICK res : res = [q \in Requirements |-> Gate!Judge(q, Seen(cut), t)]
  OBVIOUS
<1>5. Gate!Evaluate(cut, t).status =
        IF Mandatory = {} THEN "incomplete" ELSE Gate!AggregateStatus({res[q] : q \in Mandatory})
  BY <1>4 DEF Gate!Evaluate, Seen
<1>6. Mandatory # {} /\ Gate!AggregateStatus({res[q] : q \in Mandatory}) = "pass"
  BY <1>3, <1>5
<1>7. {res[q] : q \in Mandatory} \cap {"fail", "stale", "incomplete"} = {}
  BY <1>6, AggregateIs
<1>8. ASSUME NEW q \in Mandatory
      PROVE  \E i \in Seen(cut) : /\ Newest(i, q, cut) /\ ~ decisionEvidence[i].failed
                                  /\ decisionEvidence[i].staleAfter >= t
  <2>1. q \in Requirements /\ res[q] = Gate!Judge(q, Seen(cut), t)
    BY <1>4, CertificationAssumption
  <2>2. Gate!Judge(q, Seen(cut), t) \notin {"fail", "stale", "incomplete"}
    BY <1>7, <2>1
  <2>3. About(q, cut) # {}
    BY <2>2, JudgeNone
  <2>4. PICK i : Newest(i, q, cut)
    BY <1>3, <2>3 DEF OneIsNewest
  <2>5. Gate!Judge(q, Seen(cut), t) =
          IF decisionEvidence[i].failed THEN "fail"
          ELSE IF decisionEvidence[i].staleAfter < t THEN "stale" ELSE "pass"
    BY <1>3, <2>4, JudgeNewest
  <2>6. ~ decisionEvidence[i].failed /\ ~ (decisionEvidence[i].staleAfter < t)
    BY <2>2, <2>5
  <2>7. i \in Seen(cut) /\ i \in DOMAIN decisionEvidence
    BY <2>4 DEF Newest, About, Seen, Gate!BuildEvidenceIndex
  <2>8. decisionEvidence[i].staleAfter \in Nat
    <3>1. decisionEvidence[i] \in Envelopes
      BY <1>3, <2>7, EvidenceTyped
    <3> QED
      BY <3>1 DEF Envelopes
  <2> QED
    BY <1>3, <2>4, <2>6, <2>7, <2>8
<1>9. ASSUME NEW q \in Mandatory
      PROVE  LET heard == {e \in Gate!ToSet(decisionEvidence) :
                             /\ e.candidate = Gate!Ours /\ q \in e.appliesTo
                             /\ e.sequence \in 1 .. cut}
             IN  \E e \in heard : /\ ~ e.failed /\ e.staleAfter >= t
                                  /\ \A f \in heard : f.sequence <= e.sequence
  <2>1. PICK i \in Seen(cut) : /\ Newest(i, q, cut) /\ ~ decisionEvidence[i].failed
                               /\ decisionEvidence[i].staleAfter >= t
    BY <1>8
  <2> DEFINE heard == {e \in Gate!ToSet(decisionEvidence) :
                         /\ e.candidate = Gate!Ours /\ q \in e.appliesTo
                         /\ e.sequence \in 1 .. cut}
  <2>2. decisionEvidence[i] \in heard
    BY <2>1 DEF Newest, About, Seen, Gate!BuildEvidenceIndex, Gate!ToSet
  <2>3. \A f \in heard : \E j \in About(q, cut) : f = decisionEvidence[j]
    BY DEF About, Seen, Gate!BuildEvidenceIndex, Gate!ToSet
  <2>4. \A f \in heard : f.sequence <= decisionEvidence[i].sequence
    BY <2>1, <2>3 DEF Newest
  <2> QED
    BY <2>1, <2>2, <2>4
<1> QED
  BY <1>2, <1>6, <1>9 DEF Gate!PassIsBacked

LEMMA GateSafe == ASSUME GateInv PROVE Gate!TypeOK /\ Gate!DecisionsStand
<1>1. Gate!DecisionsReproduce
  BY DEF GateInv, DecisionIsEvaluated, Gate!DecisionsReproduce
<1>2. Gate!PassIsBacked
  BY PassBacked DEF Gate!PassIsBacked
<1>3. /\ now \in 0 .. MaxTime /\ Len(decisionEvidence) <= MaxEvidence
      /\ \A i \in DOMAIN decisionEvidence : decisionEvidence[i].candidate \in Releases
  BY EvidenceTyped DEF GateInv, GateTypes, Envelopes
<1>4. admitted \in 0 .. MaxEvidence
  <2>1. decisionEvidence \in Seq(Envelopes) /\ admitted \in Nat /\ MaxEvidence \in Nat
    BY Bounds DEF GateInv, GateTypes
  <2>2. PICK n \in Nat : n = Len(decisionEvidence)
    BY <2>1
  <2>3. Admitted \subseteq 1 .. n /\ n <= MaxEvidence
    BY <2>1, <2>2 DEF GateInv, GateTypes, Admitted
  <2>4. IsFiniteSet(1 .. n) /\ Cardinality(1 .. n) = n
    <3>1. 1 \in Int /\ n \in Int
      OBVIOUS
    <3>2. IsFiniteSet(1 .. n) /\ Cardinality(1 .. n) = IF 1 > n THEN 0 ELSE n - 1 + 1
      BY <3>1, FS_Interval
    <3> QED
      BY <3>2
  <2>5. Cardinality(Admitted) <= n
    BY <2>3, <2>4, FS_Subset
  <2> QED
    BY <2>1, <2>2, <2>3, <2>5 DEF GateInv, GateTypes
<1>5. decision.status \in {"none", "pass", "fail", "stale", "incomplete"}
  <2>1. CASE decision = Gate!NoDecision
    BY <2>1 DEF Gate!NoDecision
  <2>2. CASE decision # Gate!NoDecision
    <3>1. PICK cut, t : decision = Gate!Evaluate(cut, t)
      BY <2>2 DEF GateInv, DecisionIsEvaluated
    <3>2. PICK S : decision.status = IF Mandatory = {} THEN "incomplete" ELSE Gate!AggregateStatus(S)
      BY <3>1 DEF Gate!Evaluate
    <3> QED
      BY <3>2, AggregateIs DEF Verdicts
  <2> QED
    BY <2>1, <2>2
<1> QED
  BY <1>1, <1>2, <1>3, <1>4, <1>5 DEF Gate!TypeOK, Gate!DecisionsStand
-----------------------------------------------------------------------------
(* The behaviours of MCCertification: each is about one component.          *)

PartInv ==
  /\ part = "operation" => OperationInv
  /\ part = "health" => HealthInv
  /\ part = "cutover" => CutoverInv
  /\ part = "dossier" => DossierInv
  /\ part = "evolution" => EvolutionInv
  /\ part = "service" => ServiceInv
  /\ part = "decision" => GateInv

LEMMA PartInit == Init => PartInv
BY OperationInit, HealthInit, CutoverInit, DossierInit, EvolutionInit, ServiceInit, GateInit
   DEF Init, PartInv

LEMMA PartStep == PartInv /\ [Next]_vars => PartInv'
<1> SUFFICES ASSUME PartInv, [Next]_vars PROVE PartInv'
  OBVIOUS
<1>1. part' = part
  BY DEF Next, vars
<1>2. ASSUME part = "operation" PROVE OperationInv'
  <2>1. CASE Operation!Next
    BY <1>2, <2>1, OperationStep DEF PartInv
  <2>2. CASE UNCHANGED operationVars
    BY <1>2, <2>2 DEF PartInv, operationVars, OperationInv, Operation!RecoveryIsSafe,
       Operation!AuthorizeDeployment
  <2> QED
    BY <1>2, <2>1, <2>2 DEF Next, vars
<1>3. ASSUME part = "health" PROVE HealthInv'
  <2>1. CASE Health!Next
    BY <1>3, <2>1, HealthStep DEF PartInv
  <2>2. CASE UNCHANGED healthVars
    BY <1>3, <2>2 DEF PartInv, healthVars, HealthInv, HealthTypes, UnderWay, Decided, Counted,
       Deciding, Done, Projected
  <2> QED
    BY <1>3, <2>1, <2>2 DEF Next, vars
<1>4. ASSUME part = "cutover" PROVE CutoverInv'
  <2>1. CASE Cutover!Next
    BY <1>4, <2>1, CutoverStep DEF PartInv
  <2>2. CASE UNCHANGED cutoverVars
    BY <1>4, <2>2 DEF PartInv, cutoverVars, CutoverInv, Cutover!VerifyCutover
  <2> QED
    BY <1>4, <2>1, <2>2 DEF Next, vars
<1>5. ASSUME part = "dossier" PROVE DossierInv'
  <2>1. CASE Dossier!Next
    BY <1>5, <2>1, DossierStep DEF PartInv
  <2>2. CASE UNCHANGED dossierVars
    <3>1. UNCHANGED <<events, hashes, root, draft, copy, report, replica, objects, age>>
      BY <2>2 DEF dossierVars
    <3> QED
      BY <1>5, <3>1, ChainStays DEF PartInv, DossierInv, StoresInv
  <2> QED
    BY <1>5, <2>1, <2>2 DEF Next, vars
<1>6. ASSUME part = "evolution" PROVE EvolutionInv'
  <2>1. CASE Evo!Next
    BY <1>6, <2>1, EvolutionStep DEF PartInv
  <2>2. CASE UNCHANGED evolutionVars
    <3>1. UNCHANGED <<stage, transitions, killed>> /\ EvolutionInv
      BY <1>6, <2>2 DEF PartInv, evolutionVars
    <3>2. /\ \A i : Evo!Before(i)' = Evo!Before(i)
          /\ \A c : Evo!History(c)' = Evo!History(c)
      BY <3>1 DEF Evo!Before, Evo!History
    <3>3. EvolutionTypes' /\ Evo!NumbersCountUp' /\ Evo!KeysAreUsedOnce' /\ Evo!FinalIsFinal'
      BY <3>1, <3>2 DEF EvolutionInv, EvolutionTypes, Evo!NumbersCountUp, Evo!KeysAreUsedOnce,
         Evo!FinalIsFinal
    <3>4. RecordsFollow' /\ StagesAgree'
      BY <3>1, <3>2 DEF EvolutionInv, RecordsFollow, StagesAgree
    <3> QED
      BY <3>3, <3>4 DEF EvolutionInv
  <2> QED
    BY <1>6, <2>1, <2>2 DEF Next, vars
<1>7. ASSUME part = "service" PROVE ServiceInv'
  <2>1. CASE Service!Next
    BY <1>7, <2>1, ServiceStep DEF PartInv
  <2>2. CASE UNCHANGED serviceVars
    <3>1. UNCHANGED <<registry, lock, worker, proc, smoked, ops>> /\ ServiceInv
      BY <1>7, <2>2 DEF PartInv, serviceVars
    <3>2. /\ \A s, t : Service!Served(s, t)' = Service!Served(s, t)
          /\ \A p : Service!Target(p)' = Service!Target(p)
      BY <3>1 DEF Service!Served, Service!Target
    <3>3. ServiceTypes'
      BY <3>1, <3>2 DEF ServiceInv, ServiceTypes
    <3>4. \A r : Sound(r) => Sound(r)'
      BY <3>1, <3>2 DEF Sound
    <3>5. \A p \in Procs : AtWork(p)'
      BY <3>1, <3>2, <3>4 DEF ServiceInv, AtWork
    <3> QED
      BY <3>1, <3>3, <3>4, <3>5 DEF ServiceInv
  <2> QED
    BY <1>7, <2>1, <2>2 DEF Next, vars
<1>8. ASSUME part = "decision" PROVE GateInv'
  <2>1. CASE Gate!Next
    BY <1>8, <2>1, GateStep DEF PartInv
  <2>2. CASE UNCHANGED decisionVars
    <3>1. GateInv /\ now \in 0 .. MaxTime
      BY <1>8 DEF PartInv, GateInv, GateTypes
    <3> QED
      BY <2>2, <3>1, GateKeeps DEF decisionVars
  <2> QED
    BY <1>8, <2>1, <2>2 DEF Next, vars
<1> QED
  BY <1>1, <1>2, <1>3, <1>4, <1>5, <1>6, <1>7, <1>8 DEF PartInv

(* A deployment that crashed goes on only where its record and its traffic  *)
(* allow it, a schedule window counts once however often it is delivered,   *)
(* nothing but legacy artifacts is deleted, after every candidate was       *)
(* certified, and whatever commands crash or overlap, the registry of       *)
(* services says of a deploy that it succeeded only where it did            *)
(* (deployment/, health/monitor.ts, cutover/, leitstand/service-*.ts), for  *)
(* any windows, candidates, paths, services and processes.                  *)
THEOREM DeploymentsAreRecovered == Spec => []DeploymentsRecover
<1>1. PartInv => DeploymentsRecover
  BY OperationTyped, HealthSafe, CutoverSafe, ServiceSafe DEF PartInv, DeploymentsRecover, OperationInv
<1> QED
  BY PartInit, PartStep, <1>1, PTL DEF Spec

(* A gate decision evaluated again at its cut and time is the same whatever *)
(* was admitted since, and behind a pass stands evidence; however many      *)
(* writers append to a dossier its chain is unbroken under its root, a copy *)
(* is verified only with the events of its root and a replica only at a     *)
(* root the dossier has had; and the stage of every evolving candidate can  *)
(* be replayed from its records (evidence-selection.ts, aggregation.ts,     *)
(* storage/, inspection/, evolution/reducer.ts).                            *)
THEOREM HistoryStaysSound == Spec => []HistoryIsSound
<1>1. PartInv => HistoryIsSound
  BY DossierSafe, EvolutionSafe, GateSafe DEF PartInv, HistoryIsSound
<1> QED
  BY PartInit, PartStep, <1>1, PTL DEF Spec
=============================================================================
