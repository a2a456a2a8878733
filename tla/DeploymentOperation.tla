------------------------ MODULE DeploymentOperation -------------------------
(* One deployment of a candidate through a gate: authorization, the states *)
(* a deployment may pass, the facts a crash leaves behind and the recovery *)
(* chosen from them (certification/deployment/authority.ts,                *)
(* certification/state-machine.ts).  What drives the operation is outside  *)
(* the repository; it is taken to follow the transition table.             *)
EXTENDS Naturals, FiniteSets

VARIABLES
  request,    \* what authorizeDeployment was asked
  op,         \* the state of the operation
  stored,     \* the last state that was persisted
  artifact,   \* the artifact is persisted
  traffic,    \* traffic points to it
  checking,   \* the verification was started
  checked,    \* and completed
  recovery    \* what evaluateCrashRecovery answered after a crash

vars == <<request, op, stored, artifact, traffic, checking, checked, recovery>>

Gates == {"dev-deploy", "propagate-alt", "promote-main"}
Requests == [gate : Gates, bypass : BOOLEAN, sameCandidate : BOOLEAN,
             status : {"pass", "fail", "incomplete"}, ready : BOOLEAN, synced : BOOLEAN,
             outage : BOOLEAN, targetReady : BOOLEAN, sameTarget : BOOLEAN]

(* authorizeDeployment: no gate allows force, skip, waiver or grace; the   *)
(* gates after dev ask for a durable sync.                                 *)
AuthorizeDeployment(r) ==
  /\ ~ r.bypass /\ r.sameCandidate /\ r.status = "pass" /\ r.ready
  /\ r.gate # "dev-deploy" => r.synced

(* verifyMainPromotion: the same of the verification after main.           *)
VerifyMainPromotion(r) == r.sameCandidate /\ r.status = "pass" /\ r.synced

(* evaluateRollback: never in a shared outage, to an artifact that is not  *)
(* ready, or to the failed candidate itself.                               *)
EvaluateRollback(r) == ~ r.outage /\ r.targetReady /\ ~ r.sameTarget

DEPLOYMENT_TRANSITIONS ==
  [planned |-> {"authorized", "failed"},
   authorized |-> {"deploying", "failed"},
   deploying |-> {"deployed", "failed"},
   deployed |-> {"verifying", "failed"},
   verifying |-> {"succeeded", "failed"},
   succeeded |-> {"rollback-authorized"},
   failed |-> {"rollback-authorized"},
   rollback_authorized |-> {"rolling-back", "failed"},
   rolling_back |-> {"rolled-back", "failed"},
   rolled_back |-> {}]
Row(s) == CASE s = "rollback-authorized" -> "rollback_authorized"
            [] s = "rolling-back" -> "rolling_back"
            [] s = "rolled-back" -> "rolled_back"
            [] OTHER -> s
Allowed(from, to) == to \in DEPLOYMENT_TRANSITIONS[Row(from)]

\* Fault: an interrupted deployment is restarted without a look at traffic.
RestartBlindly(a, t, s, c, same, last) ==
  IF c /\ ~ same THEN "resume-verification"
  ELSE IF ~ a \/ ~ s THEN "restart-deployment"
  ELSE IF ~ c \/ ~ t THEN "resume-verification"
  ELSE IF last = "rolled-back" THEN "quarantine"
  ELSE "CERT-DEPLOY-13"

(* evaluateCrashRecovery: artifact, traffic, verification started and      *)
(* completed, whether the state was persisted, and the last state that was.*)
EvaluateCrashRecovery(a, t, s, c, same, last) ==
  IF c /\ ~ same THEN "resume-verification"
  ELSE IF t /\ ~ (s /\ c) THEN "resume-verification"
  ELSE IF a /\ ~ t THEN "resume-verification"
  ELSE IF ~ a THEN "restart-deployment"
  ELSE IF last = "rolled-back" THEN "quarantine"
  ELSE "CERT-DEPLOY-13"

(* Where the operation goes on after a recovery.                           *)
ResumeFrom(a, t, s, c, same) ==
  IF (c /\ ~ same) \/ (t /\ s /\ ~ c) THEN "verifying"
  ELSE IF a \/ t THEN "deployed" ELSE "authorized"

Init ==
  /\ request \in Requests /\ op = "planned" /\ stored = "planned"
  /\ artifact = FALSE /\ traffic = FALSE /\ checking = FALSE /\ checked = FALSE
  /\ recovery = "none"

Running == recovery \notin {"crashed", "quarantine", "CERT-DEPLOY-13"}

(* A legal transition; it is persisted by a step of its own.               *)
Transition(to) ==
  /\ Running /\ op = stored /\ Allowed(op, to)
  /\ to = "authorized" => AuthorizeDeployment(request)
  /\ to = "deployed" => artifact /\ traffic
  /\ to = "succeeded" => checked
  /\ to = "rollback-authorized" => EvaluateRollback(request)
  /\ op' = to
  /\ checking' = (checking \/ to = "verifying")
  /\ traffic' = (traffic /\ to # "rolled-back")
  /\ recovery' = "none"
  /\ UNCHANGED <<request, stored, artifact, checked>>

Persist ==
  /\ Running /\ op # stored /\ stored' = op
  /\ UNCHANGED <<request, op, artifact, traffic, checking, checked, recovery>>

(* The effects of deploying and of verifying.                              *)
Upload ==
  /\ Running /\ op = "deploying" /\ ~ artifact /\ artifact' = TRUE
  /\ UNCHANGED <<request, op, stored, traffic, checking, checked, recovery>>
Switch ==
  /\ Running /\ op = "deploying" /\ artifact /\ ~ traffic /\ traffic' = TRUE
  /\ UNCHANGED <<request, op, stored, artifact, checking, checked, recovery>>
Verify ==
  /\ Running /\ op = "verifying" /\ ~ checked
  /\ request.gate = "promote-main" => VerifyMainPromotion(request)
  /\ checked' = TRUE
  /\ UNCHANGED <<request, op, stored, artifact, traffic, checking, recovery>>

Crash ==
  /\ Running /\ op \in {"deploying", "deployed", "verifying", "succeeded"}
  /\ recovery' = "crashed"
  /\ UNCHANGED <<request, op, stored, artifact, traffic, checking, checked>>

Recover ==
  /\ recovery = "crashed"
  /\ LET same == op = stored
     IN  /\ recovery' = EvaluateCrashRecovery(artifact, traffic, checking, checked, same, stored)
         /\ IF recovery' \in {"resume-verification", "restart-deployment"}
            THEN op' = ResumeFrom(artifact, traffic, checking, checked, same)
            ELSE op' = op
         /\ stored' = IF recovery' \in {"resume-verification", "restart-deployment"} THEN op' ELSE stored
  /\ UNCHANGED <<request, artifact, traffic, checking, checked>>

Next ==
  \/ Persist \/ Upload \/ Switch \/ Verify \/ Crash \/ Recover
  \/ \E to \in {"authorized", "deploying", "deployed", "verifying", "succeeded", "failed",
                "rollback-authorized", "rolling-back", "rolled-back"} : Transition(to)
-----------------------------------------------------------------------------
TypeOK ==
  /\ request \in Requests /\ Row(op) \in DOMAIN DEPLOYMENT_TRANSITIONS
  /\ Row(stored) \in DOMAIN DEPLOYMENT_TRANSITIONS
  /\ {artifact, traffic, checking, checked} \subseteq BOOLEAN
  /\ recovery \in {"none", "crashed", "resume-verification", "restart-deployment",
                   "quarantine", "CERT-DEPLOY-13"}

(* Whatever crashes, nothing is deployed or promoted without a passing and *)
(* ready decision for the candidate, and the recovery restarts a           *)
(* deployment only when traffic is not on its artifact; it is at a loss    *)
(* only where the operation had finished (evaluateCrashRecovery).          *)
RecoveryIsSafe ==
  /\ artifact => AuthorizeDeployment(request)
  /\ recovery = "restart-deployment" => ~ traffic /\ op = "authorized"
  /\ recovery = "CERT-DEPLOY-13" => checked /\ op = stored
=============================================================================
