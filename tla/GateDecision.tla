---------------------------- MODULE GateDecision ----------------------------
(* From producer results to a gate decision: what becomes evidence, which  *)
(* evidence a requirement is judged by, what the gate decides, the tasks   *)
(* it hands back and the recovery of a deployment that crashed             *)
(* (certification/: producers, evaluators, evidence-selection, aggregation,*)
(* action-pack, profile, state-machine, deployment).                       *)
EXTENDS Naturals, FiniteSets, Sequences, SequencesExt, FiniteSetsExt

CONSTANTS
  Candidates,    \* release candidates; the gate decides on the least
  Requirements,  \* ids of the policy bundle, numbered as they sort
  Mandatory,     \* the mandatory ones
  Results,       \* what a producer's handler may answer
  Panels,        \* panels of evaluators: sequences of [id, verdict, sound]
  Remedies,      \* dependencies between the tasks of requirements
  MaxEvidence,   \* bound of the model: envelopes
  MaxTime        \* bound of the model: the clock

VARIABLES
  now,        \* the authority's clock
  evidence,   \* every envelope, in the order produced
  admitted,   \* the last authority sequence given
  decision,   \* the last decision of the gate, or NoDecision
  panel,      \* what executeEvaluators answered
  pack        \* the last action pack: the dependencies given, the order of tasks

vars == <<now, evidence, admitted, decision, panel, pack>>

NoDecision == [status |-> "none"]
NoPack == [deps |-> <<>>, order |-> <<>>]
Ours == Min(Candidates)

(* checkFalsePass: an empty result is refused, and so is one with nothing  *)
(* but warnings on a required requirement; all others pass.                *)
FalsePass(r) ==
  \/ r.diagnostics = <<>> /\ r.requirements = {}
  \/ /\ r.diagnostics # <<>>
     /\ \A d \in ToSet(r.diagnostics) : d.severity \in {"warning", "info"}
     /\ r.requirements \cap Mandatory # {}

(* normalizeDiagnostics: the first of several with the same rule and place.*)
FirstOf(s, i) == \A j \in 1..i - 1 : <<s[j].rule, s[j].place>> # <<s[i].rule, s[i].place>>
NormalizeDiagnostics(s) == LET keep == {i \in DOMAIN s : FirstOf(s, i)}
                           IN  [n \in 1..Cardinality(keep) |->
                                  s[CHOOSE i \in keep : Cardinality({j \in keep : j <= i}) = n]]

(* The rule executeProducer answers with.                                  *)
ProducerRule(r) ==
  IF r.answers = "unregistered" THEN "CERT-PRODUCER-09"
  ELSE IF r.answers = "throws" THEN "CERT-PRODUCER-10"
  ELSE IF FalsePass(r) \/ \E d \in ToSet(r.diagnostics) : d.rule = "" THEN "CERT-PRODUCER-11"
  ELSE "ok"

(* The envelope of a result: it expires the instant it was produced, as    *)
(* executeProducer writes it, or at the end of a window of one tick, as the*)
(* certify command does.                                                   *)
Envelope(candidate, r, window) ==
  [candidate |-> candidate, appliesTo |-> r.requirements,
   failed |-> \E d \in ToSet(NormalizeDiagnostics(r.diagnostics)) : d.severity = "error",
   staleAfter |-> now + window, sequence |-> 0]

\* Fault: the evaluation cut is forgotten.
IndexEverything(candidate, cut) ==
  {i \in DOMAIN evidence : evidence[i].candidate = candidate /\ evidence[i].sequence > 0}

(* buildEvidenceIndex: the admitted envelopes of the candidate at the cut, *)
(* by requirement.                                                         *)
BuildEvidenceIndex(candidate, cut) ==
  {i \in DOMAIN evidence : /\ evidence[i].candidate = candidate
                           /\ evidence[i].sequence \in 1..cut}

(* selectRequirementEvidence: the newest admitted envelope alone decides.  *)
Judge(q, index, t) ==
  LET about == {i \in index : q \in evidence[i].appliesTo}
      best == evidence[CHOOSE i \in about : \A j \in about : evidence[j].sequence <= evidence[i].sequence]
  IN  IF about = {} THEN IF q \in Mandatory THEN "incomplete" ELSE "not-applicable"
      ELSE IF best.failed THEN "fail"
      ELSE IF best.staleAfter < t THEN "stale"
      ELSE "pass"

Precedence == <<"fail", "stale", "incomplete", "pass">>

(* aggregateStatus: the worst status counts; without any it is incomplete. *)
AggregateStatus(statuses) ==
  IF statuses = {} THEN "incomplete"
  ELSE LET present == {k \in DOMAIN Precedence : Precedence[k] \in statuses \cup {"pass"}}
       IN  Precedence[Min(present)]

(* evaluateCertificationDecision at an evaluation cut.                     *)
Evaluate(cut, t) ==
  LET index == BuildEvidenceIndex(Ours, cut)
      results == [q \in Requirements |-> Judge(q, index, t)]
  IN  [status |-> IF Mandatory = {} THEN "incomplete"
                  ELSE AggregateStatus({results[q] : q \in Mandatory}),
       results |-> results, cut |-> cut, at |-> t]

-----------------------------------------------------------------------------
(* checkEvaluatorIsolation: no author and nobody twice.                    *)
Isolated(p) == /\ \A i \in DOMAIN p : p[i].id # "author"
               /\ \A i, j \in DOMAIN p : i # j => p[i].id # p[j].id

(* aggregateConsensus: only a unanimous panel decides.                     *)
AggregateConsensus(verdicts) ==
  IF Cardinality(verdicts) = 1 THEN CHOOSE v \in verdicts : TRUE ELSE "incomplete"

(* executeEvaluators asks one evaluator after the other; the first that    *)
(* is unknown, throws or answers with a payload validateEvaluatorPayload   *)
(* refuses ends it.                                                        *)
ExecuteEvaluators(p) ==
  LET bad == {i \in DOMAIN p : p[i].sound # "sound"}
  IN  IF ~ Isolated(p) THEN "CERT-EVAL-11"
      ELSE IF bad # {} THEN IF p[Min(bad)].sound = "unknown" THEN "CERT-EVAL-12" ELSE "CERT-EVAL-13"
      ELSE IF p = <<>> THEN "CERT-EVAL-13"
      ELSE AggregateConsensus({p[i].verdict : i \in DOMAIN p})

-----------------------------------------------------------------------------
Actionable == {q \in Requirements : decision.results[q] \notin {"pass", "not-applicable"}}

(* The tasks with no chain of k tasks before them, and topologicalSort: a  *)
(* depth-first walk over the sorted ids, each task after what it depends   *)
(* on; a dependency that is no task is passed over.                        *)
Acyclic(tasks) ==
  LET L[k \in 0..Cardinality(DOMAIN tasks)] ==
        IF k = 0 THEN {}
        ELSE {q \in DOMAIN tasks : ToSet(tasks[q]) \cap DOMAIN tasks \subseteq L[k - 1]}
  IN  L[Cardinality(DOMAIN tasks)] = DOMAIN tasks
Visited(ids, walk) ==
  FoldLeft(LAMBDA out, q : IF q \in DOMAIN walk
                           THEN out \o SelectSeq(walk[q], LAMBDA d : d \notin ToSet(out)) ELSE out,
           <<>>, ids)
TopologicalSort(tasks) ==
  LET walk[k \in 0..Cardinality(DOMAIN tasks)] ==
        [q \in DOMAIN tasks |-> IF k = 0 THEN <<>> ELSE Append(Visited(tasks[q], walk[k - 1]), q)]
  IN  Visited(SetToSortSeq(DOMAIN tasks, LAMBDA a, b : a < b), walk[Cardinality(DOMAIN tasks)])

(* buildCertificationActionPack: a task for every requirement that is not  *)
(* satisfied, each after the tasks it depends on; a requirement without    *)
(* usable metadata or a cycle refuses the pack (CERT-ACTION-01, here <<0>>).*)
BuildActionPack(deps) ==
  LET tasks == [q \in Actionable |-> deps[q]]
  IN  IF \E q \in Actionable : q \notin DOMAIN deps THEN <<0>>
      ELSE IF ~ Acyclic(tasks) THEN <<0>>
      ELSE TopologicalSort(tasks)

Init == /\ now = 0 /\ evidence = <<>> /\ admitted = 0
        /\ decision = NoDecision /\ panel = "none" /\ pack = NoPack

Tick == /\ now < MaxTime /\ now' = now + 1
        /\ UNCHANGED <<evidence, admitted, decision, panel, pack>>

ExecuteProducer(candidate, r, window) ==
  /\ Len(evidence) < MaxEvidence
  /\ ProducerRule(r) = "ok"
  /\ evidence' = Append(evidence, Envelope(candidate, r, window))
  /\ UNCHANGED <<now, admitted, decision, panel, pack>>

(* The authority admits an envelope under its next sequence number.        *)
Admit(i) ==
  /\ evidence[i].sequence = 0
  /\ admitted' = admitted + 1
  /\ evidence' = [evidence EXCEPT ![i].sequence = admitted + 1]
  /\ UNCHANGED <<now, decision, panel, pack>>

(* The gate decides at a cut no later than what was admitted.              *)
Decide(cut) ==
  /\ decision' = Evaluate(cut, now)
  /\ pack' = NoPack
  /\ UNCHANGED <<now, evidence, admitted, panel>>

AskPanel(p) ==
  /\ panel = "none"
  /\ panel' = ExecuteEvaluators(p)
  /\ UNCHANGED <<now, evidence, admitted, decision, pack>>

HandBack(deps) ==
  /\ decision # NoDecision /\ pack = NoPack
  /\ pack' = [deps |-> deps, order |-> BuildActionPack(deps)]
  /\ UNCHANGED <<now, evidence, admitted, decision, panel>>

Next ==
  \/ Tick
  \/ \E c \in Candidates, r \in Results, w \in 0..1 : ExecuteProducer(c, r, w)
  \/ \E i \in DOMAIN evidence : Admit(i)
  \/ \E cut \in 0..admitted : Decide(cut)
  \/ \E p \in Panels : AskPanel(p)
  \/ \E deps \in Remedies : HandBack(deps)
-----------------------------------------------------------------------------
TypeOK ==
  /\ now \in 0..MaxTime /\ Len(evidence) <= MaxEvidence /\ admitted \in 0..MaxEvidence
  /\ \A i \in DOMAIN evidence : evidence[i].candidate \in Candidates
  /\ decision.status \in {"none", "pass", "fail", "stale", "incomplete"}

(* A decision can be reproduced: evaluated again at its cut and its time   *)
(* it is the same, whatever evidence was produced and admitted since.      *)
DecisionsReproduce ==
  decision # NoDecision => Evaluate(decision.cut, decision.at) = decision

(* Behind a pass stands, for each mandatory requirement, evidence of the   *)
(* candidate without errors, fresh then, and nothing newer at the cut that *)
(* fails it or has expired.                                                *)
PassIsBacked ==
  decision.status = "pass" =>
    /\ Mandatory # {}
    /\ \A q \in Mandatory :
         LET heard == {e \in ToSet(evidence) : /\ e.candidate = Ours /\ q \in e.appliesTo
                                               /\ e.sequence \in 1..decision.cut}
         IN  \E e \in heard : /\ ~ e.failed /\ e.staleAfter >= decision.at
                              /\ \A f \in heard : f.sequence <= e.sequence

(* The tasks handed back are exactly those of the requirements that did    *)
(* not pass, and no task comes before one it depends on.                   *)
PackIsOrdered ==
  pack # NoPack /\ pack.order # <<0>> =>
    /\ ToSet(pack.order) = Actionable /\ Len(pack.order) = Cardinality(Actionable)
    /\ \A i, j \in DOMAIN pack.order :
         pack.order[j] \in ToSet(pack.deps[pack.order[i]]) => j < i

(* The gate's decision stands on its evidence (evidence-selection.ts,      *)
(* aggregation.ts).                                                        *)
DecisionsStand == DecisionsReproduce /\ PassIsBacked
=============================================================================
