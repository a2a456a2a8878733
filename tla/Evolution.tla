----------------------------- MODULE Evolution ------------------------------
(* The stages of a capability candidate from its definition to promotion,  *)
(* rollback or quarantine: guards, evidence, sequence numbers, idempotency *)
(* keys and the kill switch (evolution/: controller, guards, reducer).     *)
EXTENDS Naturals, FiniteSets, Sequences

CONSTANTS
  Candidates,   \* candidate ids
  Keys,         \* idempotency keys callers may use
  Evidences,    \* evidence bundles callers may present
  MaxRecords    \* bound of the model: transition records

VARIABLES
  stage,        \* the stage of each candidate, or "none"
  transitions,  \* every record, in order
  killed        \* killSwitchActive

vars == <<stage, transitions, killed>>

FORWARD_ONLY_SEQUENCE == <<"defined", "tested", "shadowed", "canary", "promoted">>
TERMINAL_STAGES == {"promoted", "rolled-back", "quarantined"}
Stages == {"defined", "tested", "shadowed", "canary", "promoted", "rolled-back", "quarantined"}

(* isForwardTransition: one step ahead, or out of the sequence.            *)
IsForwardTransition(from, to) ==
  \/ to \in {"rolled-back", "quarantined"}
  \/ \E i \in 1..4 : from = FORWARD_ONLY_SEQUENCE[i] /\ to = FORWARD_ONLY_SEQUENCE[i + 1]

(* runAllGuards: the bundle is about this candidate, not expired, without  *)
(* critical incident in shadow, within the limits of a canary and its      *)
(* hashes hold together.                                                   *)
EvidenceImmutable(e) == e.matches
AuthorityCurrent(e) == ~ e.expired
ShadowIsQuiet(e) == e.exposure = "shadow" => e.incident # "critical"
CanaryWithinBounds(e) == e.exposure = "canary" => e.bounded
NotPoisoned(e) == ~ e.poisoned
GuardsPass(e) ==
  /\ EvidenceImmutable(e) /\ AuthorityCurrent(e) /\ ShadowIsQuiet(e)
  /\ CanaryWithinBounds(e) /\ NotPoisoned(e)

(* checkEvidenceForStage.                                                  *)
EvidenceSuffices(to, e) ==
  CASE to = "tested" -> e.tests # "failed"
    [] to = "shadowed" -> e.exposure = "shadow" /\ e.incident \in {"none", "low"}
    [] to = "canary" -> e.exposure = "canary" /\ e.metrics /\ e.incident # "critical"
    [] to = "promoted" -> /\ e.tests = "all" /\ e.exposure = "canary" /\ e.metrics
                          /\ e.incident = "none" /\ ~ e.killed
    [] OTHER -> TRUE

Record(c, from, to, decision, number, key) ==
  [candidate |-> c, from |-> from, to |-> to, decision |-> decision,
   number |-> number, key |-> key]

(* getCandidateHistory, as positions of the log.                           *)
History(c) == {i \in DOMAIN transitions : transitions[i].candidate = c}

\* Fault: the caller's stage is not compared with the candidate's.
AdmissibleFromAnywhere(c, from, to, number, key) ==
  /\ ~ killed /\ stage[c] # "none"
  /\ \A i \in DOMAIN transitions : transitions[i].key # key
  /\ IsForwardTransition(from, to)
  /\ number = Cardinality(History(c))

(* What applyTransition asks before it looks at the evidence, in its order.*)
Admissible(c, from, to, number, key) ==
  /\ ~ killed
  /\ stage[c] # "none"
  /\ \A i \in DOMAIN transitions : transitions[i].key # key
  /\ stage[c] = from
  /\ stage[c] \in TERMINAL_STAGES => to = "quarantined"
  /\ IsForwardTransition(from, to)
  /\ number = Cardinality(History(c))

Init == /\ stage = [c \in Candidates |-> "none"] /\ transitions = <<>> /\ killed = FALSE

(* registerCandidate: a candidate is immutable, and starts as defined.     *)
RegisterCandidate(c) == stage[c] = "none" /\ stage' = [stage EXCEPT ![c] = "defined"]

(* defineCandidate, with an intent whose scope is not forbidden; a known   *)
(* candidate is refused.  The kill switch is not asked.                    *)
DefineCandidate(c, forbidden) ==
  /\ ~ forbidden /\ RegisterCandidate(c)
  /\ UNCHANGED <<transitions, killed>>

(* requestTransition with applyTransition: evidence that does not suffice  *)
(* leaves a record "incomplete", which uses up the number and the key.     *)
RequestTransition(c, from, to, number, key, e) ==
  /\ Len(transitions) < MaxRecords
  /\ GuardsPass(e)
  /\ Admissible(c, from, to, number, key)
  /\ IF EvidenceSuffices(to, e)
     THEN /\ stage' = [stage EXCEPT ![c] = to]
          /\ transitions' = Append(transitions, Record(c, from, to, "admit", number, key))
     ELSE /\ stage' = stage
          /\ transitions' = Append(transitions, Record(c, from, to, "incomplete", number, key))
  /\ UNCHANGED killed

(* activateKillSwitch leaves a record of no candidate.                     *)
ActivateKillSwitch ==
  /\ Len(transitions) < MaxRecords
  /\ killed' = TRUE
  /\ transitions' = Append(transitions, Record("kill-switch", "promoted", "quarantined", "admit",
                                               Len(transitions), "kill-switch"))
  /\ UNCHANGED stage

Next ==
  \/ ActivateKillSwitch
  \/ \E c \in Candidates, forbidden \in BOOLEAN : DefineCandidate(c, forbidden)
  \/ \E c \in Candidates, from, to \in Stages, number \in 0..MaxRecords, key \in Keys,
        e \in Evidences : RequestTransition(c, from, to, number, key, e)

Spec == Init /\ [][Next]_vars
-----------------------------------------------------------------------------
TypeOK ==
  /\ stage \in [Candidates -> Stages \cup {"none"}] /\ killed \in BOOLEAN
  /\ Len(transitions) <= MaxRecords

(* Of two records of a candidate the later starts where the earlier left   *)
(* it: at its target when that was admitted, at the same stage otherwise.  *)
Left(r) == IF r.decision = "admit" THEN r.to ELSE r.from
Before(i) == {j \in 1..i - 1 : transitions[j].candidate = transitions[i].candidate}

(* The record of every candidate can be replayed: its numbers count up     *)
(* from 0 without a gap, every record starts at the stage the ones before  *)
(* it lead to, no key is used twice, nothing follows a final stage but a   *)
(* quarantine, and the stage shown is the one the record ends at           *)
(* (applyTransition).                                                      *)
NumbersCountUp == \A i \in DOMAIN transitions :
  transitions[i].candidate \in Candidates => transitions[i].number = Cardinality(Before(i))
KeysAreUsedOnce == \A i, j \in DOMAIN transitions :
  transitions[i].candidate \in Candidates /\ transitions[i].key = transitions[j].key => i = j
StagesFollow ==
  /\ \A i \in DOMAIN transitions : transitions[i].candidate \in Candidates =>
       transitions[i].from = IF Before(i) = {} THEN "defined"
                             ELSE Left(transitions[CHOOSE j \in Before(i) : \A k \in Before(i) : k <= j])
  /\ \A c \in Candidates :
       IF History(c) = {} THEN stage[c] \in {"none", "defined"}
       ELSE stage[c] = Left(transitions[CHOOSE j \in History(c) : \A k \in History(c) : k <= j])
FinalIsFinal == \A i \in DOMAIN transitions :
  transitions[i].candidate \in Candidates /\ transitions[i].from \in TERMINAL_STAGES =>
    transitions[i].to = "quarantined"
RecordIsReplayable == NumbersCountUp /\ KeysAreUsedOnce /\ StagesFollow /\ FinalIsFinal
=============================================================================
