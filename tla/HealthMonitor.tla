--------------------------- MODULE HealthMonitor ----------------------------
(* Continuous health of a certified candidate: schedule windows that are   *)
(* delivered late or twice, the health each window finds, revocation, and  *)
(* the recovery of a monitor that crashed within a window                  *)
(* (certification/health/monitor.ts).  The driver that calls these         *)
(* functions is outside the repository.                                    *)
EXTENDS Naturals, FiniteSets, Sequences, SequencesExt

CONSTANTS
  Windows,      \* ids of schedule windows
  DriftAction,  \* the profile's action for a failed requirement
  Threshold,    \* degraded windows in a row that revoke
  MaxDeliveries \* bound of the model

VARIABLES
  windows,     \* priorWindows: every delivery, in order
  cycle,       \* the cycle under way: its window and what was persisted
  decisions,   \* health decisions appended: window, health, action
  incidents,   \* windows an incident was created for
  health,      \* the projected health
  degraded     \* consecutive degraded windows of the projection

vars == <<windows, cycle, decisions, incidents, health, degraded>>

NoCycle == [phase |-> "idle", window |-> 0, found |-> "none", due |-> FALSE]
Findings == [fail : BOOLEAN, stale : BOOLEAN, incomplete : BOOLEAN, outage : BOOLEAN]

(* evaluateHealth: failures count before stale evidence and that before    *)
(* incomplete evidence; a shared outage never makes the profile's action.  *)
EvaluateHealth(f) ==
  IF f.fail THEN [health |-> "degraded", incident |-> TRUE,
                  action |-> IF f.outage THEN "incident-only" ELSE DriftAction]
  ELSE IF f.stale THEN [health |-> "degraded", incident |-> f.outage,
                        action |-> IF f.outage THEN "incident-only" ELSE "retry"]
  ELSE [health |-> IF f.incomplete THEN "degraded" ELSE "current",
        incident |-> FALSE, action |-> "retry"]

(* classifyDriftCause, of a requirement whose evidence expired or not.     *)
ClassifyDriftCause(status, expired, outage) ==
  IF outage THEN "shared-infrastructure-outage"
  ELSE IF expired THEN "expired-evidence"
  ELSE IF status = "fail" THEN "candidate-specific-regression"
  ELSE IF status = "incomplete" THEN "late-evidence" ELSE "public-output-drift"

\* Fault: a window delivered again is evaluated again.
EffectiveAgain(w, started) ==
  LET prior == SelectSeq(windows, LAMBDA x : x.effective)
  IN  prior # <<>> => Last(prior).completed = 0 \/ Last(prior).completed <= started

(* evaluateScheduleWindow: a window already seen, or begun before the last *)
(* effective one was completed, has no effect.                             *)
Effective(w, started) ==
  /\ \A i \in DOMAIN windows : windows[i].id # w
  /\ LET prior == SelectSeq(windows, LAMBDA x : x.effective)
     IN  prior # <<>> => Last(prior).completed = 0 \/ Last(prior).completed <= started

(* shouldRevoke.                                                           *)
ShouldRevoke(h, n) == h = "degraded" /\ n >= Threshold

(* isHealthTransitionValid: every change between the three is.             *)
HealthTransitionValid(from, to) == {from, to} \subseteq {"current", "degraded", "revoked"}

(* evaluateMonitorRecovery, from what the cycle had persisted.             *)
ResumeFrom(c) ==
  IF c.projected THEN "complete"
  ELSE IF c.appended /\ ~ c.incident THEN "incident"
  ELSE IF c.appended THEN "projection"
  ELSE IF c.completed THEN "health-decision" ELSE "requirements"

Persisted(incident) ==
  [projected |-> FALSE, incident |-> incident,
   appended |-> cycle.phase \in {"incident", "projection"},
   completed |-> cycle.phase \in {"health-decision", "incident", "projection"}]

Init == /\ windows = <<>> /\ cycle = NoCycle /\ decisions = <<>> /\ incidents = {}
        /\ health = "current" /\ degraded = 0

Deliver(w, started) ==
  /\ cycle.phase = "idle" /\ Len(windows) < MaxDeliveries
  /\ LET effective == Effective(w, started)
     IN  /\ windows' = Append(windows, [id |-> w, effective |-> effective, completed |-> 0])
         /\ cycle' = IF effective THEN [NoCycle EXCEPT !.phase = "requirements", !.window = w]
                     ELSE cycle
  /\ UNCHANGED <<decisions, incidents, health, degraded>>

RunRequirements(f) ==
  /\ cycle.phase = "requirements"
  /\ cycle' = [cycle EXCEPT !.phase = "health-decision", !.found = EvaluateHealth(f).health,
                            !.due = EvaluateHealth(f).incident]
  /\ UNCHANGED <<windows, decisions, incidents, health, degraded>>

(* The decision is appended; an incident follows when one is due.          *)
AppendDecision ==
  /\ cycle.phase = "health-decision"
  /\ decisions' = Append(decisions, [window |-> cycle.window, health |-> cycle.found])
  /\ cycle' = [cycle EXCEPT !.phase = IF cycle.due THEN "incident" ELSE "projection"]
  /\ UNCHANGED <<windows, incidents, health, degraded>>

CreateIncident ==
  /\ cycle.phase = "incident"
  /\ incidents' = incidents \cup {cycle.window}
  /\ cycle' = [cycle EXCEPT !.phase = "projection"]
  /\ UNCHANGED <<windows, decisions, health, degraded>>

(* buildHealthProjection; the window is completed.                         *)
Project ==
  /\ cycle.phase = "projection"
  /\ LET h == Last(decisions).health
         n == IF h = "degraded" THEN degraded + 1 ELSE 0
     IN  /\ degraded' = n
         /\ health' = IF ShouldRevoke(h, n) THEN "revoked" ELSE h
         /\ HealthTransitionValid(health, health')
  /\ windows' = [windows EXCEPT ![Len(windows)].completed = Len(windows)]
  /\ cycle' = NoCycle
  /\ UNCHANGED <<decisions, incidents>>

(* The monitor crashes and goes on where evaluateMonitorRecovery says: the *)
(* requirements run again, and an incident is created once a decision      *)
(* stands without one, due or not.                                         *)
Crash ==
  /\ cycle.phase # "idle"
  /\ cycle' = [cycle EXCEPT !.phase = ResumeFrom(Persisted(cycle.window \in incidents))]
  /\ UNCHANGED <<windows, decisions, incidents, health, degraded>>

Next ==
  \/ \E w \in Windows, t \in 0..MaxDeliveries : Deliver(w, t)
  \/ \E f \in Findings : RunRequirements(f)
  \/ AppendDecision \/ CreateIncident \/ Project \/ Crash
-----------------------------------------------------------------------------
TypeOK ==
  /\ Len(windows) <= MaxDeliveries /\ incidents \subseteq Windows
  /\ cycle.phase \in {"idle", "requirements", "health-decision", "incident", "projection"}
  /\ health \in {"current", "degraded", "revoked"} /\ degraded \in 0..MaxDeliveries

(* However windows are delivered and the monitor crashes, each window is   *)
(* decided once, the projection has counted every decision of a completed  *)
(* window once, and health is revoked only after that many degraded        *)
(* windows in a row.                                                       *)
WindowsCountOnce ==
  /\ \A i, j \in DOMAIN decisions : decisions[i].window = decisions[j].window => i = j
  /\ Len(decisions) = Cardinality({i \in DOMAIN windows : windows[i].completed > 0})
                      + (IF cycle.phase \in {"incident", "projection"} THEN 1 ELSE 0)
  /\ health = "revoked" =>
       LET done == IF cycle.phase \in {"incident", "projection"} THEN Front(decisions) ELSE decisions
       IN  /\ Len(done) >= Threshold
           /\ \A i \in Len(done) - Threshold + 1..Len(done) : done[i].health = "degraded"
=============================================================================
