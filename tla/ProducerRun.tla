---------------------------- MODULE ProducerRun -----------------------------
(* Producers of evidence: planning them in batches and running a batch     *)
(* under a semaphore with timeouts and retries, and resuming a run that    *)
(* failed (certification/orchestration/orchestrator.ts).                   *)
EXTENDS Naturals, FiniteSets, Sequences, SequencesExt

CONSTANTS
  Graphs,          \* the dependency graphs to run: sequences of nodes
  MaxParallelism,  \* config.maxParallelism, at least 1
  MaxRetries       \* config.maxRetries

VARIABLES
  nodes,      \* the graph the run was given
  plan,       \* what planProducers answered
  batch,      \* index of the batch executing
  at,         \* what the closure of each producer is doing
  attempt,    \* its attempt counter
  free,       \* Semaphore.available
  waiters,    \* Semaphore.waiters
  late,       \* handlers given up by their timeout and still running
  evidence,   \* allEvidence: the producers whose evidence was collected
  outcome,    \* what executeProducers returned
  resume      \* the resume point computed after a failure

vars == <<nodes, plan, batch, at, attempt, free, waiters, late, evidence, outcome, resume>>

Ids(g) == {g[i].producerId : i \in DOMAIN g}
Deps(g) == [p \in Ids(g) |-> (CHOOSE n \in ToSet(g) : n.producerId = p).dependsOn]

(* Levels(deps)[k]: the nodes whose longest chain of dependencies has at   *)
(* most k nodes.                                                           *)
Levels(deps) ==
  LET L[k \in 0..Cardinality(DOMAIN deps)] ==
        IF k = 0 THEN {} ELSE {n \in DOMAIN deps : ToSet(deps[n]) \subseteq L[k - 1]}
  IN  L
Acyclic(deps) == Levels(deps)[Cardinality(DOMAIN deps)] = DOMAIN deps

(* topoSort: a depth-first walk over the ids, each after what it depends   *)
(* on.  What a node adds is its own walk without what is sorted already.   *)
Sorted(ids, walk) ==
  FoldLeft(LAMBDA done, n : done \o SelectSeq(walk[n], LAMBDA d : d \notin ToSet(done)), <<>>, ids)
TopoSort(deps, ids) ==
  LET walk[k \in 0..Cardinality(DOMAIN deps)] ==
        [n \in DOMAIN deps |-> IF k = 0 THEN <<>> ELSE Append(Sorted(deps[n], walk[k - 1]), n)]
  IN  Sorted(ids, walk[Cardinality(DOMAIN deps)])

(* The rule a graph is refused with, or "ok".                              *)
PlanRule(g) ==
  IF Cardinality(Ids(g)) < Len(g) THEN "CERT-ORCHESTRATOR-01"
  ELSE IF \E n \in ToSet(g) : ~ ToSet(n.dependsOn) \subseteq Ids(g) THEN "CERT-ORCHESTRATOR-02"
  ELSE IF ~ Acyclic(Deps(g)) THEN "CERT-ORCHESTRATOR-02"
  ELSE "ok"

(* Batch i holds the producers whose longest chain of dependencies has i   *)
(* others, in the order of the depth-first walk.                           *)
PlanProducers(g) ==
  LET deps == Deps(g)
      sorted == TopoSort(deps, [i \in DOMAIN g |-> g[i].producerId])
      levels == Levels(deps)
      depth == CHOOSE d \in DOMAIN levels :
                 levels[d] = Ids(g) /\ \A e \in DOMAIN levels : levels[e] = Ids(g) => d <= e
  IN  IF PlanRule(g) # "ok" THEN <<>>
      ELSE [i \in 1..depth |-> SelectSeq(sorted, LAMBDA p : p \in levels[i] \ levels[i - 1])]

(* computeResumePoint: the first batch with a producer whose evidence is   *)
(* missing, or past the last one when there is nothing to resume.          *)
ResumeBatch(done) ==
  LET open == {i \in DOMAIN plan : ~ ToSet(plan[i]) \subseteq done}
  IN  IF open = {} THEN Len(plan) + 1 ELSE CHOOSE i \in open : \A j \in open : i <= j

(* No resume point computed yet, or the refusal to compute one.            *)
NoBatch == 0
NothingToResume == 99

(* Promise.allSettled over the batch: the closures run one after another   *)
(* up to their first await, so the first MaxParallelism get the semaphore. *)
Entered(b, p) ==
  IF b > Len(plan) THEN "idle"
  ELSE IF p \notin ToSet(plan[b]) THEN at[p]
  ELSE IF \E i \in 1..MaxParallelism : i <= Len(plan[b]) /\ plan[b][i] = p THEN "running"
  ELSE "waiting"

EnterBatch(b) ==
  /\ batch' = b
  /\ at' = [p \in DOMAIN at |-> Entered(b, p)]
  /\ attempt' = [p \in DOMAIN at |-> IF b <= Len(plan) /\ p \in ToSet(plan[b]) THEN 0 ELSE attempt[p]]
  /\ free' = IF b > Len(plan) \/ MaxParallelism < Len(plan[b]) THEN 0
             ELSE MaxParallelism - Len(plan[b])
  /\ waiters' = IF b > Len(plan) THEN <<>>
                ELSE SubSeq(plan[b], MaxParallelism + 1, Len(plan[b]))

Init ==
  /\ nodes \in Graphs
  /\ plan = <<>>
  /\ batch = 0
  /\ at = [p \in Ids(nodes) |-> "idle"]
  /\ attempt = [p \in Ids(nodes) |-> 0]
  /\ free = 0 /\ waiters = <<>> /\ late = {} /\ evidence = {}
  /\ outcome = "planning" /\ resume = NoBatch

Plan ==
  /\ outcome = "planning"
  /\ plan' = PlanProducers(nodes)
  /\ outcome' = IF PlanRule(nodes) # "ok" THEN PlanRule(nodes) ELSE "planned"
  /\ UNCHANGED <<nodes, batch, at, attempt, free, waiters, late, evidence, resume>>

Start ==
  /\ outcome = "planned"
  /\ EnterBatch(1)
  /\ outcome' = IF plan = <<>> THEN "ok" ELSE "running"
  /\ UNCHANGED <<nodes, plan, late, evidence, resume>>

\* Fault: the slot of a finished producer is both freed and handed on.
ReleaseTwice(p, end) ==
  LET woken == IF waiters = <<>> THEN {} ELSE {Head(waiters)}
  IN  /\ at' = [q \in DOMAIN at |-> IF q = p THEN end
                                    ELSE IF q \in woken THEN "running" ELSE at[q]]
      /\ free' = free + 1
      /\ waiters' = IF woken = {} THEN waiters ELSE Tail(waiters)

(* finally { semaphore.release() }: available++ and, in the same step, the *)
(* first waiter's available--.                                             *)
Release(p, end) ==
  LET woken == IF waiters = <<>> THEN {} ELSE {Head(waiters)}
  IN  /\ at' = [q \in DOMAIN at |-> IF q = p THEN end
                                    ELSE IF q \in woken THEN "running" ELSE at[q]]
      /\ free' = IF woken = {} THEN free + 1 ELSE free
      /\ waiters' = IF woken = {} THEN waiters ELSE Tail(waiters)

(* The handler answers before its timeout.                                 *)
Complete(p) ==
  /\ at[p] = "running"
  /\ Release(p, "completed")
  /\ UNCHANGED <<nodes, plan, batch, attempt, late, evidence, outcome, resume>>

(* The attempt ends in an error or in its timeout; a handler that timed    *)
(* out is only abandoned and runs on.                                      *)
FailAttempt(p, timedOut) ==
  /\ at[p] = "running"
  /\ late' = IF timedOut THEN late \cup {<<p, attempt[p]>>} ELSE late
  /\ \/ /\ attempt[p] < MaxRetries
        /\ at' = [at EXCEPT ![p] = "sleeping"]
        /\ UNCHANGED <<free, waiters>>
     \/ /\ attempt[p] = MaxRetries
        /\ Release(p, "failed")
  /\ UNCHANGED <<nodes, plan, batch, attempt, evidence, outcome, resume>>

(* The retry delay is over; the slot of the semaphore was kept.            *)
Retry(p) ==
  /\ at[p] = "sleeping"
  /\ at' = [at EXCEPT ![p] = "running"]
  /\ attempt' = [attempt EXCEPT ![p] = @ + 1]
  /\ UNCHANGED <<nodes, plan, batch, free, waiters, late, evidence, outcome, resume>>

(* An abandoned handler ends; nobody awaits what it returns.               *)
LateEnd(p) ==
  /\ \E l \in late : l[1] = p /\ late' = late \ {l}
  /\ UNCHANGED <<nodes, plan, batch, at, attempt, free, waiters, evidence, outcome, resume>>

Settled == \A p \in ToSet(plan[batch]) : at[p] \in {"completed", "failed"}
FirstFailure == CHOOSE i \in 1..Len(plan[batch]) + 1 :
  /\ i <= Len(plan[batch]) => at[plan[batch][i]] = "failed"
  /\ \A j \in 1..i - 1 : at[plan[batch][j]] = "completed"

(* The results are read in the order of the batch; the first rejection     *)
(* ends the run with the evidence read so far.                             *)
Collect ==
  /\ outcome = "running" /\ Settled
  /\ evidence' = evidence \cup {plan[batch][j] : j \in 1..FirstFailure - 1}
  /\ \/ /\ FirstFailure <= Len(plan[batch])
        /\ outcome' = "CERT-ORCHESTRATOR-04"
        /\ UNCHANGED <<batch, at, attempt, free, waiters>>
     \/ /\ FirstFailure > Len(plan[batch])
        /\ outcome' = IF batch = Len(plan) THEN "ok" ELSE "running"
        /\ EnterBatch(batch + 1)
  /\ UNCHANGED <<nodes, plan, late, resume>>

(* computeResumePoint on the operation the failed run leaves behind.       *)
ComputeResumePoint ==
  /\ outcome = "CERT-ORCHESTRATOR-04" /\ resume = NoBatch
  /\ resume' = IF ResumeBatch(evidence) > Len(plan) THEN NothingToResume
               ELSE ResumeBatch(evidence)
  /\ UNCHANGED <<nodes, plan, batch, at, attempt, free, waiters, late, evidence, outcome>>

-----------------------------------------------------------------------------
TypeOK ==
  /\ nodes \in Graphs /\ batch \in 0..Len(plan) + 1 /\ free \in 0..MaxParallelism
  /\ at \in [Ids(nodes) -> {"idle", "waiting", "running", "sleeping", "completed", "failed"}]
  /\ attempt \in [Ids(nodes) -> 0..MaxRetries]
  /\ evidence \subseteq Ids(nodes)
  /\ outcome \in {"planning", "planned", "running", "ok", "CERT-ORCHESTRATOR-01",
                  "CERT-ORCHESTRATOR-02", "CERT-ORCHESTRATOR-04"}

Busy == {p \in DOMAIN at : at[p] \in {"running", "sleeping"}}

(* A slot of the semaphore is either free or held by one producer, through *)
(* every retry, and none is free while somebody waits.                     *)
SlotsAreConserved ==
  outcome = "running" =>
    /\ Cardinality(Busy) + free = MaxParallelism
    /\ waiters # <<>> => free = 0

(* A producer starts only when the evidence of all it depends on is in.    *)
DependenciesAreIn == \A p \in Busy : ToSet(Deps(nodes)[p]) \subseteq evidence

(* "ok" means evidence of every producer of the graph; a refused graph     *)
(* starts nobody.                                                          *)
OkIsComplete ==
  /\ outcome = "ok" => evidence = Ids(nodes)
  /\ plan = <<>> => \A p \in DOMAIN at : at[p] = "idle"

(* A failed run is resumed at the batch that failed: no finished batch is  *)
(* repeated and no unfinished one is passed over.                          *)
ResumesWhereItFailed == resume # NoBatch => resume = batch

(* A run of producers keeps its parallelism, its order and its evidence,   *)
(* whatever times out, retries or fails (executeProducers).                *)
ProducersRunInOrder ==
  /\ SlotsAreConserved /\ DependenciesAreIn /\ OkIsComplete /\ ResumesWhereItFailed

Next ==
  \/ Plan \/ Start \/ Collect \/ ComputeResumePoint
  \/ \E p \in DOMAIN at :
       \/ Complete(p) \/ Retry(p) \/ LateEnd(p)
       \/ \E timedOut \in BOOLEAN : FailAttempt(p, timedOut)
=============================================================================
