--------------------------- MODULE PipelineScheduler ---------------------------
(***************************************************************************)
(* The dependency-aware pipeline scheduler of the kernel                   *)
(* (kernel/runtime/pipeline-scheduler.ts) together with the two callers    *)
(* that decide what a run of it means: executePipelineForSite/-Workspace   *)
(* (kernel/runtime/execute-pipeline.ts), which close the shared result     *)
(* cache in a `finally`, and executeRegisteredCommand                      *)
(* (kernel/runtime/execute-command.ts), whose timeout abandons a command   *)
(* without stopping it.                                                    *)
(*                                                                         *)
(* The scheduler is a single-threaded event loop: an action below is the   *)
(* code that runs between two awaits.  The interleaving is that of the     *)
(* settling of the steps in flight and of the driver, which sleeps in      *)
(* Promise.race over the steps that were in flight when it went to sleep.  *)
(***************************************************************************)
EXTENDS Integers, Sequences, FiniteSets, Functions, TLC

CONSTANTS
    N,            \* number of steps of the pipeline
    Command,      \* command names
    Concurrency,  \* the --concurrency limit, a positive number
    Implicit,     \* stands for a step that declares no dependsOn
    Pipelines     \* the pipelines a run may be given

Step == 0 .. N - 1

ASSUME NAssumption == N \in Nat
ASSUME ConcurrencyAssumption == Concurrency \in Nat \ {0}
ASSUME PipelinesAssumption ==
    Pipelines \subseteq [Step -> [command   : Command,
                                  skip      : BOOLEAN,
                                  dependsOn : Seq(Command) \cup {Implicit}]]

VARIABLES
    steps,       \* the KernelPipelineStep[] of this run
    deps,        \* effectiveSchedule: for each step the steps it waits for
    driver,      \* where executeScheduledSteps and its caller stand
    completed, failed, skippedDueToFailure,
    inFlight,    \* keys of the inFlight map
    readyQueue,
    results,     \* step indices of the StepExecutionResult[], in push order
    thrown,      \* steps whose executeStep rejected
    raceSet,     \* the promises the driver's Promise.race was given
    race,        \* how that race has settled
    lingering,   \* timed-out commands whose body is still running
    cacheOpen,   \* the CacheLayer of the run has not been closed
    verdict      \* what the caller reports of the whole pipeline

schedulerVars == <<deps, completed, failed, skippedDueToFailure, inFlight,
                   readyQueue, results>>
callerVars == <<steps, lingering, cacheOpen, verdict>>
vars == <<driver, thrown, raceSet, race, callerVars, schedulerVars>>

-----------------------------------------------------------------------------
(* buildSchedule *)

DuplicateCommand(p) ==
    \E i, j \in Step : i # j /\ p[i].command = p[j].command

\* A dependsOn name that is missing from the pipeline, or that names the step
\* itself or a later one (a forward reference).
BadReference(p) ==
    \E i \in Step : /\ p[i].dependsOn # Implicit
                    /\ \E c \in Range(p[i].dependsOn) :
                          ~ \E j \in Step : j < i /\ p[j].command = c

\* The steps Kahn's algorithm cannot remove: each waits for another of them.
Circular(d) ==
    \E S \in SUBSET Step : S # {} /\ \A s \in S : Range(d[s]) \cap S # {}

\* The last non-skipped step before i, as a sequence of at most one step.
Previous(p, i) ==
    LET before == {j \in Step : /\ j < i
                                /\ ~p[j].skip
                                /\ \A k \in Step : (j < k /\ k < i) => p[k].skip}
    IN  IF before = {} THEN <<>> ELSE <<CHOOSE j \in before : TRUE>>

\* Fault: the schedule names commands instead of steps.
CommandsForIndices(p) ==
    [i \in Step |-> IF p[i].dependsOn = Implicit THEN Previous(p, i) ELSE p[i].dependsOn]

BuildSchedule(p) ==
    [i \in Step |->
        IF p[i].dependsOn = Implicit
        THEN Previous(p, i)
        ELSE [k \in DOMAIN p[i].dependsOn |->
                 CHOOSE j \in Step : p[j].command = p[i].dependsOn[k]]]

\* What makes buildSchedule throw.
ScheduleError(p) ==
    IF DuplicateCommand(p) \/ BadReference(p) THEN TRUE ELSE Circular(BuildSchedule(p))

\* With concurrency 1 the schedule is rebuilt: every step that is not marked
\* skip waits for the step before it and for nothing else.
SequentialSchedule(p) ==
    [i \in Step |-> IF i > 0 /\ ~p[i].skip THEN <<i - 1>> ELSE <<>>]

EffectiveSchedule(p) ==
    IF Concurrency = 1 THEN SequentialSchedule(p) ELSE BuildSchedule(p)

-----------------------------------------------------------------------------
(* The closures of executeScheduledSteps.  c, f and fly are the completed,  *)
(* failed and in-flight steps at the moment the closure runs.               *)

Deps(s) == Range(deps[s])

\* The step is blocked by a failure: the first dependency, in the order of
\* dependsOn, that has not completed has failed or was skipped.
DepFailed(s, c, f) ==
    \E k \in DOMAIN deps[s] :
        /\ deps[s][k] \in f \cup skippedDueToFailure
        /\ \A j \in DOMAIN deps[s] : j < k => deps[s][j] \in c

Considered(c, f, fly) ==
    Step \ (c \cup f \cup skippedDueToFailure \cup fly \cup Range(readyQueue))

\* Fault: a failure skips every later step.
SkipAllLater(roots, c, f) == {s \in Step \ (c \cup f) : \E r \in roots : r <= s}

\* markSkippedDueToFailure: the least set that holds roots and, with a step,
\* every dependent of it that has neither completed nor failed.
Cascade(roots, c, f) ==
    {s \in Step : \A S \in SUBSET Step :
        ( /\ roots \subseteq S
          /\ \A t \in Step \ (c \cup f) : Deps(t) \cap S # {} => t \in S )
        => s \in S}

NewlySkipped(c, f, fly) ==
    Cascade({s \in Considered(c, f, fly) : DepFailed(s, c, f)}, c, f)

\* Fault: a dependency counts when it has settled.
ReadyWhenSettled(c, f, fly) ==
    {s \in Considered(c, f, fly) : Deps(s) \subseteq c \cup f}

NewlyReady(c, f, fly) ==
    {s \in Considered(c, f, fly) : Deps(s) \subseteq c}

\* The one enumeration of S in index order (as a set, to be picked from).
InOrder(S) ==
    {q \in [1 .. Cardinality(S) -> S] :
        \A i, j \in 1 .. Cardinality(S) : i < j => q[i] < q[j]}

\* Fault: one slot too many.
OneSlotTooMany(c, f, fly) ==
    \E batch \in InOrder(NewlyReady(c, f, fly)) :
        LET queue == readyQueue \o batch
            free  == Concurrency + 1 - Cardinality(fly)
            k     == IF free < Len(queue) THEN free ELSE Len(queue)
        IN  /\ skippedDueToFailure' = skippedDueToFailure \cup NewlySkipped(c, f, fly)
            /\ inFlight' = fly \cup {queue[i] : i \in 1 .. k}
            /\ readyQueue' = SubSeq(queue, k + 1, Len(queue))

\* updateReady followed by the while loop of processReadyQueue: the newly
\* ready steps join the queue in index order, and steps leave it from the
\* front while a slot is free.  (The loop's two guards against entries that
\* have settled since they were queued never fire: see QueueFresh.)
ProcessReadyQueue(c, f, fly) ==
    \E batch \in InOrder(NewlyReady(c, f, fly)) :
        LET queue == readyQueue \o batch
            free  == Concurrency - Cardinality(fly)
            k     == IF free < Len(queue) THEN free ELSE Len(queue)
        IN  /\ skippedDueToFailure' = skippedDueToFailure \cup NewlySkipped(c, f, fly)
            /\ inFlight' = fly \cup {queue[i] : i \in 1 .. k}
            /\ readyQueue' = SubSeq(queue, k + 1, Len(queue))

-----------------------------------------------------------------------------
Init ==
    /\ steps \in Pipelines
    /\ deps = [s \in Step |-> <<>>]
    /\ driver = "building"
    /\ completed = {} /\ failed = {} /\ skippedDueToFailure = {}
    /\ inFlight = {} /\ readyQueue = <<>> /\ results = <<>>
    /\ thrown = {} /\ raceSet = {} /\ race = "pending"
    /\ lingering = {} /\ cacheOpen = TRUE /\ verdict = "none"

\* buildSchedule throws.  The caller calls it before its try block, so the
\* finally that closes the cache does not run.
RejectSchedule ==
    /\ driver = "building"
    /\ ScheduleError(steps)
    /\ driver' = "rejected"
    /\ verdict' = "error"
    /\ UNCHANGED <<steps, lingering, cacheOpen, thrown, raceSet, race, schedulerVars>>

\* buildSchedule succeeds; executeScheduledSteps fixes the effective schedule.
AcceptSchedule ==
    /\ driver = "building"
    /\ ~ScheduleError(steps)
    /\ deps' = EffectiveSchedule(steps)
    /\ driver' = "starting"
    /\ UNCHANGED <<completed, failed, skippedDueToFailure, inFlight, readyQueue,
                   results, thrown, raceSet, race, callerVars>>

\* Entering Promise.race over the steps now in flight.  A promise that has
\* already rejected settles it at once; with nothing in flight the loop does
\* not wait.
EnterRace ==
    /\ raceSet' = inFlight'
    /\ race' = IF inFlight' = {} THEN "resolved"
               ELSE IF inFlight' \cap thrown = {} THEN "pending" ELSE "rejected"

\* The processReadyQueue before the loop.
StartRun ==
    /\ driver = "starting"
    /\ ProcessReadyQueue(completed, failed, inFlight)
    /\ EnterRace
    /\ driver' = "racing"
    /\ UNCHANGED <<deps, completed, failed, results, thrown, callerVars>>

-----------------------------------------------------------------------------
(* One step of the pipeline settles.                                        *)

\* Fault: a rejection is swallowed.
RejectionSwallowed(s, how) ==
    /\ race' = IF race = "pending" /\ s \in raceSet /\ how = "resolved" THEN how ELSE race
    /\ UNCHANGED raceSet

\* The first promise of the race to settle decides it.
SettleRace(s, how) ==
    /\ race' = IF race = "pending" /\ s \in raceSet THEN how ELSE race
    /\ UNCHANGED raceSet

\* Fault: the slot is freed, and nobody fills it.
RecordWithoutRefill(s, c, f) ==
    /\ completed' = c /\ failed' = f /\ results' = Append(results, s)
    /\ inFlight' = inFlight \ {s}
    /\ SettleRace(s, "resolved")
    /\ UNCHANGED <<deps, driver, thrown, readyQueue, skippedDueToFailure>>

\* The continuation of `await executeStep(step)`: record the report, free the
\* slot, and start what that makes ready -- also after the run has thrown.
Record(s, c, f) ==
    /\ completed' = c
    /\ failed' = f
    /\ results' = Append(results, s)
    /\ ProcessReadyQueue(c, f, inFlight \ {s})
    /\ SettleRace(s, "resolved")
    /\ UNCHANGED <<deps, driver, thrown>>

\* The step's report is ok: the command succeeded, was cached, or the step is
\* marked skip.
StepSucceeds(s) ==
    /\ s \in inFlight \ thrown
    /\ Record(s, completed \cup {s}, failed)
    /\ UNCHANGED callerVars

\* The command exits non-zero or throws: executeRegisteredCommand reports it.
StepFails(s) ==
    /\ s \in inFlight \ thrown
    /\ ~steps[s].skip
    /\ Record(s, completed, failed \cup {s})
    /\ UNCHANGED callerVars

\* The timer of runWithOptionalTimeout wins the race against the command: the
\* step is reported failed and the command's promise is abandoned, running.
StepTimesOut(s) ==
    /\ s \in inFlight \ thrown
    /\ ~steps[s].skip
    /\ Record(s, completed, failed \cup {s})
    /\ lingering' = lingering \cup {s}
    /\ UNCHANGED <<steps, cacheOpen, verdict>>

\* executeStep itself rejects: the command is not registered, or the cache
\* lookup throws.  The entry stays in the inFlight map.
StepThrows(s) ==
    /\ s \in inFlight \ thrown
    /\ thrown' = thrown \cup {s}
    /\ SettleRace(s, "rejected")
    /\ UNCHANGED <<driver, callerVars, schedulerVars>>

\* The body of a timed-out command ends; nobody is told.
BodyEnds(s) ==
    /\ s \in lingering
    /\ lingering' = lingering \ {s}
    /\ UNCHANGED <<driver, thrown, raceSet, race, steps, cacheOpen, verdict, schedulerVars>>

-----------------------------------------------------------------------------
(* The driver wakes from Promise.race.                                      *)

\* q.sort by index.
Sorted(q) ==
    {r \in [DOMAIN q -> Range(q)] :
        /\ \A i, j \in DOMAIN q : i < j => r[i] <= r[j]
        /\ \E perm \in Bijection(DOMAIN q, DOMAIN q) : r = [i \in DOMAIN q |-> q[perm[i]]]}

\* processSkipped: the skipped steps without a result get one, in index order.
ReportSkipped(skips) ==
    {results \o late : late \in InOrder(skips \ Range(results))}

DriverContinues ==
    /\ driver = "racing" /\ race = "resolved"
    /\ ProcessReadyQueue(completed, failed, inFlight)
    /\ inFlight' # {}
    /\ results' \in ReportSkipped(skippedDueToFailure')
    /\ EnterRace
    /\ UNCHANGED <<driver, deps, completed, failed, thrown, callerVars>>

\* Nothing in flight and nothing ready: whatever has no result yet is marked
\* skipped (the fallback of the loop), and the sorted results are returned.
DriverReturns ==
    /\ driver = "racing" /\ race = "resolved"
    /\ inFlight = {} /\ readyQueue = <<>>
    /\ NewlyReady(completed, failed, inFlight) = {}
    /\ LET skips == skippedDueToFailure \cup NewlySkipped(completed, failed, inFlight)
           rest  == Step \ (Range(results) \cup skips)
       IN  /\ skippedDueToFailure' = skips \cup rest
           /\ \E reported \in ReportSkipped(skips), forced \in InOrder(rest) :
                 results' \in Sorted(reported \o forced)
    /\ driver' = "returned"
    /\ UNCHANGED <<deps, completed, failed, inFlight, readyQueue, thrown,
                   raceSet, race, callerVars>>

\* The race has rejected: executeScheduledSteps throws out of its loop.
DriverThrows ==
    /\ driver = "racing" /\ race = "rejected"
    /\ driver' = "threw"
    /\ UNCHANGED <<thrown, raceSet, race, callerVars, schedulerVars>>

\* Fault: the verdict is that of the last report.
ConcludeFromLast ==
    /\ driver \in {"returned", "threw"}
    /\ verdict' = IF driver = "threw" THEN "error"
                  ELSE IF results[Len(results)] \in failed THEN "failed" ELSE "ok"
    /\ cacheOpen' = FALSE
    /\ driver' = "concluded"
    /\ UNCHANGED <<steps, lingering, thrown, raceSet, race, schedulerVars>>

\* The caller derives the pipeline's verdict from the reports -- those of the
\* skipped steps say ok -- and its finally closes the cache.
Conclude ==
    /\ driver \in {"returned", "threw"}
    /\ verdict' = IF driver = "threw" THEN "error"
                  ELSE IF Range(results) \cap failed = {} THEN "ok" ELSE "failed"
    /\ cacheOpen' = FALSE
    /\ driver' = "concluded"
    /\ UNCHANGED <<steps, lingering, thrown, raceSet, race, schedulerVars>>

-----------------------------------------------------------------------------
Settle(s) == StepSucceeds(s) \/ StepFails(s) \/ StepTimesOut(s) \/ StepThrows(s)

Drive == \/ RejectSchedule \/ AcceptSchedule \/ StartRun
         \/ DriverContinues \/ DriverReturns \/ DriverThrows \/ Conclude

Next == Drive \/ \E s \in Step : Settle(s) \/ BodyEnds(s)

\* Continuations of settled promises run, and every command settles (a step
\* may instead run into its timeout); an abandoned body need not end.
Fairness == WF_vars(Drive) /\ \A s \in Step : WF_vars(Settle(s))

Spec == Init /\ [][Next]_vars
FairSpec == Spec /\ Fairness

-----------------------------------------------------------------------------
(* Properties.                                                              *)

Started == inFlight \cup completed \cup failed

TypeOK ==
    /\ steps \in Pipelines
    /\ deps \in [Step -> Seq(Step)]
    /\ driver \in {"building", "rejected", "starting", "racing", "returned",
                   "threw", "concluded"}
    /\ completed \subseteq Step /\ failed \subseteq Step
    /\ skippedDueToFailure \subseteq Step
    /\ inFlight \subseteq Step /\ readyQueue \in Seq(Step) /\ results \in Seq(Step)
    /\ thrown \subseteq Step /\ raceSet \subseteq Step
    /\ race \in {"pending", "resolved", "rejected"}
    /\ lingering \subseteq Step /\ cacheOpen \in BOOLEAN
    /\ verdict \in {"none", "ok", "failed", "error"}

\* A step starts only when everything it waits for has completed, and what it
\* waited for stays completed: a failure is never discovered after the fact.
DependenciesFirst == \A s \in Started : Deps(s) \subseteq completed

\* A step is skipped for a failure only because something it waits for failed
\* or was itself skipped: the loop's fallback never has to guess.
SkipsAreJustified ==
    \A s \in skippedDueToFailure : Deps(s) \cap (failed \cup skippedDueToFailure) # {}

\* A step has one fate: it is queued, or skipped, or in flight, or settled; and
\* what waits in the queue waits once and is still runnable.
QueueFresh ==
    /\ skippedDueToFailure \cap Started = {}
    /\ completed \cap failed = {}
    /\ inFlight \cap (completed \cup failed) = {}
    /\ Range(readyQueue) \cap (Started \cup skippedDueToFailure) = {}
    /\ \A i, j \in DOMAIN readyQueue : readyQueue[i] = readyQueue[j] => i = j
    /\ \A s \in Range(readyQueue) : Deps(s) \subseteq completed

\* Never more steps in flight than the limit.
ConcurrencyBound == Cardinality(inFlight) <= Concurrency

\* No lost wake-up: while the run is going a free slot and a runnable step never
\* coexist between two events (the queue is drained whenever a step settles).
WorkConserving ==
    driver = "racing" /\ Cardinality(inFlight) < Concurrency =>
        \A s \in Step : Deps(s) \subseteq completed =>
            s \in Started \cup skippedDueToFailure

\* A run that returns has exactly one result per step, in declaration order,
\* and has left nothing in flight.
ReturnsEveryResult ==
    driver = "returned" =>
        /\ results = [i \in 1 .. N |-> i - 1]
        /\ inFlight = {}

\* Skipped steps report ok: still a pipeline that is reported ok has run and
\* completed every one of its steps.
OkMeansAllCompleted == verdict = "ok" => completed = Step

\* Every run ends: its schedule is rejected or its caller gets an answer, even
\* when a step rejects while others are in flight.
RunConcludes == <>(driver \in {"rejected", "concluded"})

\* Before the schedule exists nothing has happened.
NothingBeforeSchedule ==
    driver \in {"building", "rejected"} =>
        Started = {} /\ skippedDueToFailure = {} /\ readyQueue = <<>>

\* Every step waits for earlier steps only, whichever schedule is in force.
BackwardDeps == \A s \in Step : \A d \in Deps(s) : d < s

\* Up to its return the run has a result for every settled step, and for no
\* step that is neither settled nor skipped; a run that has returned has
\* settled or skipped every step and kept the failures among its results.
ResultsRecorded ==
    /\ driver \notin {"returned", "concluded"} =>
          /\ completed \cup failed \subseteq Range(results)
          /\ Range(results) \subseteq completed \cup failed \cup skippedDueToFailure
    /\ driver = "returned" =>
          /\ Step \subseteq completed \cup failed \cup skippedDueToFailure
          /\ failed \subseteq Range(results)

\* The inductive invariant of the scheduler.
IInv ==
    /\ TypeOK
    /\ DependenciesFirst
    /\ SkipsAreJustified
    /\ QueueFresh
    /\ ConcurrencyBound
    /\ NothingBeforeSchedule
    /\ BackwardDeps
    /\ ResultsRecorded
    /\ OkMeansAllCompleted

-----------------------------------------------------------------------------
(* What a comment of the code claims and the code does not keep.            *)

\* With concurrency 1 a failure aborts the run ("full sequential mode with
\* abort-on-failure semantics"): no later step runs, steps marked skip aside.
SequentialAbort ==
    Concurrency = 1 =>
        \A f \in failed, s \in Started : s > f => steps[s].skip

\* The cache is closed "after pipeline completion" (ADR-0023), not while steps
\* of the run are still executing against it.
CacheClosedAfterCompletion == ~cacheOpen => inFlight \subseteq thrown

=============================================================================
