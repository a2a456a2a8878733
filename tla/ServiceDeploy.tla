---------------------------- MODULE ServiceDeploy ---------------------------
(* Services beside the sites: leitstand.service.dev-deploy, .promote and   *)
(* leitstand.rollback --service.  Each holds the lock of its own service;  *)
(* services/registry.yaml holds the entries of all of them and is read and *)
(* written back whole (leitstand/service-*.ts, sternsystem/registry-io.ts).*)
EXTENDS Naturals, FiniteSets, Sequences

CONSTANTS
  Services,  \* entries of services/registry.yaml
  Procs,     \* terminals and agents
  MaxOps     \* bound of the model: operations

VARIABLES
  registry,  \* services/registry.yaml: lastDevDeployed, lastDeployed, workersDevUrl
  lock,      \* the lock service:<id>, and whether its holder still lives
  worker,    \* the Workers of a service: every operation that was live, 0 before all
             \* others, the last one is
  proc,      \* the command each process runs
  smoked,    \* history: operations whose smoke run failed
  ops

vars == <<registry, lock, worker, proc, smoked, ops>>

Targets == {"dev", "prod"}
Free == [by |-> "free", alive |-> TRUE]
NoRecord == [op |-> 0, state |-> "none"]
Entry == [dev |-> NoRecord, prod |-> NoRecord, url |-> 0]
Idle == [at |-> "idle", cmd |-> "none", service |-> "none", op |-> 0, url |-> 0,
         state |-> "none", read |-> <<>>]
Commands == {"dev-deploy", "promote", "rollback"}
Target(p) == IF proc[p].cmd = "dev-deploy" THEN "dev" ELSE "prod"

Init ==
  /\ registry = [s \in Services |-> Entry]
  /\ lock = [s \in Services |-> Free]
  /\ worker = [s \in Services |-> [t \in Targets |-> <<0>>]]
  /\ proc = [p \in Procs |-> Idle] /\ smoked = {} /\ ops = 0

Goto(p, at) == proc' = [proc EXCEPT ![p].at = at]
(* finally: releaseServiceLock, by the name of the service.                *)
Leave(p) ==
  /\ lock' = [lock EXCEPT ![proc[p].service] = Free]
  /\ proc' = [proc EXCEPT ![p] = Idle]

AcquireServiceLock(p, s) ==
  lock[s] = Free /\ lock' = [lock EXCEPT ![s] = [by |-> p, alive |-> TRUE]]

(* The entry is read before the lock is taken; --service, the directory and *)
(* the wrangler configuration have been checked.                            *)
Start(p, s, cmd, first) ==
  /\ proc[p].at = "idle" /\ ops < MaxOps
  /\ AcquireServiceLock(p, s) /\ ops' = ops + 1
  /\ proc' = [proc EXCEPT ![p] = [Idle EXCEPT !.at = first, !.cmd = cmd, !.service = s,
                                    !.op = ops + 1, !.url = registry[s].url]]
  /\ UNCHANGED <<registry, worker, smoked>>

StartServiceDevDeploy(p, s) == Start(p, s, "dev-deploy", "gates")
StartServicePromote(p, s) == Start(p, s, "promote", "gates")
StartServiceRollback(p, s) == Start(p, s, "rollback", "wrangler")

(* runPreDeployGates, in order until one fails, and runBuildCheck in any   *)
(* case: any failure ends the command with nothing recorded.               *)
RunPreDeployGates(p, cmd, next, pass) ==
  /\ proc[p].at = "gates" /\ proc[p].cmd = cmd
  /\ IF pass THEN Goto(p, next) /\ UNCHANGED lock ELSE Leave(p)
  /\ UNCHANGED <<registry, worker, smoked, ops>>

DevDeployGates(p, pass) == RunPreDeployGates(p, "dev-deploy", "wrangler", pass)
PromoteGates(p, pass) == RunPreDeployGates(p, "promote", "evidence", pass)

(* promote: missing subdomains are registered, which may fail; a check that *)
(* cannot run is skipped.                                                   *)
ValidateSubdomains(registered) == registered
(* runTestEvidenceGate: L1, L2 and L5 for HEAD; it throws when they fail,   *)
(* and before the end of the grace period not when they cannot be had.      *)
RunTestEvidenceGate(p, registered, evidence) ==
  /\ proc[p].at = "evidence"
  /\ IF ValidateSubdomains(registered) /\ evidence THEN Goto(p, "wrangler") /\ UNCHANGED lock ELSE Leave(p)
  /\ UNCHANGED <<registry, worker, smoked, ops>>

Uploaded(s, t, op) == worker' = [worker EXCEPT ![s][t] = Append(@, op)]

\* Fault: what wrangler answers is not looked at.
DeployAssumed(p, exit, arrived, url) ==
  /\ proc[p].at = "wrangler" /\ proc[p].cmd # "rollback"
  /\ IF arrived THEN Uploaded(proc[p].service, Target(p), proc[p].op) ELSE UNCHANGED worker
  /\ proc' = [proc EXCEPT ![p].at = "probe", ![p].state = "succeeded"]
  /\ UNCHANGED <<registry, lock, smoked, ops>>

(* runWranglerDeploy: 0 only when the version is live; a failure may have   *)
(* come after the upload.  A dev deploy takes the URL it prints or none,    *)
(* promote the one the registry had when it prints none.                    *)
RunWranglerDeploy(p, exit, arrived, url) ==
  /\ proc[p].at = "wrangler" /\ proc[p].cmd # "rollback" /\ (exit = 0 => arrived)
  /\ IF arrived THEN Uploaded(proc[p].service, Target(p), proc[p].op) ELSE UNCHANGED worker
  /\ proc' = [proc EXCEPT ![p].at = IF exit = 0 THEN "probe" ELSE "record",
       ![p].state = IF exit = 0 THEN "succeeded" ELSE "failed",
       ![p].url = IF url THEN proc[p].op ELSE IF proc[p].cmd = "promote" THEN @ ELSE 0]
  /\ UNCHANGED <<registry, lock, smoked, ops>>

(* runSmokeCheck: nothing to run without a URL; a run that throws or brings *)
(* no data counts as none.                                                 *)
SmokeStatuses(p) == IF proc[p].url = 0 THEN {"none"} ELSE {"none", "pass", "fail"}

(* Health is only reported.  A failing smoke run is fatal for promote,     *)
(* whose version stays live.  Integration tests after a dev deploy are     *)
(* warnings.                                                               *)
RunSmokeCheck(p, status) ==
  /\ proc[p].at = "probe"
  /\ status \in SmokeStatuses(p)
  /\ proc' = [proc EXCEPT ![p].at = "record",
       ![p].state = IF status = "fail" /\ proc[p].cmd = "promote" THEN "failed" ELSE @]
  /\ smoked' = IF status = "fail" THEN smoked \cup {proc[p].op} ELSE smoked
  /\ UNCHANGED <<registry, lock, worker, ops>>

(* runWranglerRollback without a version: the one before the current.  A    *)
(* failure is not recorded, a success as a failed deploy.                   *)
RunWranglerRollback(p, exit) ==
  LET live == worker[proc[p].service]["prod"]
  IN  /\ proc[p].at = "wrangler" /\ proc[p].cmd = "rollback"
      /\ IF exit = 0 /\ Len(live) > 1
         THEN /\ Uploaded(proc[p].service, "prod", live[Len(live) - 1])
              /\ proc' = [proc EXCEPT ![p].at = "record", ![p].state = "failed"]
              /\ UNCHANGED lock
         ELSE Leave(p) /\ UNCHANGED worker
      /\ UNCHANGED <<registry, smoked, ops>>

(* recordDevDeployState and recordProdDeployState read the whole registry,  *)
(* then write it back with the entry changed; so does updateWorkersDevUrl.  *)
ReadServicesRegistry(p, at, next) ==
  /\ proc[p].at = at
  /\ proc' = [proc EXCEPT ![p].at = next, ![p].read = <<registry>>]
  /\ UNCHANGED <<registry, lock, worker, smoked, ops>>

RecordDeployState(p, commands) ==
  /\ proc[p].at = "recording" /\ proc[p].cmd \in commands
  /\ registry' = [proc[p].read[1] EXCEPT ![proc[p].service][Target(p)] =
                    [op |-> proc[p].op, state |-> proc[p].state]]
  /\ IF proc[p].state = "succeeded" /\ proc[p].url # 0
     THEN UNCHANGED lock /\ proc' = [proc EXCEPT ![p].at = "url", ![p].read = <<>>]
     ELSE Leave(p)
  /\ UNCHANGED <<worker, smoked, ops>>

RecordDevDeployState(p) == RecordDeployState(p, {"dev-deploy"})
RecordProdDeployState(p) == RecordDeployState(p, {"promote", "rollback"})

UpdateWorkersDevUrl(p) ==
  /\ proc[p].at = "url-write"
  /\ registry' = [proc[p].read[1] EXCEPT ![proc[p].service].url = proc[p].url]
  /\ Leave(p)
  /\ UNCHANGED <<worker, smoked, ops>>

Crash(p) ==
  /\ proc[p].at # "idle"
  /\ lock' = [lock EXCEPT ![proc[p].service] = IF @.by = p THEN [@ EXCEPT !.alive = FALSE] ELSE @]
  /\ proc' = [proc EXCEPT ![p] = Idle]
  /\ UNCHANGED <<registry, worker, smoked, ops>>

(* werkstatt.lock.recover, once the holder is gone.                         *)
RecoverLock(s) ==
  /\ lock[s] # Free /\ ~ lock[s].alive
  /\ lock' = [lock EXCEPT ![s] = Free]
  /\ UNCHANGED <<registry, worker, proc, smoked, ops>>

Next ==
  \/ \E p \in Procs :
       \/ \E s \in Services : \/ StartServiceDevDeploy(p, s) \/ StartServicePromote(p, s)
                              \/ StartServiceRollback(p, s)
       \/ \E b, c \in BOOLEAN : DevDeployGates(p, b) \/ PromoteGates(p, b) \/ RunTestEvidenceGate(p, b, c)
       \/ \E exit \in {0, 1}, arrived, url \in BOOLEAN : RunWranglerDeploy(p, exit, arrived, url)
       \/ \E status \in {"none", "pass", "fail"} : RunSmokeCheck(p, status)
       \/ \E exit \in {0, 1} : RunWranglerRollback(p, exit)
       \/ ReadServicesRegistry(p, "record", "recording") \/ RecordDevDeployState(p)
       \/ RecordProdDeployState(p)
       \/ ReadServicesRegistry(p, "url", "url-write") \/ UpdateWorkersDevUrl(p) \/ Crash(p)
  \/ \E s \in Services : RecoverLock(s)

Spec == Init /\ [][Next]_vars
-----------------------------------------------------------------------------
TypeOK ==
  /\ ops \in 0..MaxOps /\ smoked \subseteq 1..ops
  /\ \A s \in Services, t \in Targets :
       /\ registry[s][t].op \in 0..ops /\ registry[s][t].state \in {"none", "succeeded", "failed"}
       /\ \A i \in DOMAIN worker[s][t] : worker[s][t][i] \in 0..ops

Served(s, t) == {worker[s][t][i] : i \in DOMAIN worker[s][t]}

(* Whatever entries are lost when two services write the registry at once: *)
(* an entry that says a deploy succeeded names an operation that went live *)
(* on that Worker of that service, for production one whose smoke run did  *)
(* not fail, and two commands are never at work on one service.            *)
RegistryIsTruthful ==
  /\ \A s \in Services, t \in Targets :
       registry[s][t].state = "succeeded" =>
         /\ registry[s][t].op \in Served(s, t)
         /\ t = "prod" => registry[s][t].op \notin smoked
  /\ \A p, q \in Procs : p # q /\ proc[p].at # "idle" /\ proc[q].at # "idle" =>
       proc[p].service # proc[q].service
=============================================================================
