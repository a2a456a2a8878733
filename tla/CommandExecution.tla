------------------------- MODULE CommandExecution ---------------------------
(* One command called by name: where it is found, for which sites it runs, *)
(* through which adapter it may write, the race of its body with a timeout *)
(* and the report that answers (kernel/runtime/execute-command.ts,         *)
(* registry.ts, registry-cache.ts, kernel/workspace-io.ts).                *)
EXTENDS Naturals, FiniteSets, Sequences

CONSTANTS
  Commands,   \* name -> [scope, all, mutates]: what each command declares
  Workspace,  \* module -> the names the workspace configuration registers
  OwnOf,      \* site -> the names only its own configuration registers
  Sites,      \* the discovered sites with a configuration, in order
  Manifests,  \* command manifests that may lie on disk: name -> module
  Files,      \* what bodies write
  MaxCalls    \* bound of the model: calls

VARIABLES
  manifest,   \* the manifest, possibly older than the configuration
  call,       \* the call being answered
  bodies,     \* every body that was started, in order
  disk,       \* the bodies, by number, that wrote each file
  calls

vars == <<manifest, call, bodies, disk, calls>>

Names == DOMAIN Commands
None == "none"
NoCall == [phase |-> "idle", name |-> None, todo |-> <<>>, reports |-> <<>>, all |-> FALSE,
           dry |-> FALSE, bounded |-> FALSE]

(* buildRegistry: the modules one after the other; two modules that give a *)
(* name different bodies make it fail.  buildRegistryForModule: one.       *)
BuildRegistry == UNION {Workspace[m] : m \in DOMAIN Workspace}
BuildRegistryForModule(m) == Workspace[m]

(* executeKernelCommand looks the name up: in the module the manifest      *)
(* names, which must exist, then in all of them.                           *)
ManifestBroken(name) == manifest[name] # None /\ manifest[name] \notin DOMAIN Workspace
InWorkspace(name) ==
  \/ manifest[name] \in DOMAIN Workspace /\ name \in BuildRegistryForModule(manifest[name])
  \/ name \in BuildRegistry

(* assertAllSitesAllowed.                                                  *)
AllSitesAllowed(name, all) == all => Commands[name].all

(* ensureTargetSites, with the working directory in the first site.        *)
EnsureTargetSites(all, site) == IF all THEN Sites ELSE IF site = None THEN SubSeq(Sites, 1, 1) ELSE <<site>>

(* The adapter of an execution: read-only whatever the mode for a command  *)
(* that declares to change nothing, recording in a dry run.                *)
Adapter(name, dry) ==
  IF ~ Commands[name].mutates THEN "readonly" ELSE IF dry THEN "recording" ELSE "real"

Init ==
  /\ manifest \in Manifests
  /\ call = NoCall /\ bodies = <<>> /\ calls = 0
  /\ disk = [f \in Files |-> {}]

Target(name, all, site) ==
  IF InWorkspace(name) /\ Commands[name].scope = "workspace" THEN <<None>>
  ELSE EnsureTargetSites(all, site)

(* A call is refused with an error, or queued for its targets in order.    *)
ExecuteKernelCommand(name, all, site, dry, bounded) ==
  /\ call.phase = "idle" /\ calls < MaxCalls
  /\ calls' = calls + 1
  /\ ~ ManifestBroken(name)
  /\ InWorkspace(name) => AllSitesAllowed(name, all)
  /\ call' = [NoCall EXCEPT !.phase = "next", !.name = name, !.todo = Target(name, all, site),
                            !.all = all, !.dry = dry, !.bounded = bounded]
  /\ UNCHANGED <<manifest, bodies, disk>>

RefuseCall(name, all) ==
  /\ call.phase = "idle" /\ calls < MaxCalls
  /\ ManifestBroken(name) \/ (InWorkspace(name) /\ ~ AllSitesAllowed(name, all))
  /\ calls' = calls + 1
  /\ UNCHANGED <<manifest, call, bodies, disk>>

Runnable(site) ==
  \/ InWorkspace(call.name)
  \/ site # None /\ call.name \in OwnOf[site] /\ AllSitesAllowed(call.name, call.all)

(* executeRegisteredCommand: flags that do not resolve are reported, and   *)
(* the body is not started.                                                *)
FlagErrors ==
  /\ call.phase = "next" /\ call.todo # <<>> /\ Runnable(Head(call.todo))
  /\ call' = [call EXCEPT !.todo = Tail(@),
       !.reports = Append(@, [ok |-> FALSE, timeout |-> FALSE, files |-> {}, body |-> 0])]
  /\ UNCHANGED <<manifest, bodies, disk, calls>>

StartBody ==
  /\ call.phase = "next" /\ call.todo # <<>> /\ Runnable(Head(call.todo))
  /\ bodies' = Append(bodies, [adapter |-> Adapter(call.name, call.dry), site |-> Head(call.todo),
                               state |-> "running", intents |-> {}])
  /\ call' = [call EXCEPT !.phase = "race"]
  /\ UNCHANGED <<manifest, disk, calls>>

(* A site that knows no such command, or for which --all is not allowed,   *)
(* ends the call with an error: the reports it has are lost.               *)
Throw ==
  /\ call.phase = "next" /\ call.todo # <<>>
  /\ ~ Runnable(Head(call.todo))
  /\ call' = NoCall
  /\ UNCHANGED <<manifest, bodies, disk, calls>>

\* Fault: the answer lists the files of a body that failed as written.
AnswerWithFiles(ok, timeout) ==
  [ok |-> ok, timeout |-> timeout, files |-> bodies[Len(bodies)].intents, body |-> Len(bodies)]

(* The report of an execution: the intents its adapter recorded when it    *)
(* succeeded, no file when it failed or was given up.                      *)
Answer(ok, timeout) ==
  [ok |-> ok, timeout |-> timeout,
   files |-> IF ok THEN bodies[Len(bodies)].intents ELSE {}, body |-> Len(bodies)]

Answered(report) ==
  [call EXCEPT !.phase = "next", !.todo = Tail(@), !.reports = Append(@, report)]

(* A body, awaited or abandoned, writes through its adapter: the disk, the *)
(* record, or an error that ends it.                                       *)
Write(i, f) ==
  /\ bodies[i].state = "running" /\ bodies[i].adapter # "readonly"
  /\ f \notin bodies[i].intents
  /\ bodies' = [bodies EXCEPT ![i].intents = @ \cup {f}]
  /\ disk' = IF bodies[i].adapter = "real" THEN [disk EXCEPT ![f] = @ \cup {i}] ELSE disk
  /\ UNCHANGED <<manifest, call, calls>>

Awaited(i) == call.phase = "race" /\ i = Len(bodies)

(* The body ends, by itself or with the error of the read-only adapter.    *)
EndBody(i, ok) ==
  /\ bodies[i].state = "running"
  /\ bodies' = [bodies EXCEPT ![i].state = "ended"]
  /\ call' = IF Awaited(i) THEN Answered(Answer(ok, FALSE)) ELSE call
  /\ UNCHANGED <<manifest, disk, calls>>

(* Promise.race with the timeout: the body is left behind.                 *)
TimeOut ==
  /\ call.phase = "race" /\ call.bounded /\ bodies[Len(bodies)].state = "running"
  /\ call' = Answered(Answer(FALSE, TRUE))
  /\ UNCHANGED <<manifest, bodies, disk, calls>>

Return ==
  /\ call.phase = "next" /\ call.todo = <<>>
  /\ call' = NoCall
  /\ UNCHANGED <<manifest, bodies, disk, calls>>

Next ==
  \/ \E name \in Names, all, dry, bounded \in BOOLEAN, site \in {None, Sites[Len(Sites)]} :
       ExecuteKernelCommand(name, all, site, dry, bounded)
  \/ \E name \in Names, all \in BOOLEAN : RefuseCall(name, all)
  \/ FlagErrors \/ StartBody \/ Throw \/ TimeOut \/ Return
  \/ \E i \in DOMAIN bodies :
       (\E f \in Files : Write(i, f)) \/ (\E ok \in BOOLEAN : EndBody(i, ok))

Spec == Init /\ [][Next]_vars
-----------------------------------------------------------------------------
TypeOK ==
  /\ call.phase \in {"idle", "next", "race"} /\ calls \in 0..MaxCalls
  /\ \A i \in DOMAIN bodies : /\ bodies[i].state \in {"running", "ended"}
                              /\ bodies[i].intents \subseteq Files
  /\ \A f \in Files : disk[f] \subseteq DOMAIN bodies

(* A report that says "ok" lists what its body has written and no body is  *)
(* left to write more; a failed one lists nothing; a body still running    *)
(* behind its answer was reported as timed out.                            *)
ReportsMatchTheBodies ==
  \A k \in DOMAIN call.reports : LET r == call.reports[k] IN
    /\ r.ok => /\ bodies[r.body].state = "ended" /\ r.files = bodies[r.body].intents
    /\ ~ r.ok => r.files = {}
    /\ r.body # 0 /\ bodies[r.body].state = "running" => r.timeout

(* Nothing reaches the disk through the adapter of a dry run or of a       *)
(* command that declares to change nothing, however long its body goes on; *)
(* and of the bodies of a call that was not given up none overlap.         *)
OnlyRealRunsWrite ==
  /\ \A f \in Files, i \in DOMAIN bodies : i \in disk[f] => bodies[i].adapter = "real"
  /\ ~ (\E k \in DOMAIN call.reports : call.reports[k].timeout) =>
       \A k \in DOMAIN call.reports : call.reports[k].body # 0 =>
         bodies[call.reports[k].body].state = "ended"
=============================================================================
