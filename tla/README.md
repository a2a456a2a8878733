# Verification of the Werkstatt platform

TLA+ models of the Werkstatt repository, the TLC configurations that check them
on small instances, and TLAPS proofs of the properties that matter most.  Every
definition is translated from the TypeScript source; `PROJECT.json` names the
lines each definition stands for.  Paths are relative to the repository's
`src/` directory unless they start with it.

Contents: [1 The system](#1-the-system) · [2 The modules](#2-the-modules) ·
[3 The runs](#3-the-runs) · [4 The proofs](#4-the-proofs) ·
[5 Findings](#5-findings) · [6 What the code does not keep](#6-what-the-code-does-not-keep) ·
[7 What is not modelled](#7-what-is-not-modelled) · [8 Plan](#8-plan)

## 1 The system

Werkstatt is a build, certification and deployment kernel for a workspace of web
sites.  Every command is one Node.js process with a single-threaded event loop:
code between two `await`s is atomic, everything else interleaves.  Several such
processes (terminals, CI jobs, agents) share the workspace's files, and files are
the only state that survives a crash.

### 1.1 Components

State, operations and correctness of the parts with logic of their own.  "M" is
modelled, "P" partly; `PROJECT.json` lists all components, the ones that are not
modelled too, with the reason.

| component | source | state it keeps | operations | how it interacts | hard parts | what makes it correct | |
|---|---|---|---|---|---|---|---|
| pipeline scheduler | `kernel/runtime/pipeline-scheduler.ts` | completed, failed, skipped and in-flight sets, ready queue, results | build the schedule, start, settle, skip, return | called by the executor, calls the step's command | settlings interleave, a step may reject or time out, skips are transitive | dependencies first, no skip without a cause, the limit, a truthful verdict, an end | M |
| pipeline executor, kernel cache | `kernel/runtime/execute-pipeline.ts`, `kernel/cache/` | entries by input hash, mtimes, the file of cache hits, telemetry | run, cached read, skip by hit, persist, close | wraps the scheduler, shares the cache with other processes | hits imported from another pipeline, file rewritten without a lock | a cached answer is the answer of the present tree | P |
| command executor, argv | `kernel/runtime/{execute-command,registry,argv}.ts` | the registry, reports | resolve, run with a timeout, answer; parse flags | every command passes it | a timed-out body runs on | a report tells what the body did; only real runs write | P |
| component runtime | `component-runtime/` | lifecycle, operations, effects, children of fibers; an activation transaction | register, run, drain, dispose; resolve, prepare, commit, abort, reconcile | fibers form a tree under activation | operations settle during drain, failing disposers, an abort racing a drain | nothing runs after drained, nothing left after disposed, a commit replaces the prior set | P |
| mission | `mission/` | `mission.yaml`, evidence, workpiece, materialization cache | open, materialize, git.commit, validate, build, reconcile, close, abort | writes the bordbuch, pushes through sternsystem, feeds release | pushes fail, crashes between files, stale manifests, locks lost and recovered | one open mission, work is delivered and validated, the end is on record, what is materialized is current | P |
| sternsystem | `sternsystem/` | `system-state.yaml`, configs, pins, mirrors | state write, mirror sync, register, amend, pin, extract, validate | called by mission and release | a failed push is only warned about; a registration is taken back step by step | clone, bare repository and mirrors agree; a registration is whole or absent | P |
| bordbuch | `bordbuch/` | `events.ndjson`, a hash chain | append, validate, repair, commit, push | every other component appends | read, append and commit are three steps | the chain has no gap, what is published stays | P |
| release | `release/` | `releases/<id>`, archive, the name of a release in three files | prepare, ready, validate | certify and deploys read it | two preparations, replaced directories, reused distributions | a release number means one content, is named once and is signed when fresh | P |
| leitstand | `leitstand/` | deployment records, gate decisions, channel state, the registry of services | certify, dev-deploy, propagate, promote, rollback, status, services | reads releases and decisions, calls Cloudflare | lost answers, kills, stale decisions, no common lock | what serves was cleared, records are true | P |
| certification | `certification/` | evidence, decisions, dossier, stores, health projection, cutover marker | run producers, evaluate, decide, append, store, retain, monitor, recover, clean up | feeds the leitstand | retries overlapping their timeout, crashes, windows delivered twice | producers run in order, decisions can be reproduced, a crash is recovered safely, the dossier only grows | P |
| nachweis | `nachweis/` | entity and consent files, ledger entries, public manifest | ingest, derive, assess, sign, timestamp, approve, consent, publish, withdraw, manifest | appends to the bordbuch under locks | three files without a common lock, stale copies, refused locks | nothing public is uncleared, approvals are backed, a success is complete | P |
| evolution | `evolution/` | stage and transition records of a candidate | define, evaluate, transition, quarantine, kill | certification, operator | order of the guards, keys used again | the record can be replayed | M |
| deploy, artifact stores | `deploy/`, `artifact-store/`, `capability-artifacts/` | links `current` and `previous`, artifacts, manifests | build, verify, swap, roll back, collect; put, find, admit | one host | collector against swap, crash between two renames | links name whole artifacts; what was stored is found | M/P |
| gitmesh, swim, dht | `kernel/{gitmesh,swim,dht}` | lock file, refs; genome log; registry, cache, capacities | sync, verify; join, leave, merge; publish, look up, place | peers | stale lock taken over, equal timestamps, table rewritten by two | no commit is lost, peers with one log see the same | P |
| isolation, agent gate | `isolation/`, `agent-gate/` | active requests, rate windows | invoke, fail, admit | sandboxed components, HTTP clients | a limit at its boundary | a slot is given back; a burst is bounded | P |
| integrity, signing | `integrity/` | identities, revisions, hashes and bindings of files; keys, signatures | init, update, backfill, verify; record, keys, sign, verify release | release, site | four files written one after another; a signature kept | a bound path is known and agrees; a signature is over what lies there | P |
| zone | `dns/`, `subdomain/`, `customdomain/` | records, routes, rules of a DNS zone | upsert, delete, validate, register | Cloudflare API | lost answers, retries, two operators | a zone ends as it was asked to | P |
| notausgang | `notausgang/` | export packages | export, validate | reads mission, bordbuch, release, site | everything may change between two parts | a published package is whole | M |

The rest is stateless (validation, discovery, reports, text transformation,
cryptography) or an adapter of an external service; section 7 gives the reasons.

### 1.2 How they interact

A *mission* checks out a site, edits are committed, validated and reconciled into
the system's clone, and `mission.close` records the end in the *bordbuch*.
`release.prepare` builds what was closed, `leitstand.certify` decides whether a
channel's gate is passed, the deploys serve it.  *Nachweis* keeps evidence records
of the site in the same clone and ledger.  The steps inside one command run as a
pipeline under the *scheduler*; stateful components live in *fibers*.  Between
processes there are no messages: they meet in files, external locks
(`acquireLock`) and git repositories.  The peers of the mesh meet in pushed
branches, a log and a table.

## 2 The modules

One action is the code between two points where something else can come between:
an `await` inside a process, a file write another process can see, a call that
can fail.  Operators commented "Fault:" are plausible bugs; `PROJECT.json` pairs
one with each property of a run, which must then be violated.  Every named part of a
property has such a fault in its module and was seen to fail with it; no specification
uses one.

| module | models | checked by | proved in |
|---|---|---|---|
| `PipelineScheduler` | `buildSchedule`, `detectCycles`, `executeScheduledSteps`, its two callers | `sched_four` | `PipelineSchedulerProofs` |
| `ComponentFiber` | lifecycle machine, fiber, revertible effects | `fiber_one` | `ComponentFiberProofs` |
| `SystemRepository` | clone, bare repository, mirrors and ledger as values, git commands as operators | through `MissionLifecycle` | – |
| `MissionRegister` | abstract: what the commands promise about a system's missions | refined by `MissionLifecycle` | `MissionLifecycleProofs` |
| `MissionLifecycle` | the mission commands, sync and repair, locks (over `SystemRepository`) | `mission_*`, `delivery` | `MissionLifecycleProofs` |
| `Leitstand` | prepare, ready, certify, three deploys, rollback | `leitstand_train` | `LeitstandProofs` |
| `Nachweis` | ten commands on evidence records | `nachweis_*` | `NachweisProofs` |
| `PipelineCache`, `CommandExecution`, `KernelArgv` | cached pipelines; one command with its timeout and adapter; an argument vector and what is injected into it | `platform` | `PlatformProofs` |
| `GitMesh`, `GenomeLog`, `DhtRegistry` | sync and verification under a lock file; membership; publishing, lookup and placement | `platform` | `PlatformProofs` |
| `PlatformDeploy`, `ArtifactStore`, `CapabilityGates` | symlinked deployment; three stores; broker and rate limiter | `platform`, `artifact_signed` | `PlatformProofs` |
| `GateDecision`, `DeploymentOperation`, `CertificationDossier`, `HealthMonitor`, `LegacyCutover`, `Evolution` | certification from the evidence to the cutover, and evolution | `certification` | `CertificationProofs` |
| `ServiceDeploy` | services and the registry they share | `certification` | `CertificationProofs` |
| `ProducerRun`, `IntegrityRegistry` | the producers of evidence; identities and revisions of files | `certification` | – |
| `Distribution`, `Materialization`, `SystemRegistration`, `ZoneEdge` | what a release takes over; the workpiece and its cache; register, pin, amend; a DNS zone | `delivery` | – |
| `ComponentActivation`, `BuildSigning`, `Notausgang` | two-phase activation over fibers; build records and signatures; the emergency exit | `delivery` | – |

`MC*` modules hold the instances for TLC.  `MCPlatform`, `MCCertification` and
`MCDelivery` hold several: `part` is chosen in `Init` and never changes, the variables
of the other parts are 0, so that a behaviour is about one component and the states
of two are added, not multiplied.  A part can therefore not disturb another; where
components share state they are in one module.  The constants of `MCCertification` and
`MCPlatform` are given in `certification.cfg` and `platform.cfg`, so that the theorems about
them hold for all their values.

### 2.1 PipelineScheduler

State is the closure of `executeScheduledSteps` variable for variable.  The driver
is `StartRun`, `DriverContinues`, `DriverReturns`, `DriverThrows`; each step in
flight settles by `StepSucceeds`, `StepFails`, `StepTimesOut` or `StepThrows`, which
run `processReadyQueue` and `updateReady` in their continuation as the code does.
`raceSet` and `race` keep what `Promise.race` was given, because the driver sleeps
on an earlier turn's promises.  The caller's part is the verdict, closing the cache
in `finally` and the abandoned body of a timed-out command.  `buildSchedule` and
`detectCycles` are pure operators; a reference to a missing, own or later step makes
the run end before it starts.  Not in it: what a step does, its cache.

### 2.2 ComponentFiber

A tree of fibers with registrations, operations, `drain` and nested `dispose`, each
dispose a stack of frames because it awaits its children.  The transition table is
`ValidTransitions`.  A disposer may resolve or reject.  `late` marks what was
registered after the snapshot of `fiber.ts:179`; the properties say what is promised
of everything else.  Assumption: dispose starts from active or draining
(`DisposeFrom`), see section 6 for the other states.

### 2.3 SystemRepository, MissionRegister, MissionLifecycle

A repository is a record (`objects`, `head`, `origin`, `external`, `mirror`, working
tree) and every git command an operator on it; a commit's tree is the ledger, the
current mission and the set of operator edits.  `MissionLifecycle` cuts each command
before its locks, around every ledger write (`AppendRead`, `AppendWrite`,
`CommitLedgerStep`), and between the files it changes.  `AppendSilenced` is the throw of
`containsSensitivePayload` on an entry that quotes the operator (`Quoting`); the history
variable `unsaid` has the missions whose abort met it.  Locks are an external table
with owners; `Crash` leaves them stale, `RecoverLock` is `lock.recover`.  Each entry of
`Faults` makes one kind of call fail.  `MissionRegister` is the abstract machine
"one open mission, ended once, or withdrawn"; the refinement maps `mission.yaml`'s
state to it.

Abstractions: the commits of a rebase are one; a rebase with conflicts leaves the
repository detached after a reset; the commits of the pin and the state file are
folded into `CloseSeal`; the inline validation of close that fails equals `Validate`
failing; a workpiece's content is a set of edits.

### 2.4 Leitstand

`records`, `decisions`, `file` and `state` are the files of the same names.  The
Cloudflare side (`worker`) keeps, per channel, the versions made live in order; it is
modelled from the calls.  A deploy runs its phases (`DeployStart` … `DeploySucceed`,
`DeployFail`); `look` is what its probes see, and wrangler's answer may be lost.
When `PrepareDeployContext` throws, the record stays "authorized".
`CertifyDecide` reuses evidence as RFC-0867 in `certify.ts` does.  A kill can come at
every point of `KillPoints`.

Abstractions: distinct releases have distinct contents; dev is a workers.dev URL; the
build inside a deploy, bordbuch and evidence sync are left out; the durable copy in R2
is the constant `Synced`; a version's id is the number of the operation that
uploaded it.  `IdentityKnown`: the build identity of the releases in `Unidentified` may fail to
be read or made, which is passed over, and the freshness check with it.

### 2.5 Nachweis

A command reads what it needs and refuses or sets out (`Ingest` … `ManifestGenerate`);
`proc[p].todo` holds the steps it still has to take, each an action: upload, write the
entity from the copy read at the start, write or revoke the consent, append to the
ledger, list the public records, write the manifest, attest.  The order of `todo` is
the order of the awaits.  `Gate` is `evaluateGateV2`.  A consent's status is any of the words in
`Given`, whatever the gate makes of them; a generation of the manifest that fails (`ManifestFails`)
is not noticed by the publication or withdrawal that runs it.  `entity` holds the fields the
gate, the manifest and signatures look at.

Abstractions: the two locks around an append are a nondeterministic refusal
(`LockRefused`, which also stands for a reason the ledger
takes for a secret; losing them is MissionLifecycle's subject); a batch of entries is
appended whole; one signing key; the third publication policy (operational evidence)
is left out; a hash is the number of a file; dry runs change nothing and are left
out.  A run starts from a fresh site or one that the commands can reach (`Sites`).

### 2.6 The parts of `MCPlatform`

* **`PipelineCache`**.  Two pipelines over one workspace: the index taken when a run
  starts, the exact read by input hash, the metadata fast path, the validator that is
  left out because its generator was a hit, the file of hits another pipeline may have
  written, storing the result.  What is stored is read file by file, first the contents and then
  the metadata, and written in two steps; the hash of a lookup is taken in one (its comment says why
  that is enough).  `seen` remembers what a report was made from, `whole` whether nothing was written
  between the two reads of a file.  The hash of a set of files is their contents; steps of one run
  follow each other.
* **`CommandExecution`**.  Lookup in the registry (configured, a site's own, from a
  manifest), the sites of `--all`, the race of a body with its timer, the adapter a dry
  run or a command that declares no mutation gets, the report.  A body that lost the
  race stays in `bodies` and writes on.
* **`KernelArgv`**.  The parse token by token, strict and heuristic, and the flags
  `--site` and `--system` the executor adds at the end.
* **`GitMesh`**.  Lock file with stamp, reopening and takeover, one `fetch` a remote, the
  choice by committer time, the signatures where the configuration asks for them (`verifySignatures`,
  off by default, may be either at each sync), the fast-forward, release by name; `verify` from the last
  verified commit.  Remotes move and are force-pushed.
* **`GenomeLog`**.  Join, leave, torn appends, merging, the view that keeps the first of the
  latest entries.  `identity` is the key pair a workshop was set up for; from then on it reads only
  what that key has signed.  Merging has no caller in the repository yet.  Lines are selected by position, without
  recursion, so that the log can be proved about.
* **`DhtRegistry`**.  A behaviour is `about` sites or about capacities.  Reading the table, deciding and writing are three
  steps; lookups ask peers and fill a cache that expires; placements ask for one capacity
  after the other.
* **`PlatformDeploy`**.  Build in staging, rename, manifest, signature; two links replaced
  one after the other; the collector reads the links and deletes one artifact at a time.
  `overlapped` notes that a collection met a switch.
* **`ArtifactStore`**.  A put writes the archive, removes other manifests of the release,
  writes its own; two releases may store the same tree.  Beside it the in-memory stores
  of admissions.
* **`CapabilityGates`**.  The broker's slots and audit entries over invocations that
  overlap and fail; the fixed window of the agent gate with a clock.

### 2.7 The parts of `MCCertification`

* **`ProducerRun`**.  Batches from the dependency graph, a semaphore with a queue, attempts
  that fail or time out and are retried after a delay, the late end of an abandoned
  handler, the resume point.
* **`GateDecision`**.  Results become envelopes with an age; a requirement is judged by the
  newest one that is admitted; panels of evaluators; the decision and the action pack, ordered by a
  walk over the dependencies.  The cut of a decision is the sequence number it saw.
* **`DeploymentOperation`**.  The transition table and authorization, driven by an
  operation that crashes; nothing in the repository drives it, so the driver is external.
* **`CertificationDossier`**.  Writers prepare events on a head that may move; dossiers are
  read back whole or altered and inspected; replicas; two object stores that keep the
  first and the last bytes; retention.
* **`HealthMonitor`**.  Windows delivered late and twice, a cycle of four steps that may
  crash, revocation.  **`LegacyCutover`**.  Facts, the marker, a plan of deletions and
  reclassification between plan and deletion.
* **`Evolution`**.  The controller with its guards in their order, numbers, idempotency keys
  and the kill switch.
* **`ServiceDeploy`**.  Deploy, promotion and rollback of services, each under its own lock,
  and the one registry file they all read and write back.
* **`IntegrityRegistry`**.  Four kinds of files written one after another by `init`,
  `update` and `backfill` over a site that is edited meanwhile; crashes between two writes.
  Its commands run one at a time (no lock enforces that); editors do not.

### 2.8 The parts of `MCDelivery`

* **`Distribution`**.  `mission.build` leaves a tree and a hash; `mission.validate` and
  `release.prepare` reuse it; prepare moves the tree and writes the name into three files.
  `StaticChecks` is the phase before the build.
* **`Materialization`**.  Sync of the clone, lookup in the artifact cache, staging, move,
  what a close kept besides git, gate, snapshot in three writes; a close, a push, a pin and
  a switch of the platform between; a crash anywhere.
* **`SystemRegistration`**.  Register with its rollback, amend, pin, extract and validate of
  two systems by two operators, around a mission that moves the configuration.
* **`ZoneEdge`**.  Each API call is sent, carried out or not, and answered or not; `Retry`
  repeats it.  A list and the change made from it are two steps.  The declared records have
  names and types of their own; two of one name and type, of which an upsert would take the first it
  finds for both, are outside the instance.
* **`ComponentActivation`**.  The resolver over capabilities with version ranges, a
  transaction over fibers, the four classes of effects, reconcile (a set of the same components
  is a no-op only when profile, grants and policies are the same too: `samePolicies`).  A fiber here is what
  `ComponentFiber` promises, with one effect and at most one operation.
* **`BuildSigning`**.  Record, key generation and signing as file reads and writes of two
  processes, none of which takes a lock.
* **`Notausgang`**.  Export and validation part by part while content, ledger, pin and the
  package itself change.
* **`MissionLifecycle`** again, with two processes and every locked command.

## 3 The runs

`tlc -config <cfg> <module>`, from this directory.  The properties of a run and what
each says are commented at their definitions.

| run | instance and bounds | why it is enough | shows |
|---|---|---|---|
| `sched_four` | 5 pipelines of 4 steps, limit 2 | diamond, fan-out beside a chain, fan-in in both orders of naming, an implicit chain through a skipped step, a rejected forward reference; with 2 slots a third ready step must wait | dependencies, causes of skips, the limit, no idle slot, truthful verdict, the run ends |
| `fiber_one` | parent and child, 3 effects, 1 operation, 1 disposer | two effects of one fiber have an order, the third is below; the operation can outlive drain's timeout | what drained and disposed promise, that dispose returns |
| `mission_orderly` | 1 process, 2 missions, 2 edits, 9 commands, repeated materializations and syncs, three flags of close, mirrors; validation, merge, evidence archive and mirror push may fail, and the ledger refuse an operator's words | 7 commands take a mission through its life, the rest reopen, repeat or start the second | nobody is stranded, the end is on record, closed work was delivered and validated |
| `mission_faults` | 1 process, 2 missions, every kind of command but a repeated materialization, four choices of flags, mirrors, 8 commands, 6 kinds of failure | every fault but a refused wording can hit every command of one life | sound ledger, published ledger only grows, refinement of `MissionRegister` |
| `mission_live` | 2 processes, 3 commands, crashes and recovery, refused wordings, fairness | a crash at every cut, a recovery, and a third command that meets what is left | every command ends, one writer |
| `leitstand_train` | 2 terminals, 2 releases (one broken, whose build identity may not be readable), 2 operations, 2 decisions, every kind of failure | a deploy and a rollback or a second deploy, with a certification racing them | what serves was cleared and no release is replaced (`ReleasesStand`), status and rollback records are true |
| `nachweis_trail` | 2 terminals, 2 records, 4 commands, 2 words for a consent, refused locks, failed uploads and manifests, kills | from the signed site, approve, publish and withdraw with one more command between any two of their steps | approvals are backed, stamps cover the signature, nothing uncleared is public, success is complete |
| `platform` | nine parts, see below | – | cached answers, histories, views, links, stores and budgets |
| `certification` | nine parts | – | producers in order, decisions that reproduce, recovery, dossier, transitions, registries |
| `delivery` | eight parts | – | what is built, signed, handed over and wholly done |
| `nachweis_gate`, `artifact_signed` | the smallest instance with the fault | – | findings, section 5 |

Bounds of the parts, and what they let happen:

| part | bounds | what happens within them |
|---|---|---|
| cache | 2 pipelines of 2 steps sharing a command, 2 files, 3 writes | a hit imported from the other pipeline, a file removed and written again between index and lookup, an input written between its hash and its stat |
| command | 3 commands, 2 sites, 2 calls | a timed-out body writes into the next call |
| argv | every sequence of 3 out of 8 tokens, 3 flags | a flag missing its value before the injected one, `--`, inline values, unknown flags |
| gitmesh | 4 commits in 2 branches, one unsigned, 1 remote, 2 syncs | takeover of a live lock, a force-push, a crash between open and stamp, an unsigned commit under a configuration that verifies and one that does not |
| swim | 2 clones, 2 operators' keys, 2 timestamps, 3 entries | equal timestamps, a torn append and the entry lost behind it, merges both ways, clones of one operator and of two |
| dht | 2 workshops, 2 times, 1 slot | an entry expires or is taken over between read and write; the last slot goes away |
| deploy | 3 trees, retain 1 | a collection between the two links, a crash at each rename |
| store | 2 releases, 2 trees | one tree stored by both, a put cut short |
| gates | 3 requests, 2 slots, window 2, 4 ticks | the third waits; two full windows touch |
| producers | 6 graphs of up to 4 nodes, 2 slots, 1 retry | a level waits for a retry, cycles and duplicates are refused |
| decision | 2 candidates, 3 requirements, 2 envelopes, 9 results, 6 panels | a newer failure, a foreign envelope, an expiry between evidence and decision |
| operation | one operation | a crash in every state |
| dossier | 2 writers, 2 events, 2 payloads | two drafts on one head, an exchanged event, a collection under a reference |
| health, cutover | 3 windows, 4 deliveries; 2 candidates, 2 paths | a window twice, a crash at each step; a path reclassified after the plan |
| evolution | 2 candidates, 3 keys, 6 bundles, 3 records | a key used by both, a kill between two transitions |
| service | 2 services, 2 terminals, 2 operations | the registry rewritten from a stale copy |
| integrity | 2 paths, 2 contents, 4 edits, 2 runs, 1 crash | a rename onto a path, a deletion and recreation around a crash |
| dist | 1 process, 2 edits, 2 releases | a reused tree, a crash between two names |
| zone | 2 operators, 2 identities, 2 attempts, 2 commands | a lost answer and its retry beside another's change |
| register | 2 systems, 2 stars, 2 operators, 2 commands | a rollback while the other registers, a pin while a mission opens |
| material | 2 platforms, 3 heads, 2 runs, `.env` kept | an entry of an older head or platform, a forced run that dies; the two kinds of kept files behave alike, one is enough |
| activation | 4 identities of 2 components, 3 profiles, 3 calls, 2 events | an upgrade with a dependency, a drain that does not end, a failing disposer |
| signing | 2 processes, 2 builds, 4 commands | record, keys and two signings interleaved |
| exit | 2 systems, 1 release, 2 processes, 2 edits, 3 commands | two exports for one path, an edit between two parts |
| mission | 2 processes, 2 missions, 7 locked commands, failing merge | every pair of commands at every cut |

Deadlock is not checked: in each model the work runs out (`MaxCommands`, `MaxOps`,
the one pipeline), which is the system at rest.  That nothing hangs before is said
by `RunConcludes`, `DisposeReturns` and `CommandsEnd`.

Symmetry is used in `nachweis_trail` only: the two terminals are interchangeable in
`Init`, `Next` and every property, and no liveness is checked there.

### 3.1 Properties of the composite runs

A property of a composite run is a conjunction with one part for each component, whose
definition is in the component's module; all hold.

| property | parts |
|---|---|
| `RunsAnswerThePresent` | `AnswersThePresent`, `HitsAreEarned`; `ReportsMatchTheBodies`, `OnlyRealRunsWrite`; `InjectionIsInert` |
| `MeshKeepsHistory` | `HeadKeepsHistory`, `OverlapNeedsTakeover`, `NothingEscapesVerification` |
| `PeersAgree` | `ViewsConverge`; `CacheServesThePublished`; `NeverPlacedOnTheFull` |
| `ArtifactsStand` | `LinksStand`, `WayBack`; `WhatWasStoredIsFound` |
| `BudgetsHold` | `BrokerAccounts`, `BurstIsBounded` |
| `RunsAreInOrder` | `ProducersRunInOrder`; `PackIsOrdered` |
| `DeploymentsRecover` | `RecoveryIsSafe`; `WindowsCountOnce`; `OnlyLegacyIsDeleted`; `RegistryIsTruthful` |
| `HistoryIsSound` | `DecisionsReproduce`, `PassIsBacked`; `DossierIsSound`; `RecordIsReplayable` |
| `RecordsAreTrue` | `BindingsAreKnown`, `ManagedFilesAgree` |
| `BuildsAreCurrent` | `ReleaseNamesHold`, `FreshReleasesAreSigned`; `MaterializedIsCurrent`; `SignedIsWhatIsThere` |
| `HandoversAreSafe` | `CommittedReplacesThePrior`, `AbortedServesNothingNew`; `LedgerIsSound`, `LocksAreReturned`; `PublishedIsWhole`, `ValidAnswersAreEarned` |
| `EndsWhollyOrNot` | `RegisterEndsWhole`, `PinEndsAgreed`; `ReachesWhatItSays` |

### 3.2 Restrictions an instance makes, and what happens without them

* `mission_orderly`: one process, no failing push.  With a failing push
  `OpenMissionIsCurrent`, `EndIsOnRecord` and `NobodyIsStranded` fail (section 6).  A mission
  whose abort the ledger refused to word (`unsaid`) is excepted by name from the last two: its
  manifest says aborted, the ledger has no end of it and the system goes on naming it.
* the part `mission` of `delivery`: no `sync` outside the locks, no push failure, no crash.
* `leitstand_train`: one terminal deploys, no kill between a rollback and its record,
  no decision file named by hand.
* `SuccessIsComplete` speaks of one terminal at work (`crew = {p}`), and of the public manifest only
  where its generation did not fail (`made`), for the command does not notice; the other
  invariants of `nachweis_trail` hold for two.
* `StatusIsHonest` excepts a success nothing vouches for (`Vouched`): no version from wrangler and no
  build identity to compare the pages with.
* `AnswersThePresent` excepts answers by metadata that was stored by a step one of whose inputs was
  written between its hash and its stat (`whole`).
* `HeadKeepsHistory` asks for signatures of what a sync with `verifySignatures` brought in; by default
  a sync takes unsigned commits, and what it may never lose is history.
* `ViewsConverge` speaks of clones that read the same entries; two operators' clones of one log do not.
* `fiber_one`: one disposer, started from active or draining.
* `LinksStand` speaks of a host where no collection overlapped a switch, `ManagedFilesAgree`
  of updates without a crash, `SignedIsWhatIsThere` of a signing that met no other command,
  `RegisterEndsWhole`, `PinEndsAgreed` and `ReachesWhatItSays` of a command nobody disturbed,
  `MaterializedIsCurrent` of a run the platform did not change under.  Without these
  conditions each is violated; section 6 says how.

### 3.3 Fairness

* `PipelineScheduler`: weak fairness of the driver and of each step in flight.  The
  event loop runs a settled promise's continuation; a step settles because its
  process ends or its timeout fires (`execute-command.ts`).  A command without a
  timeout that never returns is outside the claim.
* `ComponentFiber`: `drain` polls with a deadline, so it returns or times out; the
  dispose frames continue when what they await settles.
* `MissionLifecycle`: a command that runs takes its next step.  Nobody has to issue a
  command, recover a lock or avoid a crash.
* Everything else is checked for safety only, without fairness: a broker call, a fetch or an
  API request has no timeout in the code, so that nothing says it ends.

## 4 The proofs

`tlapm PipelineSchedulerProofs.tla`, `tlapm ComponentFiberProofs.tla`,
`tlapm NachweisProofs.tla`, `tlapm LeitstandProofs.tla`, `tlapm MissionLifecycleProofs.tla`,
`tlapm CertificationProofs.tla`, `tlapm PlatformProofs.tla`.
Theorems hold for every value of the constants under the modules' named assumptions.  Some
have a hypothesis besides, about the environment and never about what the code computes; each
is named below, is met by the run that checks the property, and is needed: section 6 tells what
happens without it.

### 4.1 Scheduler: any pipeline, any limit, any order of settling

Assumptions: `NAssumption`, `ConcurrencyAssumption` (a positive limit),
`PipelinesAssumption` (the type of a pipeline).

* `TypeCorrect`; `DependenciesComeFirst` (a started step's dependencies completed);
  `SkipsHaveACause` (a skip leads back to a failed step); `QueueIsFresh` (no step is in
  the ready queue twice or after it started); `LimitRespected`; `SlotsAreFilled`
  (`WorkConserving`: no runnable step waits beside a free slot while the driver sleeps);
  `OkIsSound` (an ok verdict means that every step not marked skip completed).
* `CycleSearchIsRedundant`: with forward references refused, `detectCycles` never
  finds anything: a set of steps that all wait within it would have a least element
  waiting for a smaller one.

The invariant `IInv` is their conjunction with what makes it inductive: the queue
holds only steps whose dependencies completed and which were not started, the limit
counts what is in flight, nothing moves before the schedule exists, a dependency
always has a smaller number (`BackwardDeps`), and every settled step has a result.
`DependenciesFirst` alone is not inductive: it needs to know what may lie in the queue.
Least elements come from the well-foundedness of `<` on the naturals, not from induction
over data.  `WorkConserving` is carried by the drain itself: after `processReadyQueue` either
the queue is empty or the limit is reached (`DrainConserves`), and each continuation ends in
one, so that the fact holds between any two events and not only in the driver's turns.

### 4.2 Fiber: any tree, any effects, operations and callers

Assumption: `OpOfAssumption`.  The first two theorems have the hypothesis `DistinctIds`: the callers
give the operations of one fiber ids of their own.  It is needed: the operations are kept in
a map by id (`fiber.ts`), a second one under an id in use replaces the first, and `drain` and
`dispose` no longer know of that one.

* `DrainedIsQuiet` (`DrainedMeansQuiet`), `DisposedIsCancelled`.

`FiberInv` says that the registered operations are exactly the running ones, that a fiber in
which a drain was begun is past active for good, and that every operation still running on a
fiber that is unloading or disposed was told to stop.

* `DisposeIsWhole` (`UnwindIsWhole`), `EffectsUnwindLastFirst` (`UnwindsLastFirst`): whatever is
  registered, attached, run or drained while a dispose awaits, it leaves no effect unattempted
  and no child undisposed, save what came too late for its snapshot, in the reverse order of
  registration.

Their hypothesis is `Orderly`: one dispose call at a time (`OneCall`), of a fiber that was active
once, and effects with ids of their own.  Two overlapping calls run a disposer twice.  The types and
the property are not inductive: `UnwindInv` adds `FrameSound`, which says of every frame of the stack
of nested disposes what it has still to do, and that nothing is behind it undone.

### 4.3 Nachweis: any terminals, records, files and commands

Assumptions: `NachweisAssumption` (types of the constants) and `HistoriesAssumption`: the
histories a site may start from are well-typed, keep the two rules of the ledger, and
have nothing public yet.

* `TypeCorrect`, `ApprovalsAreBacked` (`N3IsBacked`), `StampsCoverTheSignature`
  (`StampCoversSignature`), `NothingUncleared` (`NothingPublicUncleared`), `SuccessesAreWhole`
  (`SuccessIsComplete`).

A command reads the ledger, then other terminals append, then it appends.  The
invariant therefore speaks of entries that are still to be appended (`PendingSound`: what
justified them stands in the ledger now) and rests on three facts about a ledger that
only grows: an entry of a kind stays (`HasGrows`), the first of a kind stays the first
(`FirstStays`), a clearance stays (`ClearedStays`).  For what is visible it counts a
visible copy or a list in a terminal's hands as exposed already (`Exposed`): a stale
write-back then adds nothing.  `BeginKeeps` and `LedgerStepKeeps` are the two lemmas every
command and step comes down to.  A success rests on `CInv` as well: a publication or withdrawal whose
terminal is alone has done exactly what its remaining steps leave out (`OnItsWay`), so that file,
ledger and manifest agree when none are left, the manifest unless it could not be made; what an
earlier command that died left behind is among the states it may start from.

### 4.4 Leitstand: any terminals, releases and operations, any failure or kill

Assumptions: `LeitstandAssumption` (types of the constants).  `ServedWasCleared` has a
hypothesis besides: `"override"` is no fault of the instance, that is, no operator gives
`--gate-decision` a file of another release or channel.  The code
does not compare them (section 6), so that without the hypothesis the theorem is false; no
run allows it either.

* `TypeCorrect`; `NumbersAreFree` (`NoReleaseIsReplaced`); `ServedWasCleared`
  (`ReleasesStand`: whatever a channel serves was put there under a passing decision about
  that release and that channel); `RollbacksAreTrue` (`RollbackIsTruthful`);
  `StatusTellsTruth` (`StatusIsHonest`), with the hypothesis `OneDeployer`: one terminal deploys and
  rolls back, beside any number that build, report and certify, and it is not killed between a
  rollback and its record.  A success that nothing vouches for is excepted in the property itself.

Four invariants, each on top of the one before.  `IInv`: `Placed` says what a process may
rely on at a point of its command (in a build the lock is its own and its number is free, in a
deployment its record exists and names its channel and release), `Consecutive` that releases
are numbered without a gap.  A step of one process leaves the others' places, their locks,
and every release, decision and record as they were (`Alone`); only so does a file read once
stay true until it is acted on.  Without `Consecutive` the number after the greatest would
not be known to be at most `LastRelease`.  `AInv`: a decision file, a record and what a
channel serves each answer for their release and channel.  `TInv`: the versions a channel
served carry numbers of their own, so that the one a rollback finds is the one it names.  `SInv`: the latest record of a channel, if it tells of a
success, names what the channel serves (`Told`, with the exception above), but for a rollback that has not written its record
yet; a deployment under way is the last on record (`Steady`), and records lie in the order of
their stamps, which is what makes the last one the latest.

### 4.5 Missions: any processes, missions, edits and flags

Assumption: `LifecycleAssumption` (types of the constants).  Four groups of theorems, the later
with the stronger hypothesis.

* `WritersAreAlone` (`OneWriter`), for any processes and faults: two commands never work under
  the lock of a system at once, whichever die and whenever `lock.recover` comes.

`WriterInv` says that a command past its lock works in its own name under it; `Admissible`
that a step takes the lock only when it is free, frees no other's, and goes on only as its
holder.  Repair and sync on its own take no lock and are not among the commands meant:
what they do to the ledger meanwhile is left to the runs and to section 6.

* `LedgerStaysSound` (`LedgerIsSound`), `ImplementsRegister` (`RefinesRegister`: every step of
  `MissionLifecycle` is a step of `MissionRegister` or leaves it alone).  Hypothesis `Solo`: one
  process, which does not die; every other fault, flag and order of commands is allowed.

`RegisterInv` has three parts: `StateOK` with `HistoryOK` (commits form a history: ancestors have
smaller numbers, ancestry is transitive), `Places` (what a command relies on at each of its cuts: the
entry it is about to append, the ledger it read, the commits it may go back to) and `Record` (what
ledgers and manifests say of each other).  A statement about the ledger of the working tree alone is
not inductive: a pull brings back that of the bare repository, a reset that of the commit a reconcile
or a materialization started from.  `Record` therefore speaks of every ledger a commit holds, and of
an opening that was withdrawn although its withdrawal could not be committed (`Contained`).  `Grows`
is what every git operation comes down to: no ledger is invented, and a branch holds what it held or
what the commit it was moved to holds.

* `PublishedLedgerOnlyGrows` (`PublishedLedgerGrows`: what the bare repository's branch holds of the
  ledger is only ever appended to).  Hypotheses: `Solo`, and no mission is materialized a second
  time; pushes, commits and everything else may fail, and missions may be reconciled again.

`LedgerInv`: the ledger of a commit's ancestor is a prefix of its own, and the file in the working
tree continues HEAD's (`Lined`), so that a push, which only fast-forwards, only adds; an open workpiece started from
entries the clone and the bare repository both have, and the commits a reconcile may go back to have
them too (`Carried`), so its reset drops nothing published; what a command read of its mission still
holds (`Knows`).  Materializing again and reconciling again together break `Carried` (section 6), so
the first is excluded.

* `NobodyStaysStranded` (`NobodyIsStranded`), `OpenMissionStaysCurrent` (`OpenMissionIsCurrent`),
  `EndsAreOnRecord` (`EndIsOnRecord`), `ClosedWorkStaysSound` (`ClosedWorkIsSound`, with the types of
  the whole state).  Hypothesis `Undisturbed`: `Solo`, no push, commit or pin fails, no edit is left
  uncommitted, no mission is reconciled twice, and close does not skip the check of that
  (`skip-reconcile-check`); and the four are stated for as long as `unsaid` is empty: openings and
  mirror entries may be refused for their wording at any time, an abort not.  Merges, validations, evidence archives and mirror pushes fail as they like.

Manifest, ledger, system state and workpiece are written by separate steps, so between two commands
they agree and within one they do not.  `OrderInv` says how far apart they may be: `Level` that the
bare repository and the clone differ by the entry being written, `Forked` that a workpiece holds what
the bare repository held when it was cloned, `Course` what a command relies on at its place,
`Standing` which of the writes each mission has behind it, `Files` what its evidence claims.
With no command running, `Standing` becomes the first three properties (`Resting`).

### 4.6 Certification, evolution and services: any value of every constant

Assumption: `CertificationAssumption`: the bounds are numbers, mandatory requirements are
requirements, no candidate or key is named `kill-switch` (the reducer writes its own records under
that id) and no process is called "free".  No theorem has a further hypothesis.

* `DeploymentsAreRecovered` (`DeploymentsRecover`), `HistoryStaysSound` (`HistoryIsSound`).

`PartInv` has one invariant for each component; a step of one leaves the others out of it.

* *Operations* (`OperationInv`): an operation that was not authorized gets to none of the states
  before success (`Trusted`) and uploads nothing, traffic needs an artifact, and only a trusted
  operation crashes; what a recovery may resume follows from those.
* *Health* (`HealthInv`): the windows done are the decisions made, but for the one whose decision is
  written and whose window is not closed yet (`Deciding`); the projection has counted all the
  decisions but that one (`Projected`).  A window delivered again finds itself done.
* *Cutover* (`CutoverInv`): a marker stands on facts that verify, a path is gone exactly if a
  tombstone calls it legacy, and there is no tombstone without a marker.
* *Decisions* (`GateInv`).  That an old decision is the same when it is evaluated again needs more
  than that its envelopes stay: the newest envelope is a CHOOSE, so there has to be one, and only one.
  `AdmittedInTurn` says that sequence numbers are given once and none is above the last;
  `OneIsNewest` that the envelopes a requirement is judged by at a cut, if there are any, have a
  newest.  The latter would be a fact of every finite set, by induction over data; here it is
  carried along as envelopes arrive: an admitted one is the newest of every later cut and in no earlier.
* *Dossier* (`DossierInv`): `ChainInv` ties the root to the last event and each event to the hash
  before it, `DraftsInv` lets a draft's head be any earlier one, and `CopiesInv` says that the root of a copy
  or replica is one the dossier has had, and that a copy called verified has the events of its root.
* *Evolution* (`EvolutionInv`): the stage of a candidate is where its latest record leads
  (`StagesAgree`), and each record begins where the one before it about the same candidate ended
  (`RecordsFollow`).  The replay follows without induction over the records.
* *Services* (`ServiceInv`): a command holds the lock of its own service only, so two commands do
  overwrite each other's entries of the one registry file.  What stays true is that an entry, and
  every copy of the file a command has read and not written yet, tells of no operation still under
  way and of a success only where it was one (`Sound`); a stale copy written back is sound as well.
  `AtWork` says which operation a command is about to record, and that it holds the lock.

### 4.7 Kernel commands, mesh, log, table, stores and gates: any value of every constant

Assumptions: `PlatformAssumption`: the bounds are numbers, of any commits fetched one is the latest,
and no artifact, release or workshop has one of the model's own names.  `KernelAssumption`: pipelines
have steps, which are commands with known inputs; some site is discovered; a schema is finite and
declares the flag that is injected as one with a value; and no caller passes the flag's bare name
as a value, by which the property recognises that another flag took it.  No theorem has a further
hypothesis; `PartInv` has one invariant for each component.

* `RunsDoAnswerThePresent` (`RunsAnswerThePresent`).  `CacheInv`: a write gives its files metadata
  nothing had before, so a stored metadata that fits a file and was read with its contents (`whole`)
  tells what the file holds, and that is all the fast path relies on; `HashesInv` says as much of what a step
  has hashed so far; the names in the file of hits were earned, and so were those in the
  copies runs are about to write back over each other's (`RunFits`).  `ExecInv`: while a call waits, the
  last body is running and unreported (`Racing`), a reported body can write no more unless it was
  reported as timed out (`Truthful`).  `ArgvInv`: until the parse comes to the injected flag nothing
  has taken its name, and no token before it would swallow it without an error.

* `MeshHistoryIsKept` (`MeshKeepsHistory`).  `MeshInv`: while no lock was taken over, a sync at work
  is the only one and holds the lock (`LockHeld`); what a sync is about to merge was found to contain HEAD and, where it verifies, signed beyond it
  (`MayMerge`), and stays so because HEAD only moves forward.
* `PeersDoAgree` (`PeersAgree`).  A view keeps the first of the latest entries of a workshop, so two
  logs with the same entries can differ in order and derive different views.  `SwimInv` excludes it:
  a workshop's own log has all its entries (`OwnComplete`), and a log that has one of them has those
  the own log has before it, in the same order (`OwnOrder`).  It survives a merge because a log that
  lacks an entry lacks those behind it too.  `SelectionIs` says what a selection of lines is, without
  induction: positions counted off by their rank.  `DhtInv`: what a lookup is about to keep was
  published by this operator; a maximum of what was found exists.
* `ArtifactsDoStand` (`ArtifactsStand`).  `DeployInv`: what the links name, what a build, a swap or a
  rollback is about to make them name, and what a collection has not yet deleted all stand
  (`LinksInv`, `WayInv`), unless a collection overlapped a switch.  `StoreInv`: a release has one
  manifest, and what is found for it is what it stored last, at every cut of a put.
* `BudgetsAreHeld` (`BudgetsHold`).  `GatesInv`: the slots taken are the requests in flight
  (`BrokerInv`); `GateInv` says how much of a window is used up at each earlier time, across
  expiry and renewal, which is why a stretch that begins within a window lets through at most two
  windows' worth.

### 4.8 Left to TLC

Out of the prover's reach: liveness (`RunConcludes`, `DisposeReturns`, `CommandsEnd`) and
anything with ENABLED; what recursive definitions compute for every input: the levels of `ProducerRun`
and the walk of `GateDecision` (`RunsAreInOrder`), the folds `IntegrityRegistry` is built from
(`RecordsAreTrue`).  Only model-checked, though not out of reach: what
the run `delivery` checks (`BuildsAreCurrent`, `HandoversAreSafe`, `EndsWhollyOrNot`).

## 5 Findings

Each is a run with `expect: violation` whose trace shows the behaviour.

1. **One record's approval publishes every record** (`nachweis_gate`).
   `nachweis-publish.ts:108` filters the ledger by kind and the gate
   (`nachweis-io.ts:303`) never looks at an entry's slug; the entry of a publication,
   with level N3, satisfies `n3-met` too.
2. **A signed platform artifact never verifies** (`artifact_signed`).
   `artifact-build.ts:135` signs the whole manifest, the empty `signature` and the
   `signatureAlgorithm` included; `artifact-verify.ts:74` checks six fields without them.

Three more disagree with a sentence of the repository; the models have the property, and
TLC finds it violated under the conditions named here.

3. **An uncommitted edit is closed and lost** (`ClosedWorkIsDelivered`, edits left uncommitted).
   `mission-close.ts:305` commits whatever lies in the workpiece, moves the reconcile
   report to that commit and then compares the two (`:350`); the comment at `:315` says
   only generated files are committed.
4. **An ended mission is open again** (`TerminalIsFinal`, two processes).  `materialize`,
   `reconcile` and `abort` write back the manifest they read before the lock
   (`mission-materialization-commands.ts:1737`); `mission-close.ts:279` re-reads it, and says
   why.
5. **Promotion asks for alt's health after main was switched** (`PromotionFollowsAlt`).
   `deploy-execution.ts:398` refuses a promotion that `adapter.propagate` at `:275` has
   made.

## 6 What the code does not keep

Properties one might expect, stated in the modules where that is short ("Not kept") but in
no run: either no sentence of the repository promises them exactly, or the finding would be
one of many of its kind.

**Scheduler.** With concurrency 1 the schedule is rebuilt from indices and a skipped
step breaks the chain (`pipeline-scheduler.ts:170` against `:195`): a failure before it
no longer stops what follows.  A rejecting step makes the caller close the cache while
other steps still run (`execute-pipeline.ts:897`).  A timed-out body keeps running.

**Executor and cache.** The mtime fast path answers for a step one of whose inputs came or
went without being newer; a validator is left out transitively through hits another pipeline
wrote up to half an hour ago; the input hash takes existing files only, and inputs are hashed
after the body ran.  A file's hash and its metadata are two awaited reads
(`command-result-cache.ts:163`, `:171`): a write in between is stored as the metadata of the old
contents, and the fast path of a later run answers an unchanged file with the old report (`whole`).  A
manifest that names a missing module makes an unrelated command fail; a
throw at a later site of `--all` loses the reports of the earlier ones.

**Fiber and activation.** Two overlapping `dispose()` calls run a disposer twice (`DisposedOnce`: the
flag is read at `fiber.ts:160` and set after every await).  A fiber disposed before it was active
or after it failed keeps its state (`DisposeEndsLifecycle`, `fiber.ts:222`).  Operations of one id
escape drain and abort.  A retried commit disposes a fiber that is still draining
(`CommitDrains`); an abort leaves the prior set draining and takes a shared component away
(`AbortedRestoresThePrior`).

**Mission.** A mission can be closed without work (`NoEmptyClose`: operator commits are
counted from the root of the inherited history, `mission-git-commit.ts:244`).  An abort whose
reason the ledger takes for a secret (`bordbuch-io.ts:182`) has written its manifest by then: the
mission is aborted, without an end on record, and stays the current one for good (`unsaid`).
`evidence.sync`'s exit code is not looked at (`ClosedEvidenceIsArchived`).  A skipped archive
may leave no audit entry (`SkipsAreAudited`).  A failed push is only warned about and the
next reset drops the local commits (`OpenMissionIsCurrent`, `NoCommitVanishes`); a failed
mirror push leaves the mirror ref ahead (`MirrorRefIsTruthful`).  With two processes and the
unlocked `sternsystem.sync` the published ledger can be rewritten, although
`bordbuch.module.ts:3` calls it append-only; with one process too, when a mission is reconciled
twice, materialized again and a push is refused: the second reconcile resets the clone to the commit
of the first, past ledger entries (`PublishedLedgerGrows` holds with either repetition alone).  A crash inside `mission.open`, or a stale
write-back, leaves two missions open.  Locks leak when the second one is refused or the
validation report is missing (`mission-materialization-commands.ts:1221`).

**Materialization and distribution.** Materializing again replaces an open workpiece with its
uncommitted edits; an uncommitted pin is discarded by the reset or overruled by an entry
(`PinIsMaterialized`, against `registry-io.ts:167`); a forced run that dies leaves a partial entry
its state file still names; a skipped preflight adds a commit, so that the next run skips its
own.  A validation reuses the tree of a failing build (`ReusedDistributionsPassed`, against
`mission-materialization-commands.ts:937`).

**Registration.** Which of two systems is refused for a duplicate star depends on the order;
two registrations race past both checks; `rollbackSystemDirIfEmpty` leaves what another step
wrote; a system whose first mirror lies elsewhere keeps its pin.

**Leitstand and services.** `EvidenceSatisfiesGate`, `SucceededWasDeployed`, `StateFollowsTraffic` and
`NoUpdateIsLost` fail: evidence of a skipped dev check is reused as a pass for half an
hour; on dev nobody looks at the adapter's answer; where wrangler failed and the build identity cannot be
read either, alt and main succeed unless a probe says otherwise, though nothing was switched
(`deploy-execution.ts:258`, `:305`); a rollback does not write
`lastPropagated`; `release.ready` writes back a state it read before.  The default
rollback reads the state with the clone as workspace root and never finds a previous
release (`leitstand-commands.ts:1401`); `--to-release` takes the newest record of any
channel and an unknown release falls back silently; the artifact hash is never compared
with the decision's `policyBundleRoot`, nor a `--gate-decision`'s gate and release;
`artifactReadinessVerified` is always true; the last record of a promotion loses its
verification; a failed domain step, or a context that cannot be prepared, leaves the record
"authorized"; `validateDeploymentTransition` has no caller; a timeout of `mission.check` is fatal
against its comment; a skipped purge counts as a failure after the switch;
`release.prepare`'s C-surface check throws after the move.  Two services lose each other's
entries of `registry.yaml`; a rollback is recorded under the wrong operation; a failing smoke run
leaves the version live.  `access.protect` writes the pin although a secret call failed.

**Zone.** A redirect rule whose answer was lost is created twice (`OneRuleAtMost`, against
`redirect-register.ts:6`).

**Certification and evolution.** A late handler overlaps its retry; the partial evidence of a
failed batch lacks producers that completed after the first rejection; the gate lock's release
frees the first lock only; evidence of `executeProducer` expires at its own timestamp; the
required number of evaluators is not enforced; `authorizeDeployment` never compares the decision's
gate; a crash between upload and switch is resumed by verifying an artifact without traffic; the
monitor's recovery creates an incident where none was due; `isRollbackTargetProtected` is always
false for a verified cutover; `defineCandidate` ignores the kill switch.

**Nachweis.** `recordStatus: "published"` is never written, so the checks of
`nachweis.validate` on published records never fire (`nachweis-validate.ts:272`).  A
publication after a withdrawal is not refused, and the withdrawal that follows is a no-op
that leaves the record public.  A withdrawal that died before its ledger entry is never
completed; it denies the document's consent only.  Signing again changes nothing:
timestamp, verification and the manifest look at the first entry.  A derivative changes
the signed items.  Assessments are compared with the last observation only, and turn an
attestation into a technical record.  Publish and withdraw ignore the result of
`nachweis.manifest.generate` and report success over a manifest that was not made
(`nachweis-publish.ts:192`, `nachweis-withdraw.ts:215`).  A consent's status is written as given, and
a typing error withholds it.  Consent revoked after publication leaves the
record public.  With two terminals a stale copy undoes a withdrawal or a listing.  The
second lock refused leaks the first.

**Integrity and signing.** `integrity.update` gives a bound path a second identity
(`run-update.ts:295`), so that `integrity.verify` fails after a file was recreated and moved
(`VerifiesAfterUpdate`); a move is taken from the wrong identity; a crash between entities and
paths is not repaired by the next run (`HealsAfterCrash`).  A kept signature is neither verified nor
written to the other files, and a regenerated key makes it fail (`SignedVerifies`); outputs and
provenance of two records are signed together (`SignedPairIsOneRecord`).

**Peers.** `gitmesh.verify` writes the last verified commit although it failed; a crash between
opening and stamping the lock file leaves a lock that is never stale; without `verifySignatures`, the
default, a sync brings in unsigned commits; a release removes the lock
of whoever took over.  Of two events with one timestamp the first in the log counts; a torn
append glues two lines (one that lost exactly its final newline is left out: that line parses until
the next is glued to it); `swim.members` verifies every entry with the operator's own key, so that
workshops of other operators are not seen.  Publications that race rewrite each other's entries.  The broker has no
timeout, and two windows admit twice the rate.

**Deploy and stores.** A collection that overlaps a switch deletes what a link names
(`ReferencedIsNeverDeleted`, against the contract in `artifact-gc.ts`); it counts staging
directories; a rollback leaves `previous` where `current` points.  The manifest of a tree two
releases share is overwritten; get and validate believe the recorded hash.

**Notausgang.** The site is the workspace's and not the release's (`SiteIsTheRelease`), the release
may be another system's; a package without a built site is a success; exports that race leave
directories behind.

## 7 What is not modelled

`PROJECT.json` has a reason for each component and says of a component that is "partly"
modelled what is missing.  In groups:

* *Calls to an external service, one at a time*: evidence, observability, the measurements
  and screenshots of nachweis.  Where another component depends on the answer, the answer
  is a nondeterministic step there.
* *No state*: discovery, validation, schemas, contracts, plugins, lagebild,
  behaviour snapshots, changelog, fingerprint, type shims, wiring and logging,
  command-line entry.
* *Text transformation*: the migrator chain, packing and absorbing a handoff, generation of
  pages.
* *Taken as ideal*: cryptography, hashes (injective), file writes by rename (atomic),
  external locks (a table with owners).
* *A driver that is not in the repository*: most of `certification/` is a library without a
  caller; its drivers are modelled as external and follow the library's own tables.

Within modelled components: change-impact pruning and telemetry of the executor, gate locks and
progress events of the orchestrator, the mission commands that only report (diff, preview,
lists), cleanup and migration of missions, access protection, deregistration of DHT nodes, the
operational evidence policy and `nachweis.validate`.

## 8 Plan

What is left, by what would hurt most if it were wrong:

| next | what | as |
|---|---|---|
| 1 | a proof of `LocksAreReturned` | over `WriterInv` |
| 2 | proofs about `Materialization`, `BuildSigning` and `SystemRegistration` | `MCDelivery` with its constants given in `delivery.cfg`, as `MCPlatform` |
| 3 | `ComponentActivation` as a refinement over `ComponentFiber`, instead of a fiber with one effect | an INSTANCE for each identity |
| 4 | concurrent commands of the integrity registry | the lock the code lacks is the question |
| 5 | `access.protect` and its pin, mission cleanup and migration | actions of `ServiceDeploy` and `MissionLifecycle` |
