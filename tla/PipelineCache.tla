--------------------------- MODULE PipelineCache ----------------------------
(* Pipelines that run beside each other over one workspace, and what lets  *)
(* them leave steps out: the results stored by input hash, the metadata    *)
(* fast path, and the file of cache hits that pipelines share              *)
(* (kernel/runtime/execute-pipeline.ts, kernel/cache/).  How the steps of  *)
(* one run are scheduled is PipelineScheduler's subject: here they follow  *)
(* each other and the first failure ends the run.                          *)
EXTENDS Integers, FiniteSets, FiniteSetsExt, Sequences

CONSTANTS
  Pipelines,    \* pipeline names
  Steps,        \* the commands of each pipeline, in order
  Site,         \* the site of each pipeline, "none" for the workspace
  Files,        \* files commands read or write; 0 stands for an absent one
  Reads,        \* the files each command reads
  Writes,       \* the files each command generates
  Validates,    \* validatesOutputs: the commands whose output it checks
  Modes,        \* how each pipeline may be run: "normal", "force", "dry"
  AppScoped,    \* commands no workspace pipeline may run
  MaxWrites     \* bound of the model: writes of files

VARIABLES
  content,      \* what each file holds
  stamp,        \* its metadata: the number of the write it comes from
  writes,       \* the number of writes so far
  results,      \* namespace command_results of the cache
  metas,        \* namespace command_results_meta: metadata to inputs hash
  hitsFile,     \* .cache/pipeline-cache-hits.json
  run,          \* each pipeline's run
  earned        \* history: commands the cache answered in a workspace run

vars == <<content, stamp, writes, results, metas, hitsFile, run, earned>>

Commands == DOMAIN Reads
Authored == Files \ UNION {Writes[c] : c \in Commands}
NoHits == [commands |-> {}, age |-> "stale"]
NoSeen == [f \in {} |-> 0]
NoInputs == [left |-> {}, hash |-> NoSeen, was |-> NoSeen, metadata |-> NoSeen]
NoRun == [phase |-> "idle", step |-> 0, mode |-> "normal", index |-> NoSeen, hits |-> {},
          seen |-> NoSeen, inputs |-> NoInputs, file |-> NoSeen]
Command(p) == Steps[p][run[p].step]
Present(c) == [f \in Reads[c] |-> content[f]]

(* The hash a lookup computes: the files of the tree index that can still  *)
(* be read.  It is taken in one step: files that are as indexed when it is *)
(* done were so all along, and of others AnswersThePresent says nothing.   *)
InputsHash(c, index) == [f \in {f \in Reads[c] : index[f] # 0 /\ content[f] # 0} |-> content[f]]
IsCommandCacheable(c) == Reads[c] # {}

(* shouldTransitiveSkip.                                                   *)
ShouldTransitiveSkip(c, hits) == Validates[c] # {} /\ Validates[c] \subseteq hits

Init ==
  /\ content = [f \in Files |-> 0] /\ stamp = [f \in Files |-> 0] /\ writes = 0
  /\ results = {} /\ metas = {} /\ earned = {}
  /\ hitsFile = [p \in Pipelines |-> NoHits]
  /\ run = [p \in Pipelines |-> NoRun]

(* Authors write and remove files while pipelines run.                     *)
Edit(f) ==
  /\ f \in Authored /\ writes < MaxWrites
  /\ writes' = writes + 1
  /\ content' = [content EXCEPT ![f] = writes + 1]
  /\ stamp' = [stamp EXCEPT ![f] = writes + 1]
  /\ UNCHANGED <<results, metas, hitsFile, run, earned>>

Remove(f) ==
  /\ f \in Authored /\ content[f] # 0
  /\ content' = [content EXCEPT ![f] = 0] /\ stamp' = [stamp EXCEPT ![f] = 0]
  /\ UNCHANGED <<writes, results, metas, hitsFile, run, earned>>

(* buildWorkspaceTreeIndex: once for a run.  A forced run clears the hits. *)
BuildWorkspaceTreeIndex(p, mode) ==
  /\ run[p].phase = "idle"
  /\ run' = [run EXCEPT ![p] = [NoRun EXCEPT !.phase = "indexed", !.mode = mode, !.index = stamp]]
  /\ hitsFile' = IF mode = "force" THEN [q \in Pipelines |-> NoHits] ELSE hitsFile
  /\ UNCHANGED <<content, stamp, writes, results, metas, earned>>

(* loadImportedCacheHits: what the other pipelines left in the last half   *)
(* hour.                                                                   *)
LoadImportedCacheHits(p) ==
  /\ run[p].phase = "indexed"
  /\ run' = [run EXCEPT ![p].phase = "step", ![p].step = 1,
       ![p].hits = UNION {hitsFile[q].commands : q \in {q \in Pipelines \ {p} : hitsFile[q].age = "fresh"}}]
  /\ UNCHANGED <<content, stamp, writes, results, metas, hitsFile, earned>>

Ended(r) == [r EXCEPT !.phase = "persist", !.step = 0, !.index = NoSeen, !.seen = NoSeen,
                      !.inputs = NoInputs, !.mode = "normal"]
Advanced(r, p) ==
  IF r.step = Len(Steps[p]) THEN Ended(r)
  ELSE [r EXCEPT !.phase = "step", !.step = @ + 1, !.seen = NoSeen, !.inputs = NoInputs]

(* SqliteCacheLayer: a table of entries by command, site and what key      *)
(* picks; get finds the one entry of a key, set replaces it.               *)
Get(table, c, site) == {e \in table : e.command = c /\ e.site = site}
Set(table, entry, key) ==
  {e \in table : e \notin Get(table, entry.command, entry.site) \/ e[key] # entry[key]} \cup {entry}

(* What the tree index tells of the files of a command.                    *)
IndexMetadata(c, p) == [f \in {f \in Reads[c] : run[p].index[f] # 0} |-> run[p].index[f]]

\* Fault: the fast path compares the paths of the metadata only.
FastPathByPath(c, p) ==
  IF IndexMetadata(c, p) = NoSeen THEN {}
  ELSE {m.hash : m \in {m \in Get(metas, c, Site[p]) : DOMAIN m.metadata = DOMAIN IndexMetadata(c, p)}}

(* tryMtimeFastPath: the metadata of the index, without a look at the      *)
(* files, gives the inputs hash.                                           *)
MtimeFastPath(c, p) ==
  IF IndexMetadata(c, p) = NoSeen THEN {}
  ELSE {m.hash : m \in {m \in Get(metas, c, Site[p]) : m.metadata = IndexMetadata(c, p)}}

(* getCachedCommandResult.                                                 *)
CachedResult(c, p, hashes) ==
  {e \in Get(results, c, Site[p]) : e.hash \in hashes}

(* tryCacheRead: the fast path first, then the hash of the inputs.         *)
CacheRead(c, p) ==
  IF run[p].mode # "normal" \/ ~ IsCommandCacheable(c) THEN {}
  ELSE LET fast == CachedResult(c, p, MtimeFastPath(c, p))
       IN  IF fast # {} THEN fast ELSE CachedResult(c, p, {InputsHash(c, run[p].index)})

Refused(p) == Site[p] = "none" /\ Command(p) \in AppScoped

(* A workspace pipeline refuses an app-scoped step; the error ends the run *)
(* before anything is persisted.                                           *)
RefuseStep(p) ==
  /\ run[p].phase = "step" /\ Refused(p)
  /\ run' = [run EXCEPT ![p] = NoRun]
  /\ UNCHANGED <<content, stamp, writes, results, metas, hitsFile, earned>>

SkipStep(p) ==
  /\ run[p].phase = "step" /\ ~ Refused(p)
  /\ ShouldTransitiveSkip(Command(p), run[p].hits)
  /\ run' = [run EXCEPT ![p] = Advanced(@, p)]
  /\ UNCHANGED <<content, stamp, writes, results, metas, hitsFile, earned>>

(* The cache answers; only a workspace pipeline counts it as a hit.        *)
CachedStep(p) ==
  /\ run[p].phase = "step" /\ ~ Refused(p)
  /\ ~ ShouldTransitiveSkip(Command(p), run[p].hits)
  /\ CacheRead(Command(p), p) # {}
  /\ LET counted == IF Site[p] = "none" THEN {Command(p)} ELSE {}
     IN  /\ run' = [run EXCEPT ![p] = [Advanced(@, p) EXCEPT !.hits = run[p].hits \cup counted]]
         /\ earned' = earned \cup counted
  /\ UNCHANGED <<content, stamp, writes, results, metas, hitsFile>>

(* executeRegisteredCommand begins: it reads its inputs as they are now.   *)
StartStep(p) ==
  /\ run[p].phase = "step" /\ ~ Refused(p)
  /\ ~ ShouldTransitiveSkip(Command(p), run[p].hits)
  /\ CacheRead(Command(p), p) = {}
  /\ run' = [run EXCEPT ![p].phase = "running", ![p].seen = Present(Command(p))]
  /\ UNCHANGED <<content, stamp, writes, results, metas, hitsFile, earned>>

(* A generated file is determined by the inputs its command has seen.      *)
Generated(seen) == Max({0} \cup {seen[f] : f \in DOMAIN seen})
Written(p) == IF run[p].mode = "dry" \/ Generated(run[p].seen) = 0 THEN {} ELSE Writes[Command(p)]

(* The command succeeds; tryCacheWrite goes on to hash the inputs again,   *)
(* as they are by then.                                                    *)
FinishStep(p) ==
  LET c == Command(p)
      out == Written(p)
      left == {f \in Reads[c] : run[p].index[f] # 0}
  IN  /\ run[p].phase = "running" /\ out \cap Reads[c] = {}
      /\ out = {} \/ writes < MaxWrites
      /\ writes' = IF out = {} THEN writes ELSE writes + 1
      /\ content' = [f \in Files |-> IF f \in out THEN Generated(run[p].seen) ELSE content[f]]
      /\ stamp' = [f \in Files |-> IF f \in out THEN writes + 1 ELSE stamp[f]]
      /\ run' = [run EXCEPT ![p] =
           IF run[p].mode = "dry" \/ ~ IsCommandCacheable(c) THEN Advanced(@, p)
           ELSE [@ EXCEPT !.phase = "hashing", !.inputs = [NoInputs EXCEPT !.left = left]]]
      /\ UNCHANGED <<results, metas, hitsFile, earned>>

(* computeInputsHash, file by file: its contents are read, and in a step   *)
(* of its own its metadata; an absent file (0) adds nothing.  was is       *)
(* history: the metadata of what was read.                                 *)
With(g, f, v) == IF v = 0 THEN g ELSE [x \in DOMAIN g \cup {f} |-> IF x = f THEN v ELSE g[x]]

FingerprintFile(p, f) ==
  LET inputs == run[p].inputs
  IN  /\ run[p].phase = "hashing" /\ f \in inputs.left
      /\ DOMAIN inputs.hash = DOMAIN inputs.metadata
      /\ run' = [run EXCEPT ![p].inputs.left = inputs.left \ {f},
           ![p].inputs.hash = With(inputs.hash, f, content[f]),
           ![p].inputs.was = With(inputs.was, f, stamp[f])]
      /\ UNCHANGED <<content, stamp, writes, results, metas, hitsFile, earned>>

(* A file that has gone since it was read makes stat throw: nothing is     *)
(* stored, and the run ends without a word to the others.                  *)
StatFile(p, f) ==
  LET inputs == run[p].inputs
  IN  /\ run[p].phase = "hashing" /\ f \in DOMAIN inputs.hash \ DOMAIN inputs.metadata
      /\ run' = [run EXCEPT ![p] =
           IF stamp[f] = 0 THEN NoRun
           ELSE [run[p] EXCEPT !.inputs.metadata = With(inputs.metadata, f, stamp[f])]]
      /\ UNCHANGED <<content, stamp, writes, results, metas, hitsFile, earned>>

(* setCachedCommandResult, and then the mapping for the fast path.         *)
StoreResult(p) ==
  LET c == Command(p)
      inputs == run[p].inputs
  IN  /\ run[p].phase = "hashing" /\ inputs.left = {} /\ DOMAIN inputs.hash = DOMAIN inputs.metadata
      /\ results' = Set(results, [command |-> c, site |-> Site[p], hash |-> inputs.hash,
                                  seen |-> run[p].seen], "hash")
      /\ run' = [run EXCEPT ![p] = IF inputs.metadata = NoSeen THEN Advanced(@, p)
                                   ELSE [@ EXCEPT !.phase = "stored"]]
      /\ UNCHANGED <<content, stamp, writes, metas, hitsFile, earned>>

(* whole is history: nothing was written between a file's contents and its *)
(* metadata.                                                               *)
StoreMetadata(p) ==
  LET inputs == run[p].inputs
  IN  /\ run[p].phase = "stored"
      /\ metas' = Set(metas, [command |-> Command(p), site |-> Site[p], metadata |-> inputs.metadata,
                              hash |-> inputs.hash, whole |-> inputs.metadata = inputs.was], "metadata")
      /\ run' = [run EXCEPT ![p] = Advanced(@, p)]
      /\ UNCHANGED <<content, stamp, writes, results, hitsFile, earned>>

(* It fails: nothing is stored, and the run goes on to its end.            *)
FailStep(p) ==
  /\ run[p].phase = "running"
  /\ run' = [run EXCEPT ![p] = Ended(@)]
  /\ UNCHANGED <<content, stamp, writes, results, metas, hitsFile, earned>>

(* persistCacheHits reads the file of all pipelines and writes it back.    *)
ReadHitsFile(p) ==
  /\ run[p].phase = "persist"
  /\ run' = [run EXCEPT ![p].phase = "write", ![p].file = [hitsFile EXCEPT ![p] = NoHits]]
  /\ UNCHANGED <<content, stamp, writes, results, metas, hitsFile, earned>>

PersistCacheHits(p) ==
  /\ run[p].phase = "write"
  /\ hitsFile' = [run[p].file EXCEPT ![p] = [commands |-> run[p].hits, age |-> "fresh"]]
  /\ run' = [run EXCEPT ![p] = NoRun]
  /\ UNCHANGED <<content, stamp, writes, results, metas, earned>>

(* Half an hour passes, or clearing the cache by hand.                     *)
Age(p) ==
  /\ hitsFile[p].age = "fresh"
  /\ hitsFile' = [hitsFile EXCEPT ![p].age = "stale"]
  /\ UNCHANGED <<content, stamp, writes, results, metas, run, earned>>

ClearCache ==
  /\ results # {}
  /\ results' = {} /\ metas' = {}
  /\ UNCHANGED <<content, stamp, writes, hitsFile, run, earned>>

Next ==
  \/ \E f \in Files : Edit(f) \/ Remove(f)
  \/ \E p \in Pipelines :
       \/ \E mode \in Modes[p] : BuildWorkspaceTreeIndex(p, mode)
       \/ LoadImportedCacheHits(p) \/ RefuseStep(p) \/ SkipStep(p) \/ CachedStep(p)
       \/ StartStep(p) \/ FinishStep(p) \/ FailStep(p)
       \/ \E f \in Files : FingerprintFile(p, f) \/ StatFile(p, f)
       \/ StoreResult(p) \/ StoreMetadata(p)
       \/ ReadHitsFile(p) \/ PersistCacheHits(p) \/ Age(p)
  \/ ClearCache

Spec == Init /\ [][Next]_vars
-----------------------------------------------------------------------------
TypeOK ==
  /\ content \in [Files -> 0..MaxWrites] /\ stamp \in [Files -> 0..MaxWrites]
  /\ writes \in 0..MaxWrites /\ earned \subseteq Commands
  /\ \A p \in Pipelines :
       /\ run[p].phase \in {"idle", "indexed", "step", "running", "hashing", "stored", "persist",
                             "write"}
       /\ run[p].mode \in {"normal", "force", "dry"} /\ run[p].hits \subseteq Commands
       /\ hitsFile[p].commands \subseteq Commands /\ hitsFile[p].age \in {"fresh", "stale"}

(* A stored report is exact when its key names what the command has seen.  *)
Exact(e) == e.hash = [f \in {f \in Reads[e.command] : e.seen[f] # 0} |-> e.seen[f]]

(* While the files a command reads are as the run's index has them, every  *)
(* exact report the cache would answer with, whether by its hash or by the *)
(* metadata alone, was made from what those files hold now -- unless the   *)
(* metadata was stored by a step whose input was written between its hash  *)
(* and its stat: those are two reads, and nothing notices.                 *)
AnswersThePresent ==
  \A p \in Pipelines : run[p].phase = "step" =>
    LET c == Command(p)
        whole == \A m \in Get(metas, c, Site[p]) : m.metadata = IndexMetadata(c, p) => m.whole
    IN  whole /\ (\A f \in Reads[c] : stamp[f] = run[p].index[f]) =>
          \A e \in CacheRead(c, p) : Exact(e) => e.seen = Present(c)

(* A command counts as a cache hit, in a run or in the file runs share,    *)
(* only if the cache has answered for it: no lost update, import or        *)
(* failure adds a name.                                                    *)
HitsAreEarned ==
  \A p \in Pipelines : run[p].hits \subseteq earned /\ hitsFile[p].commands \subseteq earned
=============================================================================
