------------------------- MODULE IntegrityRegistry --------------------------
(* The integrity registry of a site (integrity/): the identity, revision    *)
(* and hash of every managed file, kept in four kinds of JSON files that a  *)
(* command reads, recomputes and writes back one after another, while the   *)
(* site is edited, staged and committed under it.                           *)
EXTENDS Naturals, FiniteSets, Sequences, SequencesExt

CONSTANTS
  Paths,      \* the managed paths, in the order localeCompare gives them
  Dir,        \* the directory of each
  Contents,   \* what a file may hold: positive numbers
  MaxEdits,   \* bounds of the model: edits of the site,
  MaxRuns,    \* commands run,
  MaxCrashes, \* crashes of a command,
  MaxIds      \* entities ever created

PathSet == Range(Paths)
Dirs == {Dir[p] : p \in PathSet}
Absent == 0
Ids == 1..MaxIds
NoId == 0

VARIABLES
  files,     \* the working tree
  index,     \* what git has staged: git ls-files and the staged contents
  head,      \* the last commit,
  parent,    \* and the one before it
  touched,   \* the commits that changed a path, its renames followed
  entities,  \* index/entities.by-id.json
  paths,     \* index/paths.current.json
  manifests, \* manifests/<dir>/versions.json, the row of each path
  deletedLog,\* state/deleted-log.json
  job,       \* the command that runs, with what it holds in memory
  used,      \* uuidv7 never gives an id twice
  edits, runs, crashes,
  settled,   \* history: the last command that wrote ended, and the site it saw
             \* has not been edited since it began,
  torn       \* and an init crashed and none has ended since

site == <<files, index, head, parent, touched>>
registry == <<entities, paths, manifests, deletedLog>>
vars == <<site, registry, job, used, edits, runs, crashes, settled, torn>>

NoEntity == [path |-> Paths[1], hash |-> Absent, revision |-> 0, status |-> "none"]
Known(ent, id) == id # NoId /\ ent[id].status # "none"
NoRow == [id |-> NoId, hash |-> Absent, revision |-> 0, status |-> "none"]
(* entityToManifestRecord.                                                  *)
EntityToManifestRecord(id, e) == [id |-> id, hash |-> e.hash, revision |-> e.revision, status |-> e.status]

Idle == [at |-> "idle", cmd |-> "none", next |-> <<>>, changes |-> <<>>, dirty |-> {}, managed |-> {}, stale |-> {}]

---------------------------------------------------------------------------
(* git.                                                                     *)

(* git ls-files, whether or not the file is still on disk.                  *)
GetTrackedFiles == {p \in PathSet : index[p] # Absent}
(* discoverManagedFiles: the policy's include and exclude lists leave Paths. *)
Discover == GetTrackedFiles
DiscoverManagedDirectories == {Dir[p] : p \in Discover}

(* Renames git pairs: what went and what came with the same content.        *)
Renamed(old, new) ==
  LET gone == {p \in PathSet : old[p] # Absent /\ new[p] = Absent}
      come == {p \in PathSet : old[p] = Absent /\ new[p] # Absent}
      pairs == {m \in gone \X come : old[m[1]] = new[m[2]]}
      Matching(r) == \A m, n \in r : m # n => m[1] # n[1] /\ m[2] # n[2]
  IN  CHOOSE r \in SUBSET pairs :
        Matching(r) /\ \A q \in SUBSET pairs : Matching(q) => Cardinality(q) <= Cardinality(r)
Ends(renamed) == {m[1] : m \in renamed} \cup {m[2] : m \in renamed}
Nothing == [added |-> {}, modified |-> {}, deleted |-> {}, renamed |-> {}]

ParseNameStatus(old, new) ==
  LET renamed == Renamed(old, new)
      single == PathSet \ Ends(renamed)
  IN  [added |-> {p \in single : old[p] = Absent /\ new[p] # Absent},
       modified |-> {p \in single : old[p] # Absent /\ new[p] # Absent /\ old[p] # new[p]},
       deleted |-> {p \in single : old[p] # Absent /\ new[p] = Absent}, renamed |-> renamed]

(* The letters of both columns together; an untracked file has a line of its *)
(* own, and a path staged and then removed counts as deleted.               *)
ParsePorcelainStatus ==
  LET renamed == Renamed(head, index)
      single == PathSet \ Ends(renamed)
      deleted == {p \in single : \/ head[p] # Absent /\ index[p] = Absent
                                 \/ index[p] # Absent /\ files[p] = Absent}
      added == {p \in single \ deleted : head[p] = Absent /\ index[p] # Absent}
  IN  [added |-> added \cup {p \in PathSet : index[p] = Absent /\ files[p] # Absent},
       modified |-> {p \in (single \ deleted) \ added :
                       index[p] # Absent /\ (head[p] # index[p] \/ index[p] # files[p])},
       deleted |-> deleted, renamed |-> renamed]
HasAnyChanges(c) == c # Nothing
(* The working tree's changes, and those of the last commit when it has none; *)
(* any failure of git is no change at all.                                  *)
GetChangedPaths ==
  {IF HasAnyChanges(ParsePorcelainStatus) THEN ParsePorcelainStatus ELSE ParseNameStatus(parent, head), Nothing}

GetFileRevisionFromHistory(p) == IF touched[p] = 0 THEN 1 ELSE touched[p]

---------------------------------------------------------------------------
(* The site is edited, staged and committed.                                *)

Edit == edits < MaxEdits /\ edits' = edits + 1 /\ settled' = FALSE
        /\ UNCHANGED <<registry, job, used, runs, crashes, torn>>
Write(p, c) ==
  /\ Edit /\ files[p] # c /\ files' = [files EXCEPT ![p] = c]
  /\ UNCHANGED <<index, head, parent, touched>>
Stage(p) ==
  /\ Edit /\ index[p] # files[p] /\ index' = [index EXCEPT ![p] = files[p]]
  /\ UNCHANGED <<files, head, parent, touched>>
GitMove(p, q) ==
  /\ Edit /\ index[p] # Absent /\ files[p] # Absent /\ index[q] = Absent /\ files[q] = Absent
  /\ files' = [files EXCEPT ![p] = Absent, ![q] = files[p]]
  /\ index' = [index EXCEPT ![p] = Absent, ![q] = index[p]]
  /\ UNCHANGED <<head, parent, touched>>
Commit ==
  /\ Edit /\ head # index /\ head' = index /\ parent' = head
  /\ LET renamed == Renamed(head, index) IN
     touched' = [p \in PathSet |->
       IF \E m \in renamed : m[2] = p THEN touched[(CHOOSE m \in renamed : m[2] = p)[1]]
       ELSE touched[p] + (IF index[p] # Absent /\ head[p] # index[p] THEN 1 ELSE 0)]
  /\ UNCHANGED <<files, index>>

---------------------------------------------------------------------------
(* integrity.update: what was read first, then one pass over a copy r of the *)
(* registry.                                                                *)

(* The registry files; one that is missing reads as empty.                  *)
LoadEntitiesById == entities
LoadPathsCurrent == paths
LoadDeletedLog == deletedLog
Loaded == [entities |-> LoadEntitiesById, paths |-> LoadPathsCurrent, manifests |-> manifests,
           log |-> LoadDeletedLog, dirty |-> {}, last |-> used]

(* A file that cannot be read is not out of sync.                           *)
FindOutOfSyncActivePaths(managed) ==
  {p \in managed : /\ Known(entities, paths[p]) /\ entities[paths[p]].status = "active"
                   /\ files[p] \notin {Absent, entities[paths[p]].hash}}

RemoveManifestRecord(r, p) == [r EXCEPT !.manifests[p] = NoRow, !.dirty = @ \cup {Dir[p]}]
UpsertManifestRecord(r, p, id) ==
  [r EXCEPT !.manifests[p] = EntityToManifestRecord(id, r.entities[id]), !.dirty = @ \cup {Dir[p]}]

(* Content that changed with the move counts a revision; a file that cannot *)
(* be read keeps the old hash.                                              *)
MoveEntity(r, move) ==
  LET e == r.entities[move.id]
      nextHash == IF files[move.to] = Absent THEN e.hash ELSE files[move.to]
      moved == [r EXCEPT !.entities[move.id] = [path |-> move.to, hash |-> nextHash, status |-> "active",
                                                revision |-> e.revision + (IF nextHash = e.hash THEN 0 ELSE 1)],
                         !.paths = [@ EXCEPT ![move.from] = NoId, ![move.to] = move.id]]
  IN  IF ~Known(r.entities, move.id) THEN r
      ELSE UpsertManifestRecord(RemoveManifestRecord(moved, move.from), move.to, move.id)

MarkDeleted(r, p) ==
  LET id == r.paths[p] IN
  IF ~Known(r.entities, id) THEN r
  ELSE RemoveManifestRecord([r EXCEPT !.entities[id].status = "deleted", !.paths[p] = NoId,
                                      !.log = @ \cup {id}], p)

(* A fresh identity: revision 1, whatever the history of the path.          *)
AddNewEntity(r, p) ==
  LET id == r.last + 1 IN
  UpsertManifestRecord([r EXCEPT !.entities[id] = [path |-> p, hash |-> files[p], revision |-> 1, status |-> "active"],
                                 !.paths[p] = id, !.last = id], p, id)

(* Fault: the row of the directory manifest is left as it was.              *)
UpdateEntityOnly(r, p) ==
  LET id == r.paths[p] IN
  IF ~Known(r.entities, id) \/ r.entities[id].status # "active" \/ files[p] = r.entities[id].hash THEN r
  ELSE [r EXCEPT !.entities[id].hash = files[p], !.entities[id].revision = @ + 1]

UpdateModifiedEntity(r, p) ==
  LET id == r.paths[p] IN
  IF ~Known(r.entities, id) \/ r.entities[id].status # "active" \/ files[p] = r.entities[id].hash THEN r
  ELSE UpsertManifestRecord([r EXCEPT !.entities[id].hash = files[p], !.entities[id].revision = @ + 1], p, id)

Ordered(S) == SelectSeq(Paths, LAMBDA p : p \in S)
(* Candidates are made of the changes and of the registry as it was read.   *)
DeletedCandidates(c, managed) ==
  Ordered({p \in c.deleted \cup {q \in PathSet \ managed :
                                   Known(entities, paths[q]) /\ entities[paths[q]].status = "active"} : paths[p] # NoId})
AddedCandidates(c, managed) == Ordered({p \in managed : p \in c.added \/ paths[p] = NoId})
ModifiedCandidates(c, managed, stale) ==
  Ordered({p \in managed : paths[p] # NoId /\ p \in c.modified \cup {m[2] : m \in c.renamed} \cup stale})

(* git's renames of bound paths; the file keeps its identity.               *)
ExplicitMoves(c, managed) ==
  {[id |-> paths[m[1]], from |-> m[1], to |-> m[2]] : m \in {n \in c.renamed : paths[n[1]] # NoId /\ n[2] \in managed}}

(* detectMoves reads the entities again, takes the oldest that ever had the *)
(* deleted path, and matches by hash; of equal hashes the last one stands.  *)
DetectMoves(deleted, added) ==
  LET At(p) == {id \in Ids : Known(entities, id) /\ entities[id].path = p}
      Oldest(p) == CHOOSE id \in At(p) : \A o \in At(p) : id <= o
      Matches(h) == SelectSeq(deleted, LAMBDA p : At(p) # {} /\ entities[Oldest(p)].hash = h)
      moved == SelectSeq(added, LAMBDA q : files[q] # Absent /\ Matches(files[q]) # <<>>)
  IN  [k \in DOMAIN moved |-> [id |-> Oldest(Last(Matches(files[moved[k]]))),
                               from |-> Last(Matches(files[moved[k]])), to |-> moved[k]]]

(* Moves, each end at most once; then deletions, additions, modifications. *)
ApplyMove(s, move) ==
  IF move.from \in s.froms \/ move.to \in s.tos THEN s
  ELSE [r |-> MoveEntity(s.r, move), froms |-> s.froms \cup {move.from}, tos |-> s.tos \cup {move.to}]
Without(seq, S) == SelectSeq(seq, LAMBDA p : p \notin S)
RunUpdate(c, managed, stale) ==
  LET deleted == DeletedCandidates(c, managed)
      added == AddedCandidates(c, managed)
      explicit == FoldLeft(ApplyMove, [r |-> Loaded, froms |-> {}, tos |-> {}],
                           SetToSeq(ExplicitMoves(c, managed)))
      moved == FoldLeft(ApplyMove, explicit, DetectMoves(Without(deleted, explicit.froms), Without(added, explicit.tos)))
      marked == FoldLeft(MarkDeleted, moved.r, Without(deleted, moved.froms))
      grown == FoldLeft(AddNewEntity, marked, Without(added, moved.tos))
  IN  FoldLeft(LAMBDA r, p : IF r.paths[p] = NoId THEN r ELSE UpdateModifiedEntity(r, p),
               grown, ModifiedCandidates(c, managed, stale))

(* byteHashFile rejects when a file to add, or a modified one that is       *)
(* active, has gone from the disk: the command throws before it writes.     *)
Throws(result) ==
  \E id \in Ids : result.entities[id].hash = Absent /\ result.entities[id].status # "none"

---------------------------------------------------------------------------
(* The commands.                                                            *)

Begin == job.at = "idle" /\ runs < MaxRuns /\ runs' = runs + 1
Leave == job' = Idle
Hold(cmd, at, r) == job' = [Idle EXCEPT !.at = at, !.cmd = cmd, !.next = r, !.dirty = r.dirty]

RunIntegrityUpdate(c) ==
  /\ Begin /\ settled' = TRUE /\ c \in GetChangedPaths
  /\ job' = [Idle EXCEPT !.at = "compute", !.cmd = "update", !.changes = c, !.managed = Discover,
                         !.stale = FindOutOfSyncActivePaths(Discover)]
  /\ UNCHANGED <<site, registry, used, edits, crashes, torn>>

Compute ==
  /\ job.at = "compute"
  /\ LET r == RunUpdate(job.changes, job.managed, job.stale) IN
     /\ r.last <= MaxIds
     /\ IF Throws(r) THEN Leave /\ settled' = FALSE /\ used' = used
        ELSE Hold("update", "manifests", r) /\ used' = r.last /\ UNCHANGED settled
  /\ UNCHANGED <<site, registry, edits, runs, crashes, torn>>

(* integrity.init begins again: fresh identities, only the manifests of     *)
(* directories that have files, an empty log.  A tracked file that is not   *)
(* on disk stops it.                                                        *)
Initialized ==
  LET tracked == Ordered(Discover)
      IdOf(p) == used + CHOOSE k \in DOMAIN tracked : tracked[k] = p
      EntityOf(p) == [path |-> p, hash |-> files[p], revision |-> GetFileRevisionFromHistory(p), status |-> "active"]
  IN  [entities |-> [id \in Ids |-> IF \E p \in Discover : IdOf(p) = id
                                    THEN EntityOf(CHOOSE p \in Discover : IdOf(p) = id) ELSE NoEntity],
       paths |-> [p \in PathSet |-> IF p \in Discover THEN IdOf(p) ELSE NoId],
       manifests |-> [p \in PathSet |-> IF p \in Discover THEN EntityToManifestRecord(IdOf(p), EntityOf(p)) ELSE NoRow],
       log |-> {}, dirty |-> DiscoverManagedDirectories, last |-> used + Len(tracked)]
RunIntegrityInit ==
  /\ Begin /\ settled' = TRUE /\ used + Cardinality(Discover) <= MaxIds /\ \A p \in Discover : files[p] # Absent
  /\ Hold("init", "manifests", Initialized) /\ used' = Initialized.last
  /\ UNCHANGED <<site, registry, edits, crashes, torn>>

(* The revisions of the history replace those of the entities; a row is     *)
(* rewritten only for an entity whose revision was another.                 *)
Backfilled ==
  LET changed == {id \in Ids : Known(entities, id) /\ entities[id].revision # GetFileRevisionFromHistory(entities[id].path)}
      next == [id \in Ids |-> IF id \in changed
                 THEN [entities[id] EXCEPT !.revision = GetFileRevisionFromHistory(entities[id].path)] ELSE entities[id]]
      bound == {p \in PathSet : manifests[p] # NoRow /\ paths[p] \in changed /\ entities[paths[p]].path = p
                                  /\ entities[paths[p]].status = "active"}
  IN  [Loaded EXCEPT !.entities = next, !.dirty = {Dir[p] : p \in bound},
         !.manifests = [p \in PathSet |-> IF p \in bound THEN EntityToManifestRecord(paths[p], next[paths[p]]) ELSE manifests[p]]]
RunIntegrityBackfillRevisions ==
  /\ Begin /\ Hold("backfill", "entities", Backfilled)
  /\ UNCHANGED <<site, registry, used, edits, crashes, settled, torn>>

---------------------------------------------------------------------------
(* The files are written one after another.                                 *)

SaveDirectoryManifest(d) ==
  /\ job.at = "manifests" /\ d \in job.dirty
  /\ manifests' = [p \in PathSet |-> IF Dir[p] = d THEN job.next.manifests[p] ELSE manifests[p]]
  /\ job' = [job EXCEPT !.dirty = @ \ {d}]
  /\ UNCHANGED <<site, entities, paths, deletedLog, used, edits, runs, crashes, settled, torn>>
(* Fault: the paths are written before the entities they name.              *)
PathsFirst(at) == CASE job.cmd = "backfill" /\ at = "entities" -> "manifests"
                    [] job.cmd = "backfill" -> "log"
                    [] at = "manifests" -> "paths"
                    [] at = "paths" -> "entities"
                    [] at = "entities" -> "log"
After(at) == CASE job.cmd = "backfill" /\ at = "entities" -> "manifests"
               [] job.cmd = "backfill" -> "log"
               [] at = "manifests" -> "entities"
               [] at = "entities" -> "paths"
               [] at = "paths" -> "log"
(* manifestStore.saveAll is over.                                           *)
SavedAll ==
  /\ job.at = "manifests" /\ job.dirty = {}
  /\ job' = [job EXCEPT !.at = After("manifests")]
  /\ UNCHANGED <<site, registry, used, edits, runs, crashes, settled, torn>>
SaveEntitiesById ==
  /\ job.at = "entities" /\ entities' = job.next.entities
  /\ job' = [job EXCEPT !.at = After("entities")]
  /\ UNCHANGED <<site, paths, manifests, deletedLog, used, edits, runs, crashes, settled, torn>>
SavePathsCurrent ==
  /\ job.at = "paths" /\ paths' = job.next.paths
  /\ job' = [job EXCEPT !.at = After("paths")]
  /\ UNCHANGED <<site, entities, manifests, deletedLog, used, edits, runs, crashes, settled, torn>>
SaveDeletedLog ==
  /\ job.at = "log" /\ deletedLog' = job.next.log /\ Leave
  /\ torn' = (torn /\ job.cmd # "init")
  /\ UNCHANGED <<site, entities, paths, manifests, used, edits, runs, crashes, settled>>

Crash ==
  /\ job.at # "idle" /\ crashes < MaxCrashes /\ crashes' = crashes + 1
  /\ Leave /\ settled' = FALSE /\ torn' = (torn \/ job.cmd = "init")
  /\ UNCHANGED <<site, registry, used, edits, runs>>

---------------------------------------------------------------------------
(* integrity.verify: the errors it reports, by code and place.              *)

(* validateIntegrityJsonSchemas: a managed directory has its manifest.      *)
ManifestExists(d) == \E p \in PathSet : Dir[p] = d /\ manifests[p] # NoRow
LoadExpectedManifests == {d \in DiscoverManagedDirectories : ManifestExists(d)}
SchemaErrors == {<<"SCHEMA_TARGET_MISSING", d>> : d \in DiscoverManagedDirectories \ LoadExpectedManifests}
MissingManifests == {<<"MISSING_DIRECTORY_MANIFEST", d>> : d \in DiscoverManagedDirectories \ LoadExpectedManifests}

BindingErrors ==
  {<<"UNEXPECTED_PATH_BINDING", p>> : p \in {q \in PathSet \ Discover : paths[q] # NoId /\ files[q] = Absent}}
  \cup {<<"DUPLICATE_ACTIVE_ENTITY_ID", p>> :
          p \in {q \in PathSet : paths[q] # NoId /\ \E o \in PathSet \ {q} : paths[o] = paths[q]}}

(* validateRecordShape: of a revision what the model can tell.              *)
ValidateRecordShape(record, p) == {<<"INVALID_REVISION", p>> : x \in {y \in {1} : record.revision < 1}}
CompareManifestAndRegistry(p, row, e) ==
  {<<code, p>> : code \in
     {c \in {"REGISTRY_ENTITY_NOT_ACTIVE"} : e.status # "active"}
     \cup {c \in {"CURRENT_PATH_MISMATCH"} : e.path # p}
     \cup {c \in {"MANIFEST_RECORD_NOT_ACTIVE"} : row.status # "active"}
     \cup {c \in {"REVISION_MISMATCH"} : row.revision # e.revision}
     \cup {c \in {"CONTENT_HASH_MISMATCH_BETWEEN_INDEXES"} : row.hash # e.hash}}
HashErrors(p, row, e) ==
  {<<code, p>> : code \in {c \in {"HASH_MISMATCH_REGISTRY"} : files[p] # e.hash}
                          \cup {c \in {"HASH_MISMATCH_MANIFEST"} : files[p] # row.hash}}
FileErrors(p) ==
  LET id == paths[p]
      row == manifests[p]
  IN  CASE id = NoId -> {<<"MISSING_PATH_BINDING", p>>}
        [] id # NoId /\ ~Known(entities, id) -> {<<"MISSING_REGISTRY_ENTITY", p>>}
        [] Known(entities, id) /\ row = NoRow -> {<<"MISSING_MANIFEST_RECORD", p>>}
        [] OTHER -> ValidateRecordShape(entities[id], p) \cup ValidateRecordShape(row, p)
                    \cup {<<"ENTITY_ID_MISMATCH", q>> : q \in {o \in {p} : row.id # id}}
                    \cup CompareManifestAndRegistry(p, row, entities[id]) \cup HashErrors(p, row, entities[id])

StaleRowErrors ==
  LET rows == {p \in PathSet : manifests[p] # NoRow /\ Dir[p] \in LoadExpectedManifests} IN
  {<<"STALE_MANIFEST_RECORD", p>> : p \in {q \in rows \ Discover : files[q] = Absent}}
  \cup {<<"MANIFEST_ENTITY_MISSING_IN_REGISTRY", p>> : p \in {q \in rows : ~Known(entities, manifests[q].id)}}

ActiveEntities == {id \in Ids : entities[id].status = "active"}
ActiveEntityErrors ==
  {<<"ACTIVE_ENTITY_OUTSIDE_SCOPE", entities[id].path>> :
     id \in {i \in ActiveEntities : entities[i].path \notin Discover /\ files[entities[i].path] = Absent}}
  \cup {<<"REGISTRY_PATH_NOT_BOUND", entities[id].path>> : id \in {i \in ActiveEntities : paths[entities[i].path] # i}}

VerifyIntegrity ==
  SchemaErrors \cup MissingManifests \cup BindingErrors \cup UNION {FileErrors(p) : p \in Discover}
  \cup StaleRowErrors \cup ActiveEntityErrors
(* A managed file that is not on disk makes the hashing reject.             *)
RunVerify == VerifyIntegrity = {} /\ \A p \in Discover : files[p] # Absent

(* getRevisionByPath, for compass.audit: the registry's answer, and the     *)
(* history's for a path it does not bind.                                   *)
GetRevisionByPath(p) ==
  IF Known(entities, paths[p]) THEN entities[paths[p]].revision ELSE GetFileRevisionFromHistory(p)

---------------------------------------------------------------------------
(* A site whose first file has been committed and registered.               *)
First == [p \in PathSet |-> IF p = Paths[1] THEN 1 ELSE Absent]
Init ==
  /\ files = First /\ index = First /\ head = First /\ parent = [p \in PathSet |-> Absent]
  /\ touched = First
  /\ entities = [id \in Ids |-> IF id = 1 THEN [path |-> Paths[1], hash |-> 1, revision |-> 1, status |-> "active"] ELSE NoEntity]
  /\ paths = First
  /\ manifests = [p \in PathSet |-> IF p = Paths[1] THEN [id |-> 1, hash |-> 1, revision |-> 1, status |-> "active"] ELSE NoRow]
  /\ deletedLog = {} /\ job = Idle /\ used = 1 /\ edits = 0 /\ runs = 0 /\ crashes = 0 /\ settled = TRUE /\ torn = FALSE

Next ==
  \/ \E p \in PathSet, c \in Contents \cup {Absent} : Write(p, c)
  \/ \E p \in PathSet : Stage(p)
  \/ \E p, q \in PathSet : GitMove(p, q)
  \/ Commit
  \/ \E c \in GetChangedPaths : RunIntegrityUpdate(c)
  \/ Compute \/ RunIntegrityInit \/ RunIntegrityBackfillRevisions
  \/ \E d \in Dirs : SaveDirectoryManifest(d)
  \/ SavedAll \/ SaveEntitiesById \/ SavePathsCurrent \/ SaveDeletedLog \/ Crash

Spec == Init /\ [][Next]_vars

---------------------------------------------------------------------------
TypeOK ==
  /\ paths \in [PathSet -> Ids \cup {NoId}] /\ DOMAIN entities = Ids
  /\ DOMAIN manifests = PathSet /\ deletedLog \subseteq Ids
  /\ used \in Ids /\ settled \in BOOLEAN

(* Wherever updates and backfills crash, a path is bound to an entity the   *)
(* registry knows and no entity is bound to two paths: the order of the four *)
(* writes sees to it.  Only an init, which forgets the old entities first,  *)
(* leaves bindings without an entity until it has ended.                    *)
BindingsAreKnown ==
  /\ job.cmd # "init" /\ ~torn => \A p \in PathSet : paths[p] # NoId => Known(entities, paths[p])
  /\ \A p, q \in PathSet : paths[p] # NoId /\ paths[p] = paths[q] => p = q

(* When an update or an init ended and nothing was edited since it began,   *)
(* every managed file that is on disk passes the checks integrity.verify    *)
(* makes of it, however it was renamed, deleted and recreated before; only a *)
(* crash in between may cost that.                                          *)
ManagedFilesAgree ==
  settled /\ crashes = 0 /\ job.at = "idle" /\ (\A p \in Discover : files[p] # Absent)
    => \A p \in Discover : FileErrors(p) = {}

(* Not kept: integrity.verify itself may fail after that, for an entity     *)
(* that stays active and unbound when a file is recreated and moved again.  *)
VerifiesAfterUpdate ==
  settled /\ crashes = 0 /\ job.at = "idle" /\ (\A p \in Discover : files[p] # Absent) => RunVerify

(* Not kept: nor does the next update repair what a crash left.             *)
HealsAfterCrash ==
  settled /\ job.at = "idle" /\ (\A p \in Discover : files[p] # Absent)
    => \A p \in Discover : FileErrors(p) = {} /\ GetRevisionByPath(p) >= 1
=============================================================================
