---------------------------- MODULE IndexService ----------------------------
(***************************************************************************)
(* The index pipeline: Service.Plan and Service.Execute, run by several    *)
(* processes (CLI, Git hook, MCP server) on one repository whose files are *)
(* being edited, against the database of ProductionStore.                  *)
(*                                                                         *)
(* Execute holds the advisory lock index.lock from before its first read   *)
(* to its return.  Between two of its steps other processes move: editors  *)
(* change files, other indexers poll the lock, and an embedding run writes *)
(* vectors.  A process may stop at every step (error, cancellation, crash):*)
(* the kernel drops its lock and nothing it did is in the database.        *)
(***************************************************************************)
EXTENDS ProductionStore

CONSTANTS
  Indexers,       \* processes that may run Execute
  Unlocked,       \* value of the lock when nobody holds it
  Oversize,       \* contents above max_source_file_bytes: never candidates
  Unsafe,         \* contents the chunker refuses (invalid UTF-8, bad parse)
  MaxGeneration,  \* no run is started once this generation is reached
  MaxVectors      \* bound on the vectors an embedding run stores meanwhile

ASSUME IndexAssumption ==
  /\ Unlocked \notin Indexers
  /\ Oversize \subseteq Contents
  /\ Unsafe \subseteq Contents
  /\ MaxGeneration \in Nat
  /\ MaxVectors \in Nat

VARIABLES
  disk,      \* the worktree: path -> content or Absent
  lock,      \* holder of index.lock, or Unlocked
  pc,        \* step of Execute each indexer is at
  request,   \* configuration and dry-run flag of the run
  plan,      \* what Plan decided: applied profiles seen, candidates, deleted
  base,      \* the second IndexSnapshot, the base of the publication
  bodies,    \* candidate -> content read so far (Absent: not read yet)
  prepared,  \* the publication built from the above
  onDisk     \* history: contents each path had since the lock was taken

jobVars == <<pc, request, plan, base, bodies, prepared>>
indexVars == <<storeVars, disk, lock, jobVars, onDisk>>

Steps == {"idle", "locking", "planning", "snapshot", "reading", "publishing"}

NoRequest == [config |-> Absent, dry |-> FALSE]
NoPlan == [profiles |-> Absent, candidates |-> {}, deleted |-> {}]
NoBase == [generation |-> 0, files |-> [p \in Paths |-> Absent], profiles |-> Absent]
NothingRead == [p \in Paths |-> Absent]
NoPublication == [updates |-> {}, rekeys |-> {}]

IndexInit ==
  /\ StoreInit
  /\ disk \in FileTables
  /\ lock = Unlocked
  /\ pc = [x \in Indexers |-> "idle"]
  /\ request = [x \in Indexers |-> NoRequest]
  /\ plan = [x \in Indexers |-> NoPlan]
  /\ base = [x \in Indexers |-> NoBase]
  /\ bodies = [x \in Indexers |-> NothingRead]
  /\ prepared = [x \in Indexers |-> NoPublication]
  /\ onDisk = [p \in Paths |-> {}]

-----------------------------------------------------------------------------
(***************************************************************************)
(* What Plan derives from its snapshot and the enumeration of the worktree.*)
(***************************************************************************)

(* Enumerate lists a path that has a regular file within the size limit,   *)
(* Plan keeps the enabled languages.                                       *)
Candidates(cfg) ==
  { p \in Enabled[cfg.index] : disk[p] \notin Oversize \cup {Absent} }

Full(x) == FullRebuildRequired(request[x].config, plan[x].profiles)
Canonical(x) == CanonicalReconcile(request[x].config, plan[x].profiles)
Reconcile(x) == ReconcileRequired(request[x].config, plan[x].profiles)

(* A bug this project can tell: a file that has a row is taken as current.  *)
UpdatedIfNew(x) ==
  { p \in plan[x].candidates : Full(x) \/ base[x].files[p] = Absent }

(* Files parsed again: new or different content, or all on a full rebuild. *)
Updated(x) ==
  { p \in plan[x].candidates : Full(x) \/ bodies[x][p] # base[x].files[p] }

ChangedFiles(x) == [p \in Updated(x) |-> bodies[x][p]]

NoChanges(x) == Updated(x) = {} /\ plan[x].deleted = {} /\ ~Reconcile(x)

(* A bug this project can tell: the stored hashes win over the new ones.    *)
ManifestOfStoredFirst(x) ==
  { <<p, IF base[x].files[p] # Absent THEN base[x].files[p] ELSE bodies[x][p]>> :
      p \in plan[x].candidates }

(* manifestFor: every candidate with its new or its stored hash.           *)
ManifestFor(x) ==
  { <<p, IF p \in Updated(x) THEN bodies[x][p] ELSE base[x].files[p]>> :
      p \in plan[x].candidates }

(* Rows of untouched files, and the key each has in the next generation.   *)
UntouchedRows(x) ==
  { r \in segments : r.path \notin Updated(x) \cup plan[x].deleted }

KeepInput(x, row) == row.input  \* a bug: the stored key is never recomputed

NextInput(x, row) ==
  IF Canonical(x) THEN CanonicalInput(row.path, row.body, request[x].config.canonical)
  ELSE row.input

(* The rows to move to the desired profiles when nothing is parsed again.  *)
SegmentUpdates(x) ==
  { [path |-> r.path, number |-> r.number, input |-> NextInput(x, r)] :
      r \in {s \in UntouchedRows(x) : Reconcile(x) /\ ~Full(x)} }

(* The keys of re-parsed files.                                            *)
ParsedInputs(x) ==
  { r.input : r \in UNION { FileRows(p, bodies[x][p], request[x].config) :
                            p \in Updated(x) } }

(* futureCanonicalInputs: the keys the next generation will need.          *)
FutureInputs(x) ==
  { NextInput(x, r) : r \in {s \in UntouchedRows(x) : ~Full(x)} }
  \cup ParsedInputs(x)

(* Legacy vectors worth copying to the desired serving profile.            *)
PlannedRekeys(x) ==
  IF /\ LegacyServingProfileEquivalent(request[x].config, base[x].profiles, meta.serving)
     /\ meta.generation = base[x].generation
  THEN { v \in vectors : /\ v.serving = meta.serving
                         /\ v.source = base[x].profiles.source
                         /\ v.input \in FutureInputs(x) }
  ELSE {}

Publication(x) ==
  [base     |-> base[x].generation,
   desired  |-> request[x].config,
   manifest |-> ManifestFor(x),
   deleted  |-> plan[x].deleted,
   changed  |-> ChangedFiles(x),
   updates  |-> prepared[x].updates,
   rekeys   |-> prepared[x].rekeys]

-----------------------------------------------------------------------------
Goto(x, step) == pc' = [pc EXCEPT ![x] = step]

(* Return from Execute, with a result or an error: the deferred release.   *)
Return(x) ==
  /\ pc' = [pc EXCEPT ![x] = "idle"]
  /\ lock' = IF lock = x THEN Unlocked ELSE lock
  /\ onDisk' = IF lock = x THEN [p \in Paths |-> {}] ELSE onDisk
  /\ request' = [request EXCEPT ![x] = NoRequest]
  /\ plan' = [plan EXCEPT ![x] = NoPlan]
  /\ base' = [base EXCEPT ![x] = NoBase]
  /\ bodies' = [bodies EXCEPT ![x] = NothingRead]
  /\ prepared' = [prepared EXCEPT ![x] = NoPublication]
  /\ UNCHANGED disk

Call(x) ==
  /\ pc[x] = "idle"
  /\ meta.generation < MaxGeneration
  /\ \E c \in Desired, d \in BOOLEAN :
       request' = [request EXCEPT ![x] = [config |-> c, dry |-> d]]
  /\ Goto(x, "locking")
  /\ UNCHANGED <<storeVars, disk, lock, plan, base, bodies, prepared, onDisk>>

(* A bug this project can tell: the lock is opened but not waited for.      *)
EnterUnlocked(x) ==
  /\ pc[x] = "locking"
  /\ lock' = x
  /\ onDisk' = [p \in Paths |-> {disk[p]}]
  /\ Goto(x, "planning")
  /\ UNCHANGED <<storeVars, disk, request, plan, base, bodies, prepared>>

(* acquireLock: flock(LOCK_EX | LOCK_NB), polled.                          *)
AcquireLock(x) ==
  /\ pc[x] = "locking"
  /\ lock = Unlocked
  /\ lock' = x
  /\ onDisk' = [p \in Paths |-> {disk[p]}]
  /\ Goto(x, "planning")
  /\ UNCHANGED <<storeVars, disk, request, plan, base, bodies, prepared>>

(* Plan: a read snapshot of the store, then the enumeration.               *)
PlanRun(x) ==
  /\ pc[x] = "planning"
  /\ LET live == Candidates(request[x].config)
     IN plan' = [plan EXCEPT ![x] =
                   [profiles   |-> meta.profiles,
                    candidates |-> live,
                    deleted    |-> { p \in Paths : files[p] # Absent } \ live]]
  /\ Goto(x, "snapshot")
  /\ UNCHANGED <<storeVars, disk, lock, request, base, bodies, prepared, onDisk>>

(* The second IndexSnapshot, which supplies the base generation.           *)
TakeBase(x) ==
  /\ pc[x] = "snapshot"
  /\ base' = [base EXCEPT ![x] = [generation |-> meta.generation,
                                  files      |-> files,
                                  profiles   |-> meta.profiles]]
  /\ Goto(x, "reading")
  /\ UNCHANGED <<storeVars, disk, lock, request, plan, bodies, prepared, onDisk>>

Unread(x) == { p \in plan[x].candidates : bodies[x][p] = Absent }

(* readOne and prepare.  A file that vanished, outgrew the limit or cannot *)
(* be parsed fails the run; one that only has to be compared is not parsed.*)
ReadFile(x, p) ==
  /\ pc[x] = "reading"
  /\ p \in Unread(x)
  /\ disk[p] \notin Oversize \cup {Absent}
  /\ disk[p] \in Unsafe => (~Full(x) /\ disk[p] = base[x].files[p])
  /\ bodies' = [bodies EXCEPT ![x][p] = disk[p]]
  /\ UNCHANGED <<storeVars, disk, lock, pc, request, plan, base, prepared, onDisk>>

(* Every candidate read: ReconciliationSegments, futureCanonicalInputs and *)
(* PlanLegacyServingVectorRekeys read the store once more.                 *)
PreparePublication(x) ==
  /\ pc[x] = "reading"
  /\ Unread(x) = {}
  /\ Full(x) \/ meta.generation = base[x].generation  \* else BASE_GENERATION_CHANGED
  /\ prepared' = [prepared EXCEPT ![x] = [updates |-> SegmentUpdates(x),
                                          rekeys  |-> PlannedRekeys(x)]]
  /\ Goto(x, "publishing")
  /\ UNCHANGED <<storeVars, disk, lock, request, plan, base, bodies, onDisk>>

(* A bug this project can tell: the early return keeps the lock.            *)
ReturnStillLocked(x) ==
  /\ pc[x] = "publishing"
  /\ request[x].dry \/ NoChanges(x)
  /\ Goto(x, "idle")
  /\ UNCHANGED <<storeVars, disk, lock, request, plan, base, bodies, prepared, onDisk>>

(* A dry run and a run that found nothing to do return without publishing. *)
ReturnUnchanged(x) ==
  /\ pc[x] = "publishing"
  /\ request[x].dry \/ NoChanges(x)
  /\ Return(x)
  /\ UNCHANGED storeVars

Publish(x) ==
  /\ pc[x] = "publishing"
  /\ ~request[x].dry
  /\ ~NoChanges(x)
  /\ PublishIndexGeneration(Publication(x))
  /\ Return(x)

(* Every error return, cancellation and crash, a refused publication       *)
(* included: the transaction is rolled back and the lock released.         *)
Abandon(x) ==
  /\ pc[x] # "idle"
  /\ Return(x)
  /\ UNCHANGED storeVars

Execute(x) ==
  \/ Call(x)
  \/ AcquireLock(x)
  \/ PlanRun(x)
  \/ TakeBase(x)
  \/ \E p \in Paths : ReadFile(x, p)
  \/ PreparePublication(x)
  \/ ReturnUnchanged(x)
  \/ Publish(x)
  \/ Abandon(x)

-----------------------------------------------------------------------------
(* The rest of the world.                                                  *)

EditFile(p) ==
  /\ \E c \in (Contents \cup {Absent}) \ {disk[p]} : disk' = [disk EXCEPT ![p] = c]
  /\ onDisk' = [onDisk EXCEPT ![p] = IF lock = Unlocked THEN @ ELSE @ \cup {disk'[p]}]
  /\ UNCHANGED <<storeVars, lock, jobVars>>

(* An embedding run stores the vector of one active input.                 *)
EmbedInput ==
  /\ Cardinality(vectors) < MaxVectors
  /\ meta.profiles \in Desired
  /\ \E i \in ActiveInputs(segments, meta.serving) :
       vectors' = vectors \cup {StoredVector(i, meta.profiles)}
  /\ UNCHANGED <<meta, files, segments, disk, lock, jobVars, onDisk>>

IndexNext ==
  \/ \E x \in Indexers : Execute(x)
  \/ \E p \in Paths : EditFile(p)
  \/ EmbedInput

IndexSpec == IndexInit /\ [][IndexNext]_indexVars

(***************************************************************************)
(* A process that is inside Execute keeps running until it returns; the    *)
(* lock itself is polled and promises nobody a turn, so acquiring it has   *)
(* no fairness.                                                            *)
(***************************************************************************)
Proceed(x) ==
  /\ pc[x] # "locking"
  /\ \/ PlanRun(x)
     \/ TakeBase(x)
     \/ \E p \in Paths : ReadFile(x, p)
     \/ PreparePublication(x)
     \/ ReturnUnchanged(x)
     \/ Publish(x)
     \/ Abandon(x)

FairIndexSpec == IndexSpec /\ \A x \in Indexers : WF_indexVars(Proceed(x))

-----------------------------------------------------------------------------
ConfigOrNone == Configs \cup {Absent}

(* Every variable has the shape its Go counterpart has, and a run between  *)
(* its first read and its return is the holder of index.lock.              *)
IndexTypeOK ==
  /\ meta.generation \in Nat
  /\ meta.profiles \in Configs
  /\ files \in FileTables
  /\ disk \in FileTables
  /\ lock \in Indexers \cup {Unlocked}
  /\ pc \in [Indexers -> Steps]
  /\ \A x \in Indexers :
       /\ request[x].config \in ConfigOrNone
       /\ request[x].dry \in BOOLEAN
       /\ plan[x].profiles \in ConfigOrNone
       /\ plan[x].candidates \subseteq Paths
       /\ plan[x].deleted \subseteq Paths
       /\ base[x].generation \in Nat
       /\ base[x].files \in FileTables
       /\ bodies[x] \in FileTables
       /\ pc[x] \notin {"idle", "locking"} => lock = x

(***************************************************************************)
(* Publishing incrementally (dropping, re-parsing and re-keying only what  *)
(* changed, under whatever configuration changes happened in between)      *)
(* leaves exactly the rows, profiles and serving key that indexing the     *)
(* same contents from nothing under the active configuration would give.   *)
(***************************************************************************)
IncrementalEqualsRebuild ==
  /\ segments = Rebuilt(files, meta.profiles)
  /\ meta.serving = meta.profiles.storage

(* The manifest published with a generation names exactly its files: what  *)
(* status, search and embedding runs compare manifests for.                *)
ManifestNamesFiles == meta.generation > 0 => meta.manifest = ManifestOf(files)

(***************************************************************************)
(* index.lock makes a run's plan binding: from the second snapshot to the  *)
(* commit nobody else publishes, and an embedding run only adds vectors,   *)
(* so no check that rolls a publication back finds anything to object to.  *)
(***************************************************************************)
NoSpuriousRefusal ==
  \A x \in Indexers : pc[x] = "publishing" => PublishAccepted(Publication(x))

(***************************************************************************)
(* The pipeline implements the abstract catalog: every step of an indexer  *)
(* either leaves the index alone or installs the next complete generation. *)
(***************************************************************************)
Abstract == INSTANCE Catalog WITH meta <- meta, files <- files, segments <- segments

ImplementsCatalog == Abstract!CatalogSpec

(* A vector is served only under a profile whose source profile is the one *)
(* the vector was paid under, also after legacy vectors were copied.       *)
VectorLineage ==
  \A v \in vectors :
    /\ v.source = v.paid
    /\ \A c \in Configs : c.storage = v.serving => c.source = v.paid

(***************************************************************************)
(* Moving a legacy database to its current equivalent pays for nothing     *)
(* twice: the vector of every input that stays active is copied, whatever  *)
(* was re-parsed, deleted or edited in the same run.                       *)
(***************************************************************************)
LegacyVectorsCarried ==
  [][meta' # meta /\ LegacyServingProfileEquivalent(meta'.profiles, meta.profiles, meta.serving)
       => \A v \in vectors :
            v.serving = meta.serving /\ v.input \in ActiveInputs(segments', meta'.serving)
              => \E w \in vectors' : w = CopyVector(v, meta'.profiles)]_indexVars

(***************************************************************************)
(* A publication never installs contents older than the run: each indexed  *)
(* content was in the worktree at some moment since the lock was taken,    *)
(* and a path is left out only if it was absent, oversize or not indexed.  *)
(***************************************************************************)
PublishesFreshContents ==
  [][meta' # meta =>
       \A p \in Paths :
         IF files'[p] # Absent THEN files'[p] \in onDisk[p]
         ELSE \/ p \notin Enabled[meta'.profiles.index]
              \/ onDisk[p] \cap (Oversize \cup {Absent}) # {}]_indexVars

(* No run keeps index.lock for ever.                                       *)
LockReleased == \A x \in Indexers : lock = x ~> lock # x

=============================================================================
