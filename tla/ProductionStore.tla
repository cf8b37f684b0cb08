--------------------------- MODULE ProductionStore ---------------------------
(***************************************************************************)
(* The production SQLite database of cidx, .cidx/db/index.db, as the index *)
(* pipeline sees it: the single meta row, the files table, the segment     *)
(* rows cut from the files, and the vector cache.                          *)
(*                                                                         *)
(* A read transaction is an operator over the current state; the index     *)
(* publication is one action, because the code runs it as one SQLite write *)
(* transaction (store.Write has one connection, so writers never overlap). *)
(***************************************************************************)
EXTENDS IndexContents

VARIABLES
  meta,      \* the row of table meta
  files,     \* files: path -> indexed content, or Absent
  segments,  \* chunks joined with their embedding_segments
  vectors    \* vector_cache

storeVars == <<meta, files, segments, vectors>>

(***************************************************************************)
(* PublishIndexGeneration: one transaction replaces the deleted and the    *)
(* changed files, rewrites the keys of the listed untouched rows, copies   *)
(* the proved legacy vectors and moves meta to the next generation.        *)
(*   plan.base      generation the plan was made from                      *)
(*   plan.deleted   paths to drop                                          *)
(*   plan.changed   path -> content for every re-parsed file               *)
(*   plan.updates   [path, number, input] of the rows to rewrite           *)
(*   plan.rekeys    legacy vector rows to copy                             *)
(***************************************************************************)
PublishedFiles(plan) ==
  [p \in Paths |-> IF p \in DOMAIN plan.changed THEN plan.changed[p]
                   ELSE IF p \in plan.deleted THEN Absent
                   ELSE files[p]]

UpdateRow(row, plan) ==
  LET hits == { u \in plan.updates : u.path = row.path /\ u.number = row.number }
  IN IF hits = {} THEN row
     ELSE [path |-> row.path, number |-> row.number, body |-> row.body,
           input |-> (CHOOSE u \in hits : TRUE).input,
           canonical |-> plan.desired.canonical, serving |-> plan.desired.storage]

(* A bug this project can tell: rows of deleted files stay.                 *)
KeptWithDeleted(plan) == { r \in segments : r.path \notin DOMAIN plan.changed }

KeptRows(plan) ==
  { r \in segments : r.path \notin plan.deleted \cup DOMAIN plan.changed }

InsertedRows(plan) ==
  UNION { FileRows(p, plan.changed[p], plan.desired) : p \in DOMAIN plan.changed }

(* Rows are updated by id after the deletes and the inserts.               *)
PublishedRows(plan) == { UpdateRow(r, plan) : r \in KeptRows(plan) } \cup InsertedRows(plan)

CopyVector(v, desired) ==
  [serving |-> desired.storage, input |-> v.input, source |-> desired.source, paid |-> v.paid]

PublishedVectors(plan) ==
  { v \in vectors : \A k \in plan.rekeys :
                      ~(v.serving = plan.desired.storage /\ v.input = k.input) }
  \cup { CopyVector(k, plan.desired) : k \in plan.rekeys }

(* The transaction rolls back unless all of this holds.                    *)
PublishAccepted(plan) ==
  /\ meta.generation = plan.base
  /\ plan.rekeys # {} =>
       LegacyServingProfileEquivalent(plan.desired, meta.profiles, meta.serving)
  /\ \A u \in plan.updates :
       \E r \in KeptRows(plan) : r.path = u.path /\ r.number = u.number
  /\ plan.rekeys \subseteq vectors
  /\ \A k \in plan.rekeys :
       k.input \in ActiveInputs(PublishedRows(plan), plan.desired.storage)

PublishIndexGeneration(plan) ==
  /\ PublishAccepted(plan)
  /\ files' = PublishedFiles(plan)
  /\ segments' = PublishedRows(plan)
  /\ vectors' = PublishedVectors(plan)
  /\ meta' = [generation |-> plan.base + 1,
              manifest   |-> plan.manifest,
              profiles   |-> plan.desired,
              serving    |-> plan.desired.storage]

-----------------------------------------------------------------------------
StoredVector(input, cfg) ==
  [serving |-> cfg.storage, input |-> input, source |-> cfg.source, paid |-> cfg.source]

(* ensureMeta on a fresh database: generation 0, nothing indexed yet.      *)
FreshDatabase ==
  /\ \E c \in Desired : meta = [generation |-> 0, manifest |-> NoManifest,
                                profiles |-> c, serving |-> c.storage]
  /\ files = [p \in Paths |-> Absent]
  /\ segments = {}
  /\ vectors = {}

(* A database the previous release indexed and (partly) embedded: opening  *)
(* it leaves its profiles as they are until the next publication.          *)
LegacyDatabase ==
  \E c \in Retired : \E table \in Indexable(c) :
    /\ meta = [generation |-> 1, manifest |-> ManifestOf(table),
               profiles |-> c, serving |-> c.storage]
    /\ files = table
    /\ segments = Rebuilt(table, c)
    /\ \E inputs \in SUBSET { r.input : r \in segments } :
         vectors = { StoredVector(i, c) : i \in inputs }

StoreInit == FreshDatabase \/ LegacyDatabase

=============================================================================
