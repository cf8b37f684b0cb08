---------------------------- MODULE HybridSearch ----------------------------
(***************************************************************************)
(* One search of a cidx server (internal/search/service.go) while other    *)
(* processes index, embed and rebuild vectors.                             *)
(*                                                                         *)
(* A hybrid search reads the store twice, before it pays for the query     *)
(* embedding and after: HybridPreflightSnapshot and HybridSearchSnapshot.  *)
(* It holds no lock and no transaction in between, so everything it        *)
(* learned first may be over when it ranks.  The server resolved its       *)
(* configuration when it started; the index may move to another one.  The  *)
(* index is the abstract Catalog.  Ranking itself is left out: what        *)
(* matters here is which vectors the query vector is compared with.        *)
(***************************************************************************)
EXTENDS Catalog

CONSTANTS
  NoQuery,        \* no query vector
  NoBuild,        \* no vector build is under way
  TablesFound,    \* bound: the file tables the index runs of an instance find
  MaxGeneration   \* bound on generations installed

ASSUME HybridAssumption == MaxGeneration \in Nat /\ TablesFound \subseteq FileTables

VARIABLES
  vectors,    \* vector_cache: [serving, input, source, paid]
  build,      \* expectation of a vector build under way, or NoBuild
  resolved,   \* configuration, paid permission and API key of the server
  step,       \* where the search is
  seen,       \* what preflight saw: generation and manifest
  query,      \* source profile the query vector was paid under, or NoQuery
  answer      \* effective mode, fallback reason, generation and vectors compared

searchVars == <<step, seen, query, answer>>
hybridVars == <<catalogVars, vectors, build, resolved, searchVars>>

NoAnswer == [mode |-> "fts", reason |-> "", generation |-> 0, used |-> {}]
NothingSeen == [generation |-> 0, manifest |-> NoManifest]

HybridInit ==
  /\ CatalogInit
  /\ vectors = {}
  /\ build = NoBuild
  /\ resolved \in [config : Desired, paid : BOOLEAN, key : BOOLEAN]
  /\ step = "idle" /\ seen = NothingSeen /\ query = NoQuery /\ answer = NoAnswer

-----------------------------------------------------------------------------
(* What one read transaction finds.                                        *)

Active == ActiveInputs(segments, meta.serving)
ActiveRows == { v \in vectors : v.serving = meta.serving /\ v.input \in Active }

ProfilesMatch(cfg) ==
  /\ meta.profiles.source = cfg.source
  /\ meta.profiles.storage = cfg.storage
  /\ meta.serving = cfg.storage

ValidRows(cfg) == { v \in ActiveRows : v.source = cfg.source /\ v.serving = cfg.storage }
InvalidVectorRows(cfg) == ActiveRows # ValidRows(cfg)

(* preflight: the first reason not to ask the provider, or none.           *)
PreflightReason ==
  IF ~resolved.paid THEN "PAID_QUERY_DISABLED"
  ELSE IF ~ProfilesMatch(resolved.config) THEN "PROFILE_RECONCILIATION_REQUIRED"
  ELSE IF InvalidVectorRows(resolved.config) THEN "VECTOR_SNAPSHOT_INVALID"
  ELSE IF ValidRows(resolved.config) = {} THEN "NO_VALID_DOCUMENT_VECTORS"
  ELSE IF ~resolved.key THEN "API_KEY_MISSING" ELSE ""

(* A bug this project can tell: only the profiles are compared again.      *)
ProfilesUnchanged == ProfilesMatch(resolved.config)

SnapshotUnchanged ==
  /\ ProfilesMatch(resolved.config)
  /\ meta.generation = seen.generation
  /\ meta.manifest = seen.manifest

-----------------------------------------------------------------------------
(* Search.                                                                 *)

Fallback(reason) == answer' = [NoAnswer EXCEPT !.reason = reason]

Call ==
  /\ step = "idle"
  /\ \/ step' = "lexical"    \* mode fts
     \/ step' = "preflight"  \* mode hybrid
  /\ seen' = NothingSeen /\ query' = NoQuery /\ answer' = NoAnswer
  /\ UNCHANGED <<catalogVars, vectors, build, resolved>>

Preflight ==
  /\ step = "preflight"
  /\ IF PreflightReason = ""
     THEN /\ seen' = [generation |-> meta.generation, manifest |-> meta.manifest]
          /\ step' = "embedding"
          /\ UNCHANGED answer
     ELSE /\ Fallback(PreflightReason)
          /\ step' = "lexical"
          /\ UNCHANGED seen
  /\ UNCHANGED <<catalogVars, vectors, build, resolved, query>>

(* queryEmbedding, outside any transaction: a vector, or a failure.        *)
QueryEmbedding ==
  /\ step = "embedding"
  /\ \/ query' = resolved.config.source /\ step' = "hybrid" /\ UNCHANGED answer
     \/ Fallback("QUERY_EMBEDDING_FAILED") /\ step' = "lexical" /\ UNCHANGED query
  /\ UNCHANGED <<catalogVars, vectors, build, resolved, seen>>

(* LexicalSearchSnapshot: no vector row is read.                           *)
LexicalSearch ==
  /\ step = "lexical"
  /\ answer' = [answer EXCEPT !.generation = meta.generation]
  /\ step' = "idle"
  /\ UNCHANGED <<catalogVars, vectors, build, resolved, seen, query>>

(* HybridSearchSnapshot, and what is then done with the query vector.      *)
HybridReason ==
  IF ~SnapshotUnchanged THEN "QUERY_PROFILE_CHANGED_DURING_REQUEST"
  ELSE IF InvalidVectorRows(resolved.config) \/ ValidRows(resolved.config) = {}
       THEN "VECTOR_SNAPSHOT_INVALID" ELSE ""

HybridSearch ==
  /\ step = "hybrid"
  /\ answer' = [mode       |-> IF HybridReason = "" THEN "hybrid" ELSE "fts",
                reason     |-> HybridReason,
                generation |-> meta.generation,
                used       |-> IF HybridReason = "" THEN ValidRows(resolved.config) ELSE {}]
  /\ step' = "idle"
  /\ UNCHANGED <<catalogVars, vectors, build, resolved, seen, query>>

(* A database error, or the caller's cancellation, returns no response.    *)
SearchFails ==
  /\ step # "idle"
  /\ step' = "idle"
  /\ seen' = NothingSeen /\ query' = NoQuery /\ answer' = NoAnswer
  /\ UNCHANGED <<catalogVars, vectors, build, resolved>>

-----------------------------------------------------------------------------
(* The other processes.                                                    *)

(* The rows a publication copies for a legacy database are added one by    *)
(* one by EmbedInput here.                                                 *)
Reindex ==
  /\ meta.generation < MaxGeneration
  /\ \E cfg \in Desired : \E table \in Indexable(cfg) \cap TablesFound : InstallAs(cfg, table)
  /\ UNCHANGED <<vectors, build, resolved, searchVars>>

Row(input) == [serving |-> meta.serving, input  |-> input,
               source  |-> meta.profiles.source, paid |-> meta.profiles.source]

(* PublishEmbeddedVector, by an embedding run, which holds the provider    *)
(* lock a build needs too.                                                 *)
EmbedInput ==
  /\ build = NoBuild
  /\ meta.profiles \in Desired
  /\ \E i \in Active :
       vectors' = { v \in vectors : ~(v.serving = meta.serving /\ v.input = i) } \cup {Row(i)}
  /\ UNCHANGED <<catalogVars, build, resolved, searchVars>>

(* Materialize.Activate: its snapshot, taken under the provider lock; the  *)
(* vectors it prepares come from the bank of one source profile ...        *)
StartBuild ==
  /\ build = NoBuild
  /\ meta.generation > 0 /\ meta.profiles \in Desired
  /\ build' = [generation |-> meta.generation, manifest |-> meta.manifest,
               serving |-> meta.serving, required |-> Active,
               source |-> meta.profiles.source]
  /\ UNCHANGED <<catalogVars, vectors, resolved, searchVars>>

(* A bug this project can tell: the build is not compared with the index.  *)
BuildAlwaysCurrent == TRUE

BuildIsCurrent ==
  /\ meta.generation = build.generation
  /\ meta.manifest = build.manifest
  /\ meta.serving = build.serving /\ meta.profiles.storage = build.serving
  /\ meta.profiles.source = build.source
  /\ build.required = Active

(* A bug this project can tell: the rows are deleted and nothing is put.   *)
ReplacedByNothing == {}

(* ... one row for every required input, checked against its raw vector.   *)
BuiltRows ==
  { [serving |-> meta.serving, input |-> i, source |-> meta.profiles.source,
     paid |-> build.source] : i \in build.required }

(* ... and PublishMaterializedVectors, one transaction that replaces the   *)
(* rows of the active serving profile.                                     *)
PublishMaterializedVectors ==
  /\ build # NoBuild
  /\ BuildIsCurrent
  /\ vectors' = { v \in vectors : v.serving # meta.serving } \cup BuiltRows
  /\ build' = NoBuild
  /\ UNCHANGED <<catalogVars, resolved, searchVars>>

(* A refused, failed or killed build changes nothing.                      *)
BuildFails ==
  /\ build # NoBuild
  /\ build' = NoBuild
  /\ UNCHANGED <<catalogVars, vectors, resolved, searchVars>>

Search ==
  \/ Call
  \/ Preflight
  \/ QueryEmbedding
  \/ LexicalSearch
  \/ HybridSearch
  \/ SearchFails

HybridNext ==
  \/ Search
  \/ Reindex
  \/ EmbedInput
  \/ StartBuild
  \/ PublishMaterializedVectors
  \/ BuildFails

HybridSpec == HybridInit /\ [][HybridNext]_hybridVars

-----------------------------------------------------------------------------
(***************************************************************************)
(* A query vector is compared only with vectors that were paid under its   *)
(* own source profile, whatever was indexed, embedded or rebuilt between   *)
(* the payment and the comparison.                                         *)
(***************************************************************************)
SameSpace == \A v \in answer.used : v.paid = query

(***************************************************************************)
(* A fallback to VECTOR_SNAPSHOT_INVALID tells the user that the store is  *)
(* damaged; no course of legal writes makes a search say so.               *)
(***************************************************************************)
NoFalseAlarm == answer.reason # "VECTOR_SNAPSHOT_INVALID"

(***************************************************************************)
(* A query embedding that was paid for is used, unless a generation was    *)
(* installed while it was under way: embedding runs and vector builds do   *)
(* not make a search throw it away.                                        *)
(***************************************************************************)
PaidQueryUsed ==
  [][step = "hybrid" /\ answer'.reason # "" => answer'.generation > seen.generation]_hybridVars
=============================================================================
