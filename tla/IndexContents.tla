---------------------------- MODULE IndexContents ----------------------------
(***************************************************************************)
(* What a cidx index is made of: configurations known by their profile     *)
(* fingerprints, files, the segment rows cut from them, and the rules that *)
(* say what a change of configuration demands.  No state.                  *)
(***************************************************************************)
EXTENDS Integers, Sequences, FiniteSets

CONSTANTS
  Paths,          \* repository-relative source paths
  Contents,       \* contents a file can have (a content stands for its SHA-256)
  Absent,         \* not a content: the path has no row / no file
  NoManifest,     \* the empty manifest_sha256 of a database never published to
  Configs,        \* resolved configurations: [index, canonical, source, storage]
  Retired,        \* those only a previous release could resolve (pre-R4 profiles)
  Enabled,        \* index profile -> paths whose language it indexes
  Chunks,         \* <<content, index profile>> -> sequence of segment bodies
  LegacyStorage   \* pairs <<legacy storage profile, equivalent current one>>

(***************************************************************************)
(* A configuration is known to the store by its profile fingerprints.  The *)
(* storage fingerprint hashes the vector-space fingerprint, which hashes   *)
(* the source fingerprint, so two configurations with one storage profile  *)
(* have one source profile; "storage" stands for both of the last two.     *)
(***************************************************************************)
ASSUME ConfigsAssumption ==
  /\ Retired \subseteq Configs
  /\ \A c \in Configs : DOMAIN c = {"index", "canonical", "source", "storage"}
  /\ \A c, d \in Configs : c.storage = d.storage => c.source = d.source

ASSUME ContentsAssumption == Absent \notin Contents

ASSUME EnabledAssumption == \A c \in Configs : Enabled[c.index] \subseteq Paths

(* A worktree has finitely many files, a file finitely many segments.      *)
ASSUME FiniteAssumption ==
  /\ IsFiniteSet(Paths)
  /\ \A t \in Contents, c \in Configs : Len(Chunks[<<t, c.index>>]) \in Nat

-----------------------------------------------------------------------------
(***************************************************************************)
(* The text sent to the embedding provider for a segment: path, kind,      *)
(* symbol, signature and body laid out by one formatter version.  Its hash *)
(* is the key of every vector; equal text means an equal key.              *)
(***************************************************************************)
CanonicalInput(path, body, canonical) == <<path, body, canonical>>

(* The rows a file contributes when it is parsed under configuration cfg.  *)
FileRows(path, content, cfg) ==
  LET bodies == Chunks[<<content, cfg.index>>]
  IN { [path      |-> path,
        number    |-> i,
        body      |-> bodies[i],
        input     |-> CanonicalInput(path, bodies[i], cfg.canonical),
        canonical |-> cfg.canonical,
        serving   |-> cfg.storage] : i \in 1..Len(bodies) }

(* All rows of a file table built from nothing under configuration cfg.    *)
Rebuilt(table, cfg) ==
  UNION { FileRows(p, table[p], cfg) : p \in {q \in Paths : table[q] # Absent} }

ManifestOf(table) == { <<p, table[p]>> : p \in {q \in Paths : table[q] # Absent} }

(* The configurations a run of this release can ask for.                   *)
Desired == Configs \ Retired

(* The vector-space record of a legacy profile spells its fields otherwise,*)
(* so no configuration of this release has its fingerprint.                *)
ASSUME LegacyAssumption ==
  \A pair \in LegacyStorage : \A c \in Desired : c.storage # pair[1]

FileTables == [Paths -> Contents \cup {Absent}]

(* Contents that can be indexed under cfg: enabled languages only.         *)
Indexable(cfg) ==
  { t \in FileTables : \A p \in Paths : t[p] # Absent => p \in Enabled[cfg.index] }

(* The distinct embedding inputs of the rows of one serving profile.       *)
ActiveInputs(rows, serving) == { r.input : r \in {s \in rows : s.serving = serving} }

-----------------------------------------------------------------------------
(***************************************************************************)
(* What changes of configuration demand of the next index run.             *)
(***************************************************************************)
FullRebuildRequired(desired, applied) == applied.index # desired.index

CanonicalReconcile(desired, applied) ==
  applied.index = desired.index /\ applied.canonical # desired.canonical

ReconcileRequired(desired, applied) == applied # desired

(* A bug this project can tell: the source profile is not compared.        *)
EquivalentWhateverTheSource(desired, applied, serving) ==
  /\ serving = applied.storage
  /\ applied.canonical = desired.canonical
  /\ <<applied.storage, desired.storage>> \in LegacyStorage

(* A vector of a pre-R4 profile may serve under its current equivalent.    *)
LegacyServingProfileEquivalent(desired, applied, serving) ==
  /\ serving = applied.storage
  /\ applied.canonical = desired.canonical
  /\ applied.source = desired.source
  /\ <<applied.storage, desired.storage>> \in LegacyStorage

=============================================================================
