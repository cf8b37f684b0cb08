---------------------------- MODULE DatabaseOpen ----------------------------
(***************************************************************************)
(* Opening a production database (internal/store/production.go, schema.go, *)
(* sqlite.go): the file moves from .cidx to .cidx/db, its schema goes from *)
(* any version to the current one through a chain of transactions, and it  *)
(* gets its meta row.  Processes that open it at once check and migrate in *)
(* any order, fail, or die between two transactions.                       *)
(*                                                                         *)
(* A database is its user_version and what the checks and migrations look  *)
(* at: the version its meta table is made for, its columns, and its rows.  *)
(***************************************************************************)
EXTENDS Naturals

CONSTANTS
  Openers,     \* processes, one OpenProduction each
  NoFile

ASSUME OpenersAssumption == Openers # {}

VARIABLES
  current,     \* .cidx/db/index.db
  legacy,      \* .cidx/index.db
  leftovers,   \* a -wal, -shm or -journal file of the legacy database
  opening,     \* the step of each process
  at,          \* the version each process believes the schema has
  written,     \* history: processes that wrote rows through an opened database
  origin,      \* history: the database before anybody opened it
  hindered     \* history: some process met a fault or died

databaseVars == <<current, legacy, leftovers>>
openVars == <<databaseVars, opening, at, written, origin, hindered>>

Current == 5      \* ProductionSchemaVersion

EmptyFile ==
  [version |-> 0, tables |-> FALSE, made |-> 0, root |-> FALSE, lineage |-> FALSE, int8 |-> FALSE,
   classified |-> FALSE, runs |-> FALSE, meta |-> FALSE, vectors |-> {}, failures |-> {}]

Databases ==
  [version : Nat, tables : BOOLEAN, made : Nat, root : BOOLEAN, lineage : BOOLEAN, int8 : BOOLEAN,
   classified : BOOLEAN, runs : BOOLEAN, meta : BOOLEAN,
   vectors : SUBSET [of : Openers \cup {"old"}, codec : {"int8", "retired"}],
   failures : SUBSET [of : Openers \cup {"x", "y"}, class : {"none", "terminal", "retryable"}]]

ASSUME NoFileAssumption == NoFile \notin Databases

\* What migrateProduction creates in an empty file.
Fresh == [EmptyFile EXCEPT !.version = Current, !.tables = TRUE, !.made = Current, !.lineage = TRUE,
                       !.int8 = TRUE, !.classified = TRUE, !.runs = TRUE]

-----------------------------------------------------------------------------
(* requireProductionV1Schema to requireProductionV5Schema *)

Requires(v, d) ==
  /\ d.tables /\ d.made = v
  /\ v = 1 => d.root /\ ~d.lineage
  /\ v = 2 => d.lineage
  /\ v >= 3 => d.classified /\ d.runs
  /\ v >= 4 => ~d.root
  /\ v = 5 => d.lineage /\ d.int8

(* A bug this project can tell: the last migration cannot be repeated.     *)
MigratesOnce(v, d) ==
  CASE v = 1 -> d.root /\ ~d.lineage [] v = 2 -> d.root /\ ~d.runs [] v = 3 -> TRUE [] v = 4 -> d.lineage /\ ~d.int8

(* Whether the statements of the migration from v succeed on d: the root   *)
(* is copied up to version 3, ADD COLUMN and CREATE TABLE meet no          *)
(* namesake, and the last one copies the columns of the second.            *)
Migrates(v, d) ==
  CASE v = 1 -> d.root /\ ~d.lineage
    [] v = 2 -> d.root /\ ~d.runs
    [] v = 3 -> TRUE
    [] v = 4 -> d.lineage

Stamped(d, v) == [d EXCEPT !.made = v, !.version = v]

Classified(rows) == {[r EXCEPT !.class = "terminal"] : r \in rows}
Int8Rows(rows) == {r \in rows : r.codec = "int8"}

Migrated(v, d) ==
  CASE v = 1 -> Stamped([d EXCEPT !.lineage = TRUE], 2)
    [] v = 2 -> Stamped([d EXCEPT !.classified = TRUE, !.runs = TRUE, !.failures = Classified(@)], 3)
    [] v = 3 -> Stamped([d EXCEPT !.root = FALSE], 4)
    [] v = 4 -> Stamped([d EXCEPT !.root = FALSE, !.int8 = TRUE, !.vectors = Int8Rows(@)], 5)

-----------------------------------------------------------------------------
(* Databases of every version.                                             *)

Vector(of, codec) == [of |-> of, codec |-> codec]
Failure(of, class) == [of |-> of, class |-> class]
OldVectors(v) == {Vector("old", "int8")} \cup (IF v < 5 THEN {Vector("old", "retired")} ELSE {})
OldFailures(v) ==
  IF v < 3 THEN {Failure("x", "none")} ELSE {Failure("x", "terminal"), Failure("y", "retryable")}

Old(v) == [version |-> v, tables |-> TRUE, made |-> v, root |-> v < 4, lineage |-> v >= 2, int8 |-> v >= 5,
           classified |-> v >= 3, runs |-> v >= 3, meta |-> TRUE,
           vectors |-> OldVectors(v), failures |-> OldFailures(v)]
Unknown == [Old(1) EXCEPT !.version = 0]

OpenInit ==
  /\ \/ current \in {NoFile, EmptyFile, Unknown} \cup {Old(v) : v \in 1..6} /\ legacy = NoFile /\ leftovers = FALSE
     \/ current \in {NoFile, Old(5)} /\ legacy \in {Old(1), Old(3)} /\ leftovers \in BOOLEAN
  /\ opening = [p \in Openers |-> "look"]
  /\ at = [p \in Openers |-> 0]
  /\ written = {}
  /\ origin = (IF legacy = NoFile THEN current ELSE legacy)
  /\ hindered = FALSE

Proceed(p, s) == opening' = [opening EXCEPT ![p] = s]
Seen == UNCHANGED <<databaseVars, written, origin, hindered>>

-----------------------------------------------------------------------------
(* migrateLegacyProductionPath: two Lstats, the companions, a rename.      *)

LookLegacy(p) ==
  /\ opening[p] = "look"
  /\ Proceed(p, IF legacy = NoFile THEN "file" ELSE "target")
  /\ Seen /\ UNCHANGED at

LookTarget(p) ==
  /\ opening[p] = "target"
  /\ Proceed(p, IF current # NoFile \/ leftovers THEN "failed" ELSE "rename")
  /\ Seen /\ UNCHANGED at

RenameLegacy(p) ==
  /\ opening[p] = "rename"
  /\ IF legacy = NoFile
     THEN Proceed(p, "failed") /\ UNCHANGED <<current, legacy>>
     ELSE Proceed(p, "file") /\ current' = legacy /\ legacy' = NoFile
  /\ UNCHANGED <<leftovers, at, written, origin, hindered>>

(* ensureOwnerDatabaseFile, OpenSQLiteStores.                              *)
OpenFile(p) ==
  /\ opening[p] = "file"
  /\ current' = IF current = NoFile THEN EmptyFile ELSE current
  /\ Proceed(p, "version")
  /\ UNCHANGED <<legacy, leftovers, at, written, origin, hindered>>

-----------------------------------------------------------------------------
(* migrateProduction *)

ReadVersion(p) ==
  /\ opening[p] = "version"
  /\ at' = [at EXCEPT ![p] = current.version]
  /\ Proceed(p, IF current.version > Current THEN "failed"
                ELSE IF current.version = 0 THEN "count" ELSE "check")
  /\ Seen

CountTables(p) ==
  /\ opening[p] = "count"
  /\ Proceed(p, IF current.tables THEN "failed" ELSE "create")
  /\ Seen /\ UNCHANGED at

(* A bug this project can tell: tables that are there are made anew.       *)
CreatesAnyway(d) == TRUE

(* CREATE TABLE fails when another process was first.                      *)
Creates(d) == ~d.tables

CreateSchema(p) ==
  /\ opening[p] = "create"
  /\ IF Creates(current)
     THEN current' = Fresh /\ at' = [at EXCEPT ![p] = Current] /\ Proceed(p, "check")
     ELSE Proceed(p, "failed") /\ UNCHANGED <<current, at>>
  /\ UNCHANGED <<legacy, leftovers, written, origin, hindered>>

(* The check after one migration and the check before the next are one     *)
(* step: nothing happens between them.                                     *)
CheckSchema(p) ==
  /\ opening[p] = "check"
  /\ Proceed(p, IF ~Requires(at[p], current) THEN "failed"
                ELSE IF at[p] = Current THEN "meta" ELSE "migrate")
  /\ Seen /\ UNCHANGED at

(* One transaction, on the schema there is by then.                        *)
Migrate(p) ==
  /\ opening[p] = "migrate"
  /\ IF Migrates(at[p], current)
     THEN /\ current' = Migrated(at[p], current)
          /\ at' = [at EXCEPT ![p] = @ + 1]
          /\ Proceed(p, "check")
     ELSE Proceed(p, "failed") /\ UNCHANGED <<current, at>>
  /\ UNCHANGED <<legacy, leftovers, written, origin, hindered>>

-----------------------------------------------------------------------------
(* ensureMeta *)

RequireVersion(p) ==
  /\ opening[p] = "meta"
  /\ Proceed(p, IF current.version # Current \/ ~Requires(Current, current) THEN "failed" ELSE "row")
  /\ Seen /\ UNCHANGED at

SelectMeta(p) ==
  /\ opening[p] = "row"
  /\ Proceed(p, IF current.meta THEN "opened" ELSE "insert")
  /\ Seen /\ UNCHANGED at

InsertMeta(p) ==
  /\ opening[p] = "insert"
  /\ IF current.meta \/ current.made # Current
     THEN Proceed(p, "failed") /\ UNCHANGED current
     ELSE Proceed(p, "opened") /\ current' = [current EXCEPT !.meta = TRUE]
  /\ UNCHANGED <<legacy, leftovers, at, written, origin, hindered>>

(* What an opened database is for: a vector and a failure, of any writer.  *)
WriteRows(p) ==
  /\ opening[p] = "opened" /\ p \notin written
  /\ current' = [current EXCEPT !.vectors = @ \cup {Vector(p, "int8")}, !.failures = @ \cup {Failure(p, "retryable")}]
  /\ written' = written \cup {p}
  /\ UNCHANGED <<legacy, leftovers, opening, at, origin, hindered>>

Done == {"opened", "failed", "dead"}

(* An I/O error, a busy database or a cancelled context; or the process    *)
(* dies.  An open transaction is rolled back.                              *)
Hinder(p) ==
  /\ opening[p] \notin {"failed", "dead"}
  /\ \E s \in {"failed", "dead"} : (s = "failed" => opening[p] # "opened") /\ Proceed(p, s)
  /\ hindered' = TRUE
  /\ UNCHANGED <<databaseVars, at, written, origin>>

OpenNext ==
  \E p \in Openers :
    \/ LookLegacy(p) \/ LookTarget(p) \/ RenameLegacy(p) \/ OpenFile(p)
    \/ ReadVersion(p) \/ CountTables(p) \/ CreateSchema(p) \/ CheckSchema(p) \/ Migrate(p)
    \/ RequireVersion(p) \/ SelectMeta(p) \/ InsertMeta(p) \/ WriteRows(p) \/ Hinder(p)

OpenSpec == OpenInit /\ [][OpenNext]_openVars

-----------------------------------------------------------------------------
Supported(d) == d \in {NoFile, EmptyFile} \/ d.version \in 1..Current
Upgrade(d) == IF d.version \in 1..4 /\ Requires(d.version, d) /\ Migrates(d.version, d)
              THEN Migrated(d.version, d) ELSE d
Upgraded(d) == Upgrade(Upgrade(Upgrade(Upgrade(d))))

(***************************************************************************)
(* Whatever processes did to a supported database and wherever they        *)
(* stopped, the next one that opens it alone brings it to the current      *)
(* version: every state a transaction leaves is of its user_version.       *)
(***************************************************************************)
AlwaysOpens ==
  Supported(origin) /\ current \notin {NoFile, EmptyFile} /\ legacy = NoFile =>
    Upgraded(current).version = Current /\ Requires(Current, Upgraded(current))

(***************************************************************************)
(* Processes that open a supported database together do not all turn one   *)
(* another away: without a fault one of them opens it, though others may   *)
(* fail, and a late migration may take the schema back a version.          *)
(***************************************************************************)
SomeoneOpens ==
  /\ Supported(origin) /\ ~hindered /\ ~leftovers
  /\ legacy = NoFile /\ \A p \in Openers : opening[p] \in Done
  => \E p \in Openers : opening[p] = "opened"

(***************************************************************************)
(* No migration, repeated migration or creation loses what an earlier one  *)
(* kept or an opened database took: its meta row, its int8 vectors, and    *)
(* its failures with their class, an unclassified one being terminal.      *)
(***************************************************************************)
RowsSurvive ==
  /\ \A p \in written : Vector(p, "int8") \in current.vectors /\ Failure(p, "retryable") \in current.failures
  /\ origin \notin {NoFile, EmptyFile} /\ legacy = NoFile =>
       /\ origin.meta => current.meta
       /\ Int8Rows(origin.vectors) \subseteq current.vectors
       /\ \A f \in origin.failures : \E g \in current.failures :
            g.of = f.of /\ (g.class = f.class \/ (f.class = "none" /\ g.class = "terminal"))
=============================================================================
