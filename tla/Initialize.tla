------------------------------ MODULE Initialize ------------------------------
(***************************************************************************)
(* cidx init (internal/app/bootstrap.go): several processes set up .cidx   *)
(* at once, step by file-system step, with failures, the cleanup that      *)
(* follows one, and crashes.  Linking the staged configuration to          *)
(* config.json is the commit point.                                        *)
(*                                                                         *)
(* The database and its -wal, -shm and -journal files live in .cidx/db;    *)
(* the three companions are one file here, "sidecar".                      *)
(***************************************************************************)
EXTENDS FiniteSets

CONSTANTS
  Procs,      \* processes running cidx init, one call each
  Nobody      \* not a process: the file does not exist

ASSUME ProcsAssumption ==
  /\ Procs # {} /\ Procs \cap {Nobody, "user"} = {}
  /\ Nobody # "user"

VARIABLES
  dirs,       \* the directories that exist, of "cidx" and "db"
  temp,       \* who created .config.json.init
  db,         \* who created db/index.db
  ready,      \* db/index.db has its schema and its meta row
  sidecar,    \* a companion file of the database exists
  config,     \* who created config.json: a process, "user", or Nobody
  pc,         \* step of each call
  state,      \* each call's initialState: the set of its flags that are true
  disturbed,  \* history: some call met an I/O error, a crash or a user's file
  unremoved   \* history: of each call, what it failed to remove or to recognise

fileVars == <<dirs, temp, db, ready, sidecar, config>>
history == <<disturbed, unremoved>>
vars == <<fileVars, pc, state, history>>

Ended == {"succeeded", "failed", "crashed"}
Steps == Ended \cup
  {"config?", "temp?", "database?", "directory?", "make", "stage", "claimDir", "claim",
   "open", "publish", "unstage",
   "dropTemp", "owner?", "dropSidecar", "dropDatabase", "dropDbDir", "dropDir"}

(* createdDir, createdDBDir, temporaryCreated, and claimedDatabase # nil.  *)
Flags == {"dir", "dbDir", "temporary", "claimed"}

Init ==
  /\ dirs = {} /\ temp = Nobody /\ db = Nobody /\ ready = FALSE /\ sidecar = FALSE
  /\ config = Nobody
  /\ pc = [p \in Procs |-> "config?"]
  /\ state = [p \in Procs |-> {}]
  /\ disturbed = FALSE
  /\ unremoved = [p \in Procs |-> {}]

Goto(p, step) == pc' = [pc EXCEPT ![p] = step]
Mark(p, flag) == state' = [state EXCEPT ![p] = @ \cup {flag}]

-----------------------------------------------------------------------------
(* rejectExistingInitialState: one Lstat after the other.                  *)
Look(p, step, found, next) ==
  /\ pc[p] = step
  /\ Goto(p, IF found THEN "failed" ELSE next)
  /\ UNCHANGED <<fileVars, state, history>>

LookConfig(p)   == Look(p, "config?", config # Nobody, "temp?")
LookTemp(p)     == Look(p, "temp?", temp # Nobody, "database?")
LookDatabase(p) == Look(p, "database?", db # Nobody \/ sidecar, "directory?")

(* prepareStateRoot: Lstat, then MkdirAll, which accepts a directory that  *)
(* appeared in between and is then taken for this call's own.              *)
LookDirectory(p) ==
  /\ pc[p] = "directory?"
  /\ Goto(p, IF "cidx" \in dirs THEN "stage" ELSE "make")
  /\ UNCHANGED <<fileVars, state, history>>

MakeDirectory(p) ==
  /\ pc[p] = "make"
  /\ dirs' = dirs \cup {"cidx"}
  /\ Mark(p, "dir")
  /\ Goto(p, "stage")
  /\ UNCHANGED <<temp, db, ready, sidecar, config, history>>

(* stageConfig: O_CREATE | O_EXCL.                                         *)
StageConfig(p) ==
  /\ pc[p] = "stage"
  /\ IF "cidx" \in dirs /\ temp = Nobody
     THEN temp' = p /\ Mark(p, "temporary") /\ Goto(p, "claimDir")
     ELSE Goto(p, "dropTemp") /\ UNCHANGED <<temp, state>>
  /\ UNCHANGED <<dirs, db, ready, sidecar, config, history>>

(* claimProductionDatabase: Mkdir db, then O_CREATE | O_EXCL of index.db.  *)
MakeDbDirectory(p) ==
  /\ pc[p] = "claimDir"
  /\ dirs' = dirs \cup {"db"}
  /\ IF "db" \in dirs THEN UNCHANGED state ELSE Mark(p, "dbDir")
  /\ Goto(p, "claim")
  /\ UNCHANGED <<temp, db, ready, sidecar, config, history>>

ClaimProductionDatabase(p) ==
  /\ pc[p] = "claim"
  /\ IF "db" \in dirs /\ db = Nobody
     THEN db' = p /\ Mark(p, "claimed") /\ Goto(p, "open")
     ELSE Goto(p, "dropTemp") /\ UNCHANGED <<db, state>>
  /\ UNCHANGED <<dirs, temp, ready, sidecar, config, history>>

(* A bug this project can tell: link the configuration before opening.     *)
OpenUnready(p) ==
  /\ pc[p] = "open"
  /\ Goto(p, "publish")
  /\ UNCHANGED <<fileVars, state, history>>

(* openProduction and Close: schema and meta row; the last close of a WAL  *)
(* database usually removes its companions.                                *)
OpenProduction(p) ==
  /\ pc[p] = "open"
  /\ ready' = TRUE
  /\ sidecar' \in BOOLEAN
  /\ Goto(p, "publish")
  /\ UNCHANGED <<dirs, temp, db, config, state, history>>

(* publishConfig: Link needs the staged file and refuses to replace one.   *)
PublishConfig(p) ==
  /\ pc[p] = "publish"
  /\ IF config = Nobody /\ temp # Nobody
     THEN /\ config' = temp
          /\ state' = [state EXCEPT ![p] = @ \ {"temporary"}]
          /\ Goto(p, "unstage")
     ELSE Goto(p, "dropTemp") /\ UNCHANGED <<config, state>>
  /\ UNCHANGED <<dirs, temp, db, ready, sidecar, history>>

RemoveTemporary(p) ==
  /\ pc[p] = "unstage"
  /\ temp' = Nobody
  /\ Goto(p, "succeeded")
  /\ UNCHANGED <<dirs, db, ready, sidecar, config, state, history>>

-----------------------------------------------------------------------------
(* cleanup, which ignores every error of its own.                          *)

(* A bug this project can tell: whoever fails drops the staged file.       *)
DropAnyTemporary(p) ==
  /\ pc[p] = "dropTemp"
  /\ temp' = Nobody
  /\ Goto(p, "owner?")
  /\ UNCHANGED <<dirs, db, ready, sidecar, config, state, history>>

DropTemporary(p) ==
  /\ pc[p] = "dropTemp"
  /\ temp' = IF "temporary" \in state[p] THEN Nobody ELSE temp
  /\ Goto(p, "owner?")
  /\ UNCHANGED <<dirs, db, ready, sidecar, config, state, history>>

(* A bug this project can tell: the claim is not checked.                  *)
OwnsAny(p) == db # Nobody

(* ownsClaimedDatabase: the same file as the one this call created.        *)
OwnsClaimedDatabase(p) == "claimed" \in state[p] /\ db = p

LookOwner(p) ==
  /\ pc[p] = "owner?"
  /\ Goto(p, IF OwnsClaimedDatabase(p) THEN "dropSidecar" ELSE "dropDbDir")
  /\ UNCHANGED <<fileVars, state, history>>

DropSidecar(p) ==
  /\ pc[p] = "dropSidecar"
  /\ sidecar' = FALSE
  /\ Goto(p, "dropDatabase")
  /\ UNCHANGED <<dirs, temp, db, ready, config, state, history>>

DropDatabase(p) ==
  /\ pc[p] = "dropDatabase"
  /\ db' = Nobody
  /\ ready' = FALSE
  /\ Goto(p, "dropDbDir")
  /\ UNCHANGED <<dirs, temp, sidecar, config, state, history>>

(* os.Remove of a directory fails unless it is empty.                      *)
Empty(dir) ==
  IF dir = "db" THEN db = Nobody /\ ~sidecar
  ELSE "db" \notin dirs /\ temp = Nobody /\ config = Nobody

DropDbDirectory(p) ==
  /\ pc[p] = "dropDbDir"
  /\ dirs' = IF "dbDir" \in state[p] /\ Empty("db") THEN dirs \ {"db"} ELSE dirs
  /\ Goto(p, "dropDir")
  /\ UNCHANGED <<temp, db, ready, sidecar, config, state, history>>

DropDirectory(p) ==
  /\ pc[p] = "dropDir"
  /\ dirs' = IF "dir" \in state[p] /\ Empty("cidx") THEN dirs \ {"cidx"} ELSE dirs
  /\ Goto(p, "failed")
  /\ UNCHANGED <<temp, db, ready, sidecar, config, state, history>>

-----------------------------------------------------------------------------
(* What goes wrong.                                                        *)

(* What an interrupted step leaves of the database.                        *)
HalfDone(p) ==
  IF pc[p] = "open" THEN ready' \in BOOLEAN /\ sidecar' \in BOOLEAN
  ELSE UNCHANGED <<ready, sidecar>>

(* An error of the file system or of SQLite, or a cancelled context: before *)
(* the first file there is nothing to clean up, and after the link a failed *)
(* removal of the staged file is ignored.  A failed Chmod of the directory *)
(* just made is the error of the next step: the directory is removed.      *)
Fault(p) ==
  /\ pc[p] \notin Ended
  /\ disturbed' = TRUE
  /\ \/ /\ pc[p] \in {"config?", "temp?", "database?", "directory?", "make"}
        /\ Goto(p, "failed")
     \/ /\ pc[p] \in {"stage", "claimDir", "claim", "open", "publish"}
        /\ Goto(p, "dropTemp")
     \/ /\ pc[p] = "unstage"
        /\ Goto(p, "succeeded")
  /\ HalfDone(p)
  /\ UNCHANGED <<dirs, temp, db, config, state, unremoved>>

(* What p would have removed is left where it is.                          *)
Leave(p, what) ==
  /\ disturbed' = TRUE
  /\ unremoved' = [unremoved EXCEPT ![p] = @ \cup what]

(* index.db is created but cannot be statted: it is there and not claimed. *)
StatFails(p) ==
  /\ pc[p] = "claim"
  /\ "db" \in dirs /\ db = Nobody
  /\ db' = p
  /\ Leave(p, {"db"})
  /\ Goto(p, "dropTemp")
  /\ UNCHANGED <<dirs, temp, ready, sidecar, config, state>>

(* A bug this project can tell: the first error ends the cleanup.          *)
IgnoredNoMore(p, step, flag, what, next) ==
  /\ pc[p] = step
  /\ flag \in state[p]
  /\ Leave(p, what)
  /\ Goto(p, "failed")
  /\ UNCHANGED <<fileVars, state>>

(* An error of cleanup itself, at a step its flag makes it take: what the  *)
(* step was to remove stays, and cleanup goes on.                          *)
Ignored(p, step, flag, what, next) ==
  /\ pc[p] = step
  /\ flag \in state[p]
  /\ Leave(p, what)
  /\ Goto(p, next)
  /\ UNCHANGED <<fileVars, state>>

(* A database that cannot be statted is taken not to be this call's.       *)
IgnoredError(p) ==
  \/ Ignored(p, "dropTemp", "temporary", {"temp"}, "owner?")
  \/ Ignored(p, "owner?", "claimed", {"db", "sidecar"}, "dropDbDir")
  \/ Ignored(p, "dropSidecar", "claimed", {"sidecar"}, "dropDatabase")
  \/ Ignored(p, "dropDatabase", "claimed", {"db"}, "dropDbDir")
  \/ Ignored(p, "dropDbDir", "dbDir", {}, "dropDir")
  \/ Ignored(p, "dropDir", "dir", {}, "failed")

Crash(p) ==
  /\ pc[p] \notin Ended
  /\ disturbed' = TRUE
  /\ Goto(p, "crashed")
  /\ HalfDone(p)
  /\ UNCHANGED <<dirs, temp, db, config, state, unremoved>>

(* A user writes config.json by hand while init runs.                      *)
UserConfig ==
  /\ "cidx" \in dirs
  /\ config = Nobody
  /\ config' = "user"
  /\ disturbed' = TRUE
  /\ UNCHANGED <<dirs, temp, db, ready, sidecar, pc, state, unremoved>>

-----------------------------------------------------------------------------
Prepare(p) ==
  \/ LookConfig(p)
  \/ LookTemp(p)
  \/ LookDatabase(p)
  \/ LookDirectory(p)
  \/ MakeDirectory(p)
  \/ StageConfig(p)
  \/ MakeDbDirectory(p)
  \/ ClaimProductionDatabase(p)
  \/ OpenProduction(p)
  \/ PublishConfig(p)
  \/ RemoveTemporary(p)

Cleanup(p) ==
  \/ DropTemporary(p)
  \/ LookOwner(p)
  \/ DropSidecar(p)
  \/ DropDatabase(p)
  \/ DropDbDirectory(p)
  \/ DropDirectory(p)

Trouble(p) ==
  \/ Fault(p)
  \/ StatFails(p)
  \/ IgnoredError(p)
  \/ Crash(p)

Next ==
  \/ \E p \in Procs : Prepare(p) \/ Cleanup(p) \/ Trouble(p)
  \/ UserConfig

Spec == Init /\ [][Next]_vars

-----------------------------------------------------------------------------
(* The file tree is a tree (a file's directory exists), and the flags of a *)
(* call are its own.                                                       *)
TypeOK ==
  /\ dirs \subseteq {"cidx", "db"}
  /\ {temp, db} \subseteq Procs \cup {Nobody}
  /\ config \in Procs \cup {"user", Nobody}
  /\ {ready, sidecar, disturbed} \subseteq BOOLEAN
  /\ pc \in [Procs -> Steps]
  /\ state \in [Procs -> SUBSET Flags]
  /\ unremoved \in [Procs -> SUBSET {"temp", "db", "sidecar"}]
  /\ "db" \in dirs \/ {temp, config} # {Nobody} => "cidx" \in dirs
  /\ db # Nobody \/ sidecar => "db" \in dirs

(***************************************************************************)
(* config.json is the commit point: as soon as some init linked it, and    *)
(* whatever the others then do or clean up, the database it goes with is   *)
(* there, complete, and made by the same call.                             *)
(***************************************************************************)
ConfigMeansDatabase == config \in Procs => db = config /\ ready

(* A call that claimed the database and has not finished still finds the   *)
(* configuration it staged and the database it claimed: nobody else's      *)
(* cleanup takes them away.                                                *)
ClaimIsKept ==
  \A p \in Procs :
    pc[p] \in {"open", "publish"} => temp = p /\ db = p

(***************************************************************************)
(* A failed init can be repeated, unless the file system would not let it  *)
(* clean up: once every call has ended, none of them by a crash, and none  *)
(* succeeded, a file that the next one would refuse is one whose own call  *)
(* could not remove it or not tell it for its own.  No error keeps cleanup *)
(* from the other files, and no race leaves one.                           *)
(***************************************************************************)
FailureLeavesUnremovable ==
  (\A p \in Procs : pc[p] = "failed") =>
    /\ temp # Nobody => "temp" \in unremoved[temp]
    /\ db # Nobody => "db" \in unremoved[db]
    /\ sidecar => \E p \in Procs : "sidecar" \in unremoved[p]

(* Calls that race do not all lose: undisturbed, one of them wins.         *)
OneWins ==
  ~disturbed /\ (\A p \in Procs : pc[p] \in Ended)
    => Cardinality({p \in Procs : pc[p] = "succeeded"}) = 1
=============================================================================
