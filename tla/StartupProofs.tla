--------------------------- MODULE StartupProofs ---------------------------
(***************************************************************************)
(* How a repository gets its database, for any set of processes: first     *)
(* cidx init (Initialize), then every command that opens what it made      *)
(* (DatabaseOpen).                                                         *)
(***************************************************************************)
EXTENDS Startup, FiniteSetTheorems, TLAPS

-----------------------------------------------------------------------------
(***************************************************************************)
(* For any set of processes: config.json commits a complete database, and  *)
(* nobody's cleanup touches what a call in progress claimed.               *)
(*                                                                         *)
(* Neither property is inductive.  What makes them so is who owns a path:  *)
(* Holding(p) says, for each step of a call, which of the staged file, the *)
(* database and the configuration are its own at that step, the steps of   *)
(* its cleanup included; two calls can then never own one path.            *)
(*                                                                         *)
(* The second half is about calls that fail.  Left says what is still on   *)
(* the disk and whose step will remove it, or failed to; Race says why an undisturbed    *)
(* race has a winner: until the configuration is linked, a call that has   *)
(* staged its file cannot lose, and nobody loses before one has staged.    *)
(***************************************************************************)

Early == {"config?", "temp?", "database?", "directory?", "make", "stage"}
Staging == {"claimDir", "claim", "open", "publish"}
Owning == {"open", "publish", "unstage", "dropSidecar", "dropDatabase"}

Holding(p) ==
  /\ pc[p] \in Early => "temporary" \notin state[p]
  /\ pc[p] \in Staging => "temporary" \in state[p]
  /\ pc[p] \in Staging \cup {"dropTemp"} /\ "temporary" \in state[p] => temp = p
  /\ pc[p] = "unstage" => temp = p /\ config = p
  /\ pc[p] \in Owning => db = p
  /\ pc[p] = "publish" => ready

Committed ==
  config \in Procs =>
    db = config /\ ready /\ pc[config] \in {"unstage", "succeeded", "crashed"}

Shape ==
  /\ pc \in [Procs -> Steps]
  /\ state \in [Procs -> SUBSET Flags]
  /\ unremoved \in [Procs -> SUBSET {"temp", "db", "sidecar"}]

OwnInv == Shape /\ (\A p \in Procs : Holding(p)) /\ Committed

-----------------------------------------------------------------------------
(* Nothing exists and every call is at its first look.                     *)
LEMMA InitHolds == Init => OwnInv
  BY ProcsAssumption
  DEF Init, OwnInv, Shape, Holding, Committed, Steps, Ended, Flags, Early, Staging, Owning

(* Steps that change no file and take p to a step that owns nothing new.   *)
LEMMA LooksKeep ==
  ASSUME OwnInv, NEW p \in Procs,
         LookConfig(p) \/ LookTemp(p) \/ LookDatabase(p) \/ LookDirectory(p)
  PROVE  OwnInv'
  BY ProcsAssumption
  DEF LookConfig, LookTemp, LookDatabase, LookDirectory, Look, Goto, fileVars, history,
      OwnInv, Shape, Holding, Committed, Steps, Ended, Early, Staging, Owning

LEMMA PrepareKeeps ==
  ASSUME OwnInv, NEW p \in Procs, Prepare(p)
  PROVE  OwnInv'
<1> USE ProcsAssumption
    DEF OwnInv, Shape, Holding, Committed, Steps, Ended, Flags, Early, Staging, Owning, Goto,
        history, Mark
<1>1. CASE LookConfig(p) \/ LookTemp(p) \/ LookDatabase(p) \/ LookDirectory(p)
  BY <1>1, LooksKeep
<1>2. CASE MakeDirectory(p)
  BY <1>2 DEF MakeDirectory
<1>3. CASE StageConfig(p)
  BY <1>3 DEF StageConfig
<1>4. CASE MakeDbDirectory(p)
  BY <1>4 DEF MakeDbDirectory
<1>5. CASE ClaimProductionDatabase(p)
  BY <1>5 DEF ClaimProductionDatabase
<1>6. CASE OpenProduction(p)
  BY <1>6 DEF OpenProduction
<1>7. CASE PublishConfig(p)
  BY <1>7 DEF PublishConfig
<1>8. CASE RemoveTemporary(p)
  BY <1>8 DEF RemoveTemporary
<1> QED
  BY <1>1, <1>2, <1>3, <1>4, <1>5, <1>6, <1>7, <1>8 DEF Prepare

LEMMA CleanupKeeps ==
  ASSUME OwnInv, NEW p \in Procs, Cleanup(p)
  PROVE  OwnInv'
<1> USE ProcsAssumption
    DEF OwnInv, Shape, Holding, Committed, Steps, Ended, Flags, Early, Staging, Owning, Goto, history
<1>1. CASE DropTemporary(p)
  BY <1>1 DEF DropTemporary
<1>2. CASE LookOwner(p)
  BY <1>2 DEF LookOwner, OwnsClaimedDatabase, fileVars
<1>3. CASE DropSidecar(p)
  BY <1>3 DEF DropSidecar
<1>4. CASE DropDatabase(p)
  BY <1>4 DEF DropDatabase
<1>5. CASE DropDbDirectory(p)
  BY <1>5 DEF DropDbDirectory
<1>6. CASE DropDirectory(p)
  BY <1>6 DEF DropDirectory
<1> QED
  BY <1>1, <1>2, <1>3, <1>4, <1>5, <1>6 DEF Cleanup

(* Only the owner of a database leaves it half done, and it has not linked *)
(* the configuration yet.                                                  *)
LEMMA TroubleKeeps ==
  ASSUME OwnInv, NEW p \in Procs, Trouble(p)
  PROVE  OwnInv'
<1> USE ProcsAssumption
    DEF OwnInv, Shape, Holding, Committed, Steps, Ended, Flags, Early, Staging, Owning, Goto
<1>1. CASE Fault(p)
  BY <1>1 DEF Fault, HalfDone
<1>2. CASE StatFails(p)
  BY <1>2 DEF StatFails, Leave
<1>3. CASE IgnoredError(p)
  BY <1>3 DEF IgnoredError, Ignored, Leave, fileVars
<1>4. CASE Crash(p)
  BY <1>4 DEF Crash, HalfDone
<1> QED
  BY <1>1, <1>2, <1>3, <1>4 DEF Trouble

LEMMA NextKeeps == OwnInv /\ [Next]_vars => OwnInv'
<1> SUFFICES ASSUME OwnInv, [Next]_vars
             PROVE  OwnInv'
  OBVIOUS
<1>1. ASSUME NEW p \in Procs, Prepare(p) \/ Cleanup(p) \/ Trouble(p)
      PROVE  OwnInv'
  BY <1>1, PrepareKeeps, CleanupKeeps, TroubleKeeps
<1>2. CASE UserConfig
  BY <1>2, ProcsAssumption
  DEF UserConfig, OwnInv, Shape, Holding, Committed, Early, Staging, Owning
<1>3. CASE UNCHANGED vars
  BY <1>3 DEF vars, history, fileVars, OwnInv, Shape, Holding, Committed
<1> QED
  BY <1>1, <1>2, <1>3 DEF Next

(* The ownership invariant holds in every reachable state.                 *)
THEOREM Ownership == Spec => []OwnInv
  BY InitHolds, NextKeeps, PTL DEF Spec

(* Once some init linked config.json, the database made by the same call   *)
(* is there and complete, whatever the other calls do.                     *)
THEOREM ConfigurationCommits == Spec => []ConfigMeansDatabase
<1>1. OwnInv => ConfigMeansDatabase
  BY DEF OwnInv, Committed, ConfigMeansDatabase
<1> QED
  BY <1>1, Ownership, PTL

(* A call in progress keeps the staged file and the database it claimed.   *)
THEOREM ClaimsAreKept == Spec => []ClaimIsKept
<1>1. OwnInv => ClaimIsKept
  BY DEF OwnInv, Holding, Early, Staging, Owning, ClaimIsKept
<1> QED
  BY <1>1, Ownership, PTL

-----------------------------------------------------------------------------
(* What is on the disk belongs to a call that will still remove it, that   *)
(* succeeded or crashed, or that failed to remove it.                      *)
Unswept == {"open", "publish", "unstage", "succeeded", "crashed", "dropTemp", "owner?", "dropSidecar"}

Left ==
  /\ {temp, db} \subseteq Procs \cup {Nobody}
  /\ \A p \in Procs : pc[p] \in Owning => "claimed" \in state[p]
  /\ temp # Nobody =>
       \/ pc[temp] \in Staging \cup {"unstage", "succeeded", "crashed"}
       \/ pc[temp] = "dropTemp" /\ "temporary" \in state[temp]
       \/ "temp" \in unremoved[temp]
  /\ db # Nobody =>
       \/ pc[db] \in Unswept \cup {"dropDatabase"} /\ "claimed" \in state[db]
       \/ "db" \in unremoved[db]
  /\ sidecar =>
       \/ db # Nobody /\ pc[db] \in Unswept /\ "claimed" \in state[db]
       \/ \E p \in Procs : "sidecar" \in unremoved[p]

Losing ==
  {"failed", "dropTemp", "owner?", "dropSidecar", "dropDatabase", "dropDbDir", "dropDir"}

(* Undisturbed, the call that linked the configuration wins; before that,  *)
(* losers hold nothing and there is a call with a staged file that stays.  *)
Race ==
  /\ \A p \in Procs : pc[p] = "succeeded" => config = p
  /\ config \in Procs \cup {"user", Nobody}
  /\ ~disturbed =>
       /\ config # "user"
       /\ \A p \in Procs : pc[p] # "crashed" /\ unremoved[p] = {}
  /\ ~disturbed /\ config = Nobody =>
       /\ \A p \in Procs :
            /\ pc[p] \in Losing => /\ temp # Nobody
                                  /\ state[p] \cap {"temporary", "dbDir", "claimed"} = {}
            /\ pc[p] \in Early => state[p] \cap {"dbDir", "claimed"} = {}
            /\ pc[p] \in Staging \cup {"stage"} => "cidx" \in dirs
            /\ pc[p] \in {"claim", "open", "publish"} => "db" \in dirs
       /\ db # Nobody => pc[db] \in {"open", "publish"}

FullInv == OwnInv /\ Left /\ Race

-----------------------------------------------------------------------------
LEMMA InitLeft == Init => Left /\ Race
<1> SUFFICES ASSUME Init
             PROVE  Left /\ Race
  OBVIOUS
<1>1. Left
  BY DEF Init, Left, Owning
<1>2. \A p \in Procs : pc[p] = "config?" /\ state[p] = {} /\ unremoved[p] = {}
  BY DEF Init
<1>3. Race
  BY <1>2, ProcsAssumption DEF Init, Race, Losing, Staging
<1> QED
  BY <1>1, <1>3

(* Undisturbed and before the link, a staged file is its call's, and the   *)
(* call is still preparing.                                                *)
LEMMA StagedStays ==
  ASSUME FullInv, ~disturbed, config = Nobody, temp # Nobody
  PROVE  temp \in Procs /\ pc[temp] \in Staging
<1>1. temp \in Procs /\ Holding(temp)
  BY DEF FullInv, Left, OwnInv
<1>2. pc[temp] # "unstage" /\ pc[temp] # "succeeded" /\ pc[temp] # "crashed"
  BY <1>1, ProcsAssumption DEF FullInv, Race, Holding
<1>3. ~(pc[temp] = "dropTemp" /\ "temporary" \in state[temp])
  BY <1>1 DEF FullInv, Race, Losing
<1>4. "temp" \notin unremoved[temp]
  BY <1>1 DEF FullInv, Race
<1> QED
  BY <1>1, <1>2, <1>3, <1>4 DEF FullInv, Left

LEMMA PrepareKeepsLeft ==
  ASSUME FullInv, NEW p \in Procs, Prepare(p)
  PROVE  Left'
<1> USE ProcsAssumption
    DEF FullInv, OwnInv, Shape, Holding, Left, Unswept, Steps, Ended, Flags, Early,
        Staging, Owning, Goto, history, Mark
<1>1. CASE LookConfig(p) \/ LookTemp(p) \/ LookDatabase(p) \/ LookDirectory(p)
  BY <1>1 DEF LookConfig, LookTemp, LookDatabase, LookDirectory, Look, fileVars
<1>2. CASE MakeDirectory(p)
  BY <1>2 DEF MakeDirectory
<1>3. CASE StageConfig(p)
  BY <1>3 DEF StageConfig
<1>4. CASE MakeDbDirectory(p)
  BY <1>4 DEF MakeDbDirectory
<1>5. CASE ClaimProductionDatabase(p)
  BY <1>5 DEF ClaimProductionDatabase
<1>6. CASE OpenProduction(p)
  BY <1>6 DEF OpenProduction
<1>7. CASE PublishConfig(p)
  BY <1>7 DEF PublishConfig
<1>8. CASE RemoveTemporary(p)
  BY <1>8 DEF RemoveTemporary
<1> QED
  BY <1>1, <1>2, <1>3, <1>4, <1>5, <1>6, <1>7, <1>8 DEF Prepare

LEMMA CleanupKeepsLeft ==
  ASSUME FullInv, NEW p \in Procs, Cleanup(p)
  PROVE  Left'
<1> USE ProcsAssumption
    DEF FullInv, OwnInv, Shape, Holding, Left, Unswept, Steps, Ended, Flags, Early,
        Staging, Owning, Goto, history
<1>1. CASE DropTemporary(p)
  BY <1>1 DEF DropTemporary
<1>2. CASE LookOwner(p)
  BY <1>2 DEF LookOwner, OwnsClaimedDatabase, fileVars
<1>3. CASE DropSidecar(p)
  BY <1>3 DEF DropSidecar
<1>4. CASE DropDatabase(p)
  BY <1>4 DEF DropDatabase
<1>5. CASE DropDbDirectory(p)
  BY <1>5 DEF DropDbDirectory
<1>6. CASE DropDirectory(p)
  BY <1>6 DEF DropDirectory
<1> QED
  BY <1>1, <1>2, <1>3, <1>4, <1>5, <1>6 DEF Cleanup

LEMMA TroubleKeepsLeft ==
  ASSUME FullInv, NEW p \in Procs, Trouble(p)
  PROVE  Left'
<1> USE ProcsAssumption
    DEF FullInv, OwnInv, Shape, Holding, Left, Unswept, Steps, Ended, Flags, Early, Staging, Owning, Goto
<1>1. CASE Fault(p)
  BY <1>1 DEF Fault, HalfDone
<1>2. CASE StatFails(p)
  BY <1>2 DEF StatFails, Leave
<1>3. CASE IgnoredError(p)
  BY <1>3 DEF IgnoredError, Ignored, Leave, fileVars
<1>4. CASE Crash(p)
  BY <1>4 DEF Crash, HalfDone
<1> QED
  BY <1>1, <1>2, <1>3, <1>4 DEF Trouble

(* A look fails only where another call has staged its file, or linked it. *)
LEMMA PrepareKeepsRace ==
  ASSUME FullInv, NEW p \in Procs, Prepare(p)
  PROVE  Race'
<1> USE ProcsAssumption
    DEF FullInv, OwnInv, Shape, Holding, Left, Race, Losing, Steps, Ended, Flags, Early, Staging,
        Owning, Goto, Mark, history
<1>1. CASE LookConfig(p) \/ LookTemp(p) \/ LookDirectory(p)
  BY <1>1 DEF LookConfig, LookTemp, LookDirectory, Look, fileVars
<1>2. CASE LookDatabase(p)
  BY <1>2 DEF LookDatabase, Look, fileVars
<1>3. CASE MakeDirectory(p)
  BY <1>3 DEF MakeDirectory
<1>4. CASE StageConfig(p)
  BY <1>4 DEF StageConfig
<1>5. CASE MakeDbDirectory(p)
  BY <1>5 DEF MakeDbDirectory
<1>6. CASE ClaimProductionDatabase(p)
  BY <1>6 DEF ClaimProductionDatabase
<1>7. CASE OpenProduction(p)
  BY <1>7 DEF OpenProduction
<1>8. CASE PublishConfig(p)
  BY <1>8 DEF PublishConfig
<1>9. CASE RemoveTemporary(p)
  BY <1>9 DEF RemoveTemporary
<1> QED
  BY <1>1, <1>2, <1>3, <1>4, <1>5, <1>6, <1>7, <1>8, <1>9 DEF Prepare

(* A loser's cleanup finds nothing of its own and the directory in use.    *)
LEMMA CleanupKeepsRace ==
  ASSUME FullInv, NEW p \in Procs, Cleanup(p)
  PROVE  Race'
<1> USE ProcsAssumption
    DEF FullInv, OwnInv, Shape, Holding, Left, Race, Losing, Steps, Ended, Flags, Early, Staging,
        Owning, Goto, history
<1>1. CASE DropTemporary(p)
  BY <1>1 DEF DropTemporary
<1>2. CASE LookOwner(p)
  BY <1>2 DEF LookOwner, OwnsClaimedDatabase, fileVars
<1>3. CASE DropSidecar(p)
  BY <1>3 DEF DropSidecar
<1>4. CASE DropDatabase(p)
  BY <1>4 DEF DropDatabase
<1>5. CASE DropDbDirectory(p)
  BY <1>5 DEF DropDbDirectory
<1>6. CASE DropDirectory(p)
  BY <1>6 DEF DropDirectory, Empty
<1> QED
  BY <1>1, <1>2, <1>3, <1>4, <1>5, <1>6 DEF Cleanup

LEMMA TroubleKeepsRace ==
  ASSUME FullInv, NEW p \in Procs, Trouble(p)
  PROVE  Race'
<1> USE DEF Trouble, Fault, StatFails, IgnoredError, Ignored, Leave, Crash
<1>1. disturbed' /\ UNCHANGED config
  BY DEF fileVars
<1>2. \A q \in Procs : pc'[q] = "succeeded" => pc[q] = "succeeded" \/ pc[q] = "unstage"
  BY DEF FullInv, OwnInv, Shape, Goto
<1> QED
  BY <1>1, <1>2 DEF FullInv, OwnInv, Holding, Race

LEMMA FullKeeps == FullInv /\ [Next]_vars => FullInv'
<1> SUFFICES ASSUME FullInv, [Next]_vars
             PROVE  FullInv'
  OBVIOUS
<1>1. OwnInv'
  BY NextKeeps DEF FullInv
<1>2. ASSUME NEW p \in Procs, Prepare(p) \/ Cleanup(p) \/ Trouble(p)
      PROVE  Left' /\ Race'
  BY <1>2, PrepareKeepsLeft, CleanupKeepsLeft, TroubleKeepsLeft,
     PrepareKeepsRace, CleanupKeepsRace, TroubleKeepsRace
<1>3. CASE UserConfig
  BY <1>1, <1>3, ProcsAssumption
  DEF UserConfig, FullInv, OwnInv, Left, Race, Holding, Staging, Owning, Unswept
<1>4. CASE UNCHANGED vars
  BY <1>1, <1>4 DEF vars, history, fileVars, FullInv, Left, Race
<1> QED
  BY <1>1, <1>2, <1>3, <1>4 DEF Next, FullInv

(* What lies on the disk has an owner, and an undisturbed race a winner.   *)
THEOREM NothingAbandoned == Spec => []FullInv
<1>1. Init => FullInv
  BY InitHolds, InitLeft DEF FullInv
<1> QED
  BY <1>1, FullKeeps, PTL DEF Spec

(* When every call failed, whatever went wrong short of a crash and in     *)
(* whichever cleanup, a file that the next init would refuse is one that   *)
(* its own call could not remove, or not tell for its own.                 *)
THEOREM FailuresCleanUp == Spec => []FailureLeavesUnremovable
<1>1. FullInv => FailureLeavesUnremovable
  BY DEF FullInv, Left, Staging, Unswept, FailureLeavesUnremovable
<1> QED
  BY <1>1, NothingAbandoned, PTL

(* Undisturbed calls that have all ended have exactly one winner.          *)
THEOREM RaceHasOneWinner == Spec => []OneWins
<1>1. ASSUME FullInv, ~disturbed, \A p \in Procs : pc[p] \in Ended
      PROVE  Cardinality({p \in Procs : pc[p] = "succeeded"}) = 1
  <2>1. config # Nobody
    <3> SUFFICES ASSUME config = Nobody
                 PROVE  FALSE
      OBVIOUS
    <3>1. PICK p \in Procs : TRUE
      BY ProcsAssumption
    <3>2. pc[p] = "failed"
      BY <1>1, <3>1, ProcsAssumption DEF FullInv, Race, Ended
    <3>3. temp # Nobody
      BY <1>1, <3>2 DEF FullInv, Race, Losing
    <3> QED
      BY <1>1, <3>3, StagedStays DEF Ended, Staging
  <2>2. config \in Procs /\ pc[config] = "succeeded"
    BY <1>1, <2>1, ProcsAssumption DEF FullInv, OwnInv, Committed, Race, Ended
  <2>3. {p \in Procs : pc[p] = "succeeded"} = {config}
    BY <1>1, <2>2 DEF FullInv, Race
  <2> QED
    BY <2>3, FS_Singleton
<1>2. FullInv => OneWins
  BY <1>1 DEF OneWins
<1> QED
  BY <1>2, NothingAbandoned, PTL

-----------------------------------------------------------------------------
(***************************************************************************)
(* For any set of processes that open one database: what they leave can    *)
(* always be opened, no row is lost, and, without a fault, not all of them *)
(* turn one another away.                                                  *)
(*                                                                         *)
(* Level(d) is what every transaction leaves: the tables a database has    *)
(* follow from its version.  A late migration may take a database from     *)
(* version 5 back to 4, never further: Reached(v) is what a process that   *)
(* once saw version v may still rely on.                                   *)
(***************************************************************************)

Level(d) ==
  /\ d \in Databases
  /\ d.tables
  /\ d.version \in 1..5 /\ d.made = d.version
  /\ (d.lineage <=> d.version >= 2)
  /\ (d.classified <=> d.version >= 3)
  /\ (d.runs <=> d.version >= 3)
  /\ (d.root <=> d.version < 4)
  /\ d.version = 5 => d.int8

(* What no process of this program may touch.                              *)
Foreign(d) ==
  /\ d \in Databases
  /\ d.tables
  /\ d.version > 5 \/ d.version = 0

Reached(v) ==
  v \in 1..5 /\ (IF v >= 4 THEN current.version >= 4 ELSE v <= current.version)

OpenSteps ==
  {"look", "target", "rename", "file", "version", "count", "create", "check", "migrate",
   "meta", "row", "insert", "opened", "failed", "dead"}

Typed ==
  /\ opening \in [Openers -> OpenSteps]
  /\ at \in [Openers -> Nat]
  /\ written \subseteq Openers

Sound ==
  /\ current = NoFile \/ current = EmptyFile \/ Level(current) \/ Foreign(current)
  /\ Supported(origin) => ~Foreign(current)
  /\ legacy # NoFile =>
       /\ Level(legacy) /\ origin = legacy
       /\ ~legacy.runs => \A f \in legacy.failures : f.class = "none"

(* What a process may rely on at its step.                                 *)
Where(p) ==
  /\ legacy # NoFile =>
       opening[p] \in {"look", "target", "rename", "failed", "dead"} /\ p \notin written
  /\ current = NoFile => opening[p] \in {"look", "target", "rename", "file", "failed", "dead"}
  /\ opening[p] = "create" => ~Foreign(current)
  /\ opening[p] \in {"check", "migrate"} => Level(current) /\ Reached(at[p])
  /\ opening[p] = "migrate" => at[p] # 5
  /\ opening[p] = "meta" => Level(current)
  /\ opening[p] \in {"row", "insert", "opened"} \/ p \in written =>
       Level(current) /\ current.version >= 4

Survives(f, d) ==
  \E g \in d.failures : g.of = f.of /\ (g.class = f.class \/ (f.class = "none" /\ g.class = "terminal"))

(* The rows of the first database and of every writer.  A failure has no   *)
(* class before the migration that classifies them all.                    *)
Kept ==
  /\ \A p \in written : Vector(p, "int8") \in current.vectors /\ Failure(p, "retryable") \in current.failures
  /\ origin \notin {NoFile, EmptyFile} /\ legacy = NoFile =>
       /\ current \notin {NoFile, EmptyFile}
       /\ origin.meta => current.meta
       /\ Int8Rows(origin.vectors) \subseteq current.vectors
       /\ \A f \in origin.failures : Survives(f, current)
       /\ ~current.runs => \A f \in origin.failures : f.class = "none"

(* A process nothing but another one's progress can turn away.             *)
Leads(p) ==
  \/ opening[p] \in {"look", "file", "version", "opened"}
  \/ opening[p] \in {"target", "rename"} /\ legacy # NoFile
  \/ opening[p] \in {"count", "create"} /\ current = EmptyFile
  \/ opening[p] \in {"check", "migrate"} /\ at[p] = current.version
  \/ opening[p] \in {"meta", "row"} /\ current.version = 5
  \/ opening[p] = "insert" /\ current.version = 5 /\ ~current.meta

Undisturbed ==
  /\ Supported(origin) /\ ~hindered /\ ~leftovers
  /\ legacy = NoFile \/ current = NoFile

IInv ==
  /\ Typed /\ Sound
  /\ \A p \in Openers : Where(p)
  /\ Kept
  /\ Undisturbed => \E p \in Openers : Leads(p)

-----------------------------------------------------------------------------
(* Databases *)

LEMMA EmptyFileIs ==
  /\ EmptyFile \in Databases
  /\ EmptyFile.version = 0 /\ EmptyFile.tables = FALSE
  /\ EmptyFile.vectors = {} /\ EmptyFile.failures = {}
  BY DEF EmptyFile, Databases

LEMMA FreshIs == Level(Fresh) /\ Fresh.version = 5
<1>1. /\ Fresh.version = 5 /\ Fresh.made = 5 /\ Fresh.tables = TRUE
      /\ Fresh.lineage = TRUE /\ Fresh.int8 = TRUE /\ Fresh.classified = TRUE /\ Fresh.runs = TRUE
      /\ Fresh.root = FALSE
  BY DEF Fresh, EmptyFile, Current
<1>2. Fresh \in Databases
  BY DEF Fresh, EmptyFile, Databases, Current
<1> QED
  BY <1>1, <1>2 DEF Level

LEMMA OldRows ==
  ASSUME NEW v \in Nat
  PROVE  /\ OldVectors(v) \in SUBSET [of : Openers \cup {"old"}, codec : {"int8", "retired"}]
         /\ OldFailures(v) \in SUBSET [of : Openers \cup {"x", "y"}, class : {"none", "terminal", "retryable"}]
         /\ v < 3 => \A f \in OldFailures(v) : f.class = "none"
<1>1. OldVectors(v) \in SUBSET [of : Openers \cup {"old"}, codec : {"int8", "retired"}]
  BY DEF OldVectors, Vector
<1>2. OldFailures(v) \in SUBSET [of : Openers \cup {"x", "y"}, class : {"none", "terminal", "retryable"}]
  BY DEF OldFailures, Failure
<1>3. v < 3 => \A f \in OldFailures(v) : f.class = "none"
  BY DEF OldFailures, Failure
<1> QED
  BY <1>1, <1>2, <1>3

LEMMA OldIs ==
  ASSUME NEW v \in 1..6
  PROVE  /\ Old(v) \in Databases /\ Old(v).version = v /\ Old(v).tables
         /\ v # 6 => Level(Old(v))
         /\ ~Old(v).runs => \A f \in Old(v).failures : f.class = "none"
<1>1. Old(v) \in Databases
  BY OldRows DEF Old, Databases
<1>2. /\ Old(v).version = v /\ Old(v).made = v /\ Old(v).tables = TRUE
      /\ (Old(v).root <=> v < 4) /\ (Old(v).lineage <=> v >= 2) /\ (Old(v).int8 <=> v >= 5)
      /\ (Old(v).classified <=> v >= 3) /\ (Old(v).runs <=> v >= 3)
      /\ Old(v).failures = OldFailures(v)
  BY DEF Old
<1>3. v # 6 => Level(Old(v))
  BY <1>1, <1>2 DEF Level
<1>4. ~Old(v).runs => \A f \in Old(v).failures : f.class = "none"
  BY <1>2, OldRows
<1> QED
  BY <1>1, <1>2, <1>3, <1>4

LEMMA UnknownIs == Foreign(Unknown) /\ (~Unknown.runs => \A f \in Unknown.failures : f.class = "none")
<1>1. Unknown = [Old(1) EXCEPT !.version = 0] /\ Old(1) \in Databases /\ Old(1).tables
  BY OldIs DEF Unknown, Level
<1>2. Unknown \in Databases /\ Unknown.version = 0 /\ Unknown.tables /\ Unknown.failures = Old(1).failures
  BY <1>1 DEF Databases
<1>3. \A f \in OldFailures(1) : f.class = "none"
  BY OldRows
<1> QED
  BY <1>2, <1>3 DEF Foreign, Old

LEMMA NotEmpty ==
  ASSUME NEW d, Level(d) \/ Foreign(d)
  PROVE  d # NoFile /\ d # EmptyFile /\ d \in Databases
  BY NoFileAssumption, EmptyFileIs DEF Level, Foreign

(* No two of the forms a database can have overlap.                        *)
LEMMA Apart ==
  /\ EmptyFile # NoFile /\ ~Level(EmptyFile) /\ ~Foreign(EmptyFile)
  /\ ~Level(NoFile) /\ ~Foreign(NoFile)
  /\ \A d : ~(Level(d) /\ Foreign(d))
  BY NoFileAssumption, EmptyFileIs DEF Level, Foreign

(* A database at a level passes the check of its version and the migration *)
(* from it.                                                                *)
LEMMA LevelPasses ==
  ASSUME NEW d, Level(d)
  PROVE  Requires(d.version, d) /\ (d.version # 5 => Migrates(d.version, d))
<1>1. Requires(d.version, d)
  BY DEF Level, Requires
<1>2. d.version = 1 => Migrates(1, d)
  BY DEF Level, Migrates
<1>3. d.version = 2 => Migrates(2, d)
  BY DEF Level, Migrates
<1>4. Migrates(3, d) /\ (d.version = 4 => Migrates(4, d))
  BY DEF Level, Migrates
<1> QED
  BY <1>1, <1>2, <1>3, <1>4 DEF Level

LEMMA Int8Stay ==
  ASSUME NEW rows
  PROVE  Int8Rows(rows) \subseteq rows /\ \A x \in rows : x.codec = "int8" => x \in Int8Rows(rows)
  BY DEF Int8Rows

LEMMA ClassifiedRows ==
  ASSUME NEW rows \in SUBSET [of : Openers \cup {"x", "y"}, class : {"none", "terminal", "retryable"}]
  PROVE  /\ Classified(rows) \in SUBSET [of : Openers \cup {"x", "y"}, class : {"none", "terminal", "retryable"}]
         /\ \A r \in rows : \E g \in Classified(rows) : g.of = r.of /\ g.class = "terminal"
<1>1. \A r \in rows : /\ [r EXCEPT !.class = "terminal"] \in [of : Openers \cup {"x", "y"}, class : {"none", "terminal", "retryable"}]
                      /\ [r EXCEPT !.class = "terminal"].of = r.of
                      /\ [r EXCEPT !.class = "terminal"].class = "terminal"
  OBVIOUS
<1> QED
  BY <1>1 DEF Classified

LEMMA StampedIs ==
  ASSUME NEW d \in Databases, NEW v \in Nat
  PROVE  /\ Stamped(d, v) \in Databases
         /\ Stamped(d, v).version = v /\ Stamped(d, v).made = v
         /\ Stamped(d, v).tables = d.tables /\ Stamped(d, v).root = d.root
         /\ Stamped(d, v).lineage = d.lineage /\ Stamped(d, v).int8 = d.int8
         /\ Stamped(d, v).classified = d.classified /\ Stamped(d, v).runs = d.runs
         /\ Stamped(d, v).meta = d.meta
         /\ Stamped(d, v).vectors = d.vectors /\ Stamped(d, v).failures = d.failures
  BY DEF Stamped, Databases

(* What a migration makes of a database that reached its version.          *)
LEMMA MigratedIs ==
  ASSUME NEW d, Level(d), NEW v \in 1..4, Migrates(v, d),
         IF v = 4 THEN d.version >= 4 ELSE v <= d.version
  PROVE  /\ Level(Migrated(v, d)) /\ Migrated(v, d).version = v + 1
         /\ v < 3 => d.version = v
         /\ Migrated(v, d).meta = d.meta
         /\ IF v = 4 THEN Migrated(v, d).vectors = Int8Rows(d.vectors)
                     ELSE Migrated(v, d).vectors = d.vectors
         /\ IF v = 2 THEN Migrated(v, d).failures = Classified(d.failures)
                     ELSE Migrated(v, d).failures = d.failures
<1> d \in Databases
  BY DEF Level
<1>1. CASE v = 1
  <2> DEFINE new == [d EXCEPT !.lineage = TRUE]
  <2>1. Migrated(1, d) = Stamped(new, 2) /\ d.version = 1
    BY <1>1 DEF Migrated, Migrates, Level
  <2>3. /\ new \in Databases
        /\ new.version = d.version
        /\ new.tables = d.tables /\ new.root = d.root /\ new.lineage = TRUE /\ new.int8 = d.int8
        /\ new.classified = d.classified /\ new.runs = d.runs /\ new.meta = d.meta
        /\ new.vectors = d.vectors /\ new.failures = d.failures
    BY DEF Databases
  <2> HIDE DEF new
  <2>4. Level(Stamped(new, 2))
    <3> DEFINE made == Stamped(new, 2)
    <3>1. /\ made \in Databases /\ made.version = 2 /\ made.made = 2
          /\ made.tables = new.tables /\ made.root = new.root /\ made.lineage = new.lineage
          /\ made.int8 = new.int8 /\ made.classified = new.classified /\ made.runs = new.runs
      BY <2>3, StampedIs
    <3> HIDE DEF made
    <3>2. made.tables /\ (made.lineage <=> made.version >= 2) /\ (made.classified <=> made.version >= 3)
          /\ (made.runs <=> made.version >= 3) /\ (made.root <=> made.version < 4)
          /\ (made.version = 5 => made.int8)
      BY <2>1, <2>3, <3>1 DEF Level
    <3>3. Level(made)
      BY <3>1, <3>2 DEF Level
    <3> QED
      BY <3>3 DEF made
  <2> QED
    BY <1>1, <2>1, <2>3, <2>4, StampedIs
<1>2. CASE v = 2
  <2> DEFINE new == [d EXCEPT !.classified = TRUE, !.runs = TRUE, !.failures = Classified(@)]
  <2>1. Migrated(2, d) = Stamped(new, 3) /\ d.version = 2
    BY <1>2 DEF Migrated, Migrates, Level
  <2>2. Classified(d.failures) \in SUBSET [of : Openers \cup {"x", "y"}, class : {"none", "terminal", "retryable"}]
    BY ClassifiedRows DEF Databases
  <2>3. /\ new \in Databases
        /\ new.version = d.version
        /\ new.tables = d.tables /\ new.root = d.root /\ new.lineage = d.lineage /\ new.int8 = d.int8
        /\ new.classified = TRUE /\ new.runs = TRUE /\ new.meta = d.meta
        /\ new.vectors = d.vectors /\ new.failures = Classified(d.failures)
    BY <2>2 DEF Databases
  <2> HIDE DEF new
  <2>4. Level(Stamped(new, 3))
    <3> DEFINE made == Stamped(new, 3)
    <3>1. /\ made \in Databases /\ made.version = 3 /\ made.made = 3
          /\ made.tables = new.tables /\ made.root = new.root /\ made.lineage = new.lineage
          /\ made.int8 = new.int8 /\ made.classified = new.classified /\ made.runs = new.runs
      BY <2>3, StampedIs
    <3> HIDE DEF made
    <3>2. made.tables /\ (made.lineage <=> made.version >= 2) /\ (made.classified <=> made.version >= 3)
          /\ (made.runs <=> made.version >= 3) /\ (made.root <=> made.version < 4)
          /\ (made.version = 5 => made.int8)
      BY <2>1, <2>3, <3>1 DEF Level
    <3>3. Level(made)
      BY <3>1, <3>2 DEF Level
    <3> QED
      BY <3>3 DEF made
  <2> QED
    BY <1>2, <2>1, <2>3, <2>4, StampedIs
<1>3. CASE v = 3
  <2> DEFINE new == [d EXCEPT !.root = FALSE]
  <2>1. Migrated(3, d) = Stamped(new, 4) /\ d.version >= 3
    BY <1>3 DEF Migrated, Migrates, Level
  <2>3. /\ new \in Databases
        /\ new.version = d.version
        /\ new.tables = d.tables /\ new.root = FALSE /\ new.lineage = d.lineage /\ new.int8 = d.int8
        /\ new.classified = d.classified /\ new.runs = d.runs /\ new.meta = d.meta
        /\ new.vectors = d.vectors /\ new.failures = d.failures
    BY DEF Databases
  <2> HIDE DEF new
  <2>4. Level(Stamped(new, 4))
    <3> DEFINE made == Stamped(new, 4)
    <3>1. /\ made \in Databases /\ made.version = 4 /\ made.made = 4
          /\ made.tables = new.tables /\ made.root = new.root /\ made.lineage = new.lineage
          /\ made.int8 = new.int8 /\ made.classified = new.classified /\ made.runs = new.runs
      BY <2>3, StampedIs
    <3> HIDE DEF made
    <3>2. made.tables /\ (made.lineage <=> made.version >= 2) /\ (made.classified <=> made.version >= 3)
          /\ (made.runs <=> made.version >= 3) /\ (made.root <=> made.version < 4)
          /\ (made.version = 5 => made.int8)
      BY <2>1, <2>3, <3>1 DEF Level
    <3>3. Level(made)
      BY <3>1, <3>2 DEF Level
    <3> QED
      BY <3>3 DEF made
  <2> QED
    BY <1>3, <2>1, <2>3, <2>4, StampedIs
<1>4. CASE v = 4
  <2> DEFINE new == [d EXCEPT !.root = FALSE, !.int8 = TRUE, !.vectors = Int8Rows(@)]
  <2>1. Migrated(4, d) = Stamped(new, 5) /\ d.version >= 4
    BY <1>4 DEF Migrated, Migrates, Level
  <2>2. Int8Rows(d.vectors) \in SUBSET [of : Openers \cup {"old"}, codec : {"int8", "retired"}]
    BY Int8Stay DEF Databases
  <2>3. /\ new \in Databases
        /\ new.version = d.version
        /\ new.tables = d.tables /\ new.root = FALSE /\ new.lineage = d.lineage /\ new.int8 = TRUE
        /\ new.classified = d.classified /\ new.runs = d.runs /\ new.meta = d.meta
        /\ new.vectors = Int8Rows(d.vectors) /\ new.failures = d.failures
    BY <2>2 DEF Databases
  <2> HIDE DEF new
  <2>4. Level(Stamped(new, 5))
    <3> DEFINE made == Stamped(new, 5)
    <3>1. /\ made \in Databases /\ made.version = 5 /\ made.made = 5
          /\ made.tables = new.tables /\ made.root = new.root /\ made.lineage = new.lineage
          /\ made.int8 = new.int8 /\ made.classified = new.classified /\ made.runs = new.runs
      BY <2>3, StampedIs
    <3> HIDE DEF made
    <3>2. made.tables /\ (made.lineage <=> made.version >= 2) /\ (made.classified <=> made.version >= 3)
          /\ (made.runs <=> made.version >= 3) /\ (made.root <=> made.version < 4)
          /\ (made.version = 5 => made.int8)
      BY <2>1, <2>3, <3>1 DEF Level
    <3>3. Level(made)
      BY <3>1, <3>2 DEF Level
    <3> QED
      BY <3>3 DEF made
  <2> QED
    BY <1>4, <2>1, <2>3, <2>4, StampedIs
<1> QED
  BY <1>1, <1>2, <1>3, <1>4

-----------------------------------------------------------------------------
LEMMA Initially == OpenInit => IInv
<1> SUFFICES ASSUME OpenInit
             PROVE  IInv
  OBVIOUS
<1>1. /\ opening = [p \in Openers |-> "look"] /\ at = [p \in Openers |-> 0] /\ written = {}
      /\ origin = (IF legacy = NoFile THEN current ELSE legacy)
  BY DEF OpenInit
<1>2. /\ current = NoFile \/ current = EmptyFile \/ Level(current) \/ Foreign(current)
      /\ legacy # NoFile =>
           /\ Level(legacy) /\ (current = NoFile \/ Level(current))
           /\ (~legacy.runs => \A f \in legacy.failures : f.class = "none")
      /\ origin \notin {NoFile, EmptyFile} /\ legacy = NoFile =>
           (~current.runs => \A f \in current.failures : f.class = "none")
  <2>1. CASE legacy = NoFile /\ current \in {NoFile, EmptyFile}
    BY <1>1, <2>1
  <2>2. CASE legacy = NoFile /\ current = Unknown
    BY <2>2, UnknownIs
  <2>3. CASE legacy = NoFile /\ \E v \in 1..6 : current = Old(v)
    <3>1. PICK v \in 1..6 : current = Old(v)
      BY <2>3
    <3>2. v = 6 => Foreign(current)
      BY <3>1, OldIs DEF Foreign
    <3> QED
      BY <2>3, <3>1, <3>2, OldIs
  <2>4. CASE current \in {NoFile, Old(5)} /\ legacy \in {Old(1), Old(3)}
    <3>1. /\ Level(Old(5)) /\ Level(Old(1)) /\ Level(Old(3))
          /\ ~Old(1).runs => \A f \in Old(1).failures : f.class = "none"
          /\ ~Old(3).runs => \A f \in Old(3).failures : f.class = "none"
      BY OldIs
    <3>2. legacy # NoFile
      BY <2>4, <3>1, Apart
    <3> QED
      BY <2>4, <3>1, <3>2
  <2> QED
    BY <2>1, <2>2, <2>3, <2>4 DEF OpenInit
<1>3. Typed
  BY <1>1 DEF Typed, OpenSteps
<1>4. Sound
  <2>1. Supported(origin) => ~Foreign(current)
    <3>1. CASE legacy = NoFile
      BY <1>1, <3>1, Apart, NotEmpty DEF Supported, Foreign, Current
    <3>2. CASE legacy # NoFile
      BY <1>2, <3>2, Apart
    <3> QED
      BY <3>1, <3>2
  <2> QED
    BY <1>1, <1>2, <2>1 DEF Sound
<1>5. \A p \in Openers : Where(p) /\ Leads(p)
  BY <1>1 DEF Where, Leads
<1>6. Kept
  <2>1. ASSUME origin \notin {NoFile, EmptyFile}, legacy = NoFile
        PROVE  /\ current = origin
               /\ Int8Rows(origin.vectors) \subseteq current.vectors
               /\ \A f \in origin.failures : Survives(f, current)
    BY <1>1, <2>1, Int8Stay DEF Survives
  <2> QED
    BY <1>1, <1>2, <2>1 DEF Kept
<1> QED
  BY <1>3, <1>4, <1>5, <1>6, OpenersAssumption DEF IInv

-----------------------------------------------------------------------------
(* A step of p that only looks.                                            *)
LEMMA SeenStep ==
  ASSUME IInv, NEW p \in Openers, NEW s \in OpenSteps, Seen, Proceed(p, s),
         at' \in [Openers -> Nat], \A q \in Openers : q # p => at'[q] = at[q],
         Where(p)', Undisturbed /\ Leads(p) => Leads(p)'
  PROVE  IInv'
<1>1. /\ UNCHANGED <<current, legacy, leftovers, written, origin, hindered>>
      /\ opening' = [opening EXCEPT ![p] = s]
  BY DEF Seen, Proceed, databaseVars
<1>2. Typed' /\ Sound' /\ Kept'
  BY <1>1 DEF IInv, Typed, Sound, Kept
<1>3. \A q \in Openers : q # p => opening'[q] = opening[q]
  BY <1>1 DEF IInv, Typed
<1>4. ASSUME NEW q \in Openers, q # p
      PROVE  Where(q)' /\ (Leads(q) => Leads(q)')
  BY <1>1, <1>3, <1>4 DEF IInv, Where, Leads, Reached
<1>5. Undisturbed' => \E q \in Openers : Leads(q)'
  BY <1>1, <1>4 DEF IInv, Undisturbed
<1> QED
  BY <1>2, <1>4, <1>5 DEF IInv

(* A step of p that changes a database leaves p in the lead.               *)
LEMMA ChangeStep ==
  ASSUME IInv, NEW p \in Openers, Typed', Sound', Kept', \A q \in Openers : Where(q)',
         Undisturbed' => Leads(p)'
  PROVE  IInv'
  BY DEF IInv

LEMMA LookLegacyStep == ASSUME IInv, NEW p \in Openers, LookLegacy(p) PROVE IInv'
<1> DEFINE s == IF legacy = NoFile THEN "file" ELSE "target"
<1>1. opening[p] = "look" /\ Proceed(p, s) /\ Seen /\ at' = at /\ s \in OpenSteps
  BY DEF LookLegacy, OpenSteps
<1>2. opening'[p] = s /\ UNCHANGED <<current, legacy, written>>
  BY <1>1 DEF Proceed, IInv, Typed, Seen, databaseVars
<1>3. Where(p)' /\ Leads(p)'
  BY <1>1, <1>2 DEF IInv, Where, Leads
<1> QED
  BY <1>1, <1>3, SeenStep DEF IInv, Typed

LEMMA LookTargetStep == ASSUME IInv, NEW p \in Openers, LookTarget(p) PROVE IInv'
<1> DEFINE s == IF current # NoFile \/ leftovers THEN "failed" ELSE "rename"
<1>1. opening[p] = "target" /\ Proceed(p, s) /\ Seen /\ at' = at /\ s \in OpenSteps
  BY DEF LookTarget, OpenSteps
<1>2. opening'[p] = s /\ UNCHANGED <<current, legacy, written>>
  BY <1>1 DEF Proceed, IInv, Typed, Seen, databaseVars
<1>3. Where(p)' /\ (Undisturbed /\ Leads(p) => Leads(p)')
  BY <1>1, <1>2 DEF IInv, Where, Leads, Undisturbed
<1> QED
  BY <1>1, <1>3, SeenStep DEF IInv, Typed

LEMMA ReadVersionStep == ASSUME IInv, NEW p \in Openers, ReadVersion(p) PROVE IInv'
<1> DEFINE s == IF current.version > 5 THEN "failed" ELSE IF current.version = 0 THEN "count" ELSE "check"
<1>1. opening[p] = "version" /\ Proceed(p, s) /\ Seen /\ s \in OpenSteps
      /\ at' = [at EXCEPT ![p] = current.version]
  BY DEF ReadVersion, OpenSteps, Current
<1>2. opening'[p] = s /\ at'[p] = current.version /\ UNCHANGED <<current, legacy, written>>
  BY <1>1 DEF Proceed, IInv, Typed, Seen, databaseVars
<1>3. current # NoFile
  BY <1>1 DEF IInv, Where
<1>4. CASE current = EmptyFile
  <2>1. s = "count" /\ current.version \in Nat
    BY <1>4, EmptyFileIs
  <2>2. Where(p)' /\ Leads(p)'
    BY <1>1, <1>2, <1>4, <2>1, Apart DEF IInv, Where, Leads
  <2> QED
    BY <1>1, <2>1, <2>2, SeenStep DEF IInv, Typed
<1>5. CASE Level(current)
  <2>1. s = "check" /\ current.version \in 1..5
    BY <1>5 DEF Level
  <2>2. Where(p)' /\ Leads(p)'
    BY <1>1, <1>2, <1>3, <1>5, <2>1 DEF IInv, Where, Leads, Reached
  <2> QED
    BY <1>1, <2>1, <2>2, SeenStep DEF IInv, Typed
<1>6. CASE Foreign(current)
  <2>1. s \in {"failed", "count"} /\ current.version \in Nat
    BY <1>6 DEF Foreign, Databases
  <2>2. Where(p)' /\ ~Undisturbed
    BY <1>1, <1>2, <1>3, <1>6, <2>1, Apart DEF IInv, Where, Sound, Undisturbed
  <2> QED
    BY <1>1, <2>1, <2>2, SeenStep DEF IInv, Typed
<1> QED
  BY <1>3, <1>4, <1>5, <1>6 DEF IInv, Sound

LEMMA CountTablesStep == ASSUME IInv, NEW p \in Openers, CountTables(p) PROVE IInv'
<1> DEFINE s == IF current.tables THEN "failed" ELSE "create"
<1>1. opening[p] = "count" /\ Proceed(p, s) /\ Seen /\ at' = at /\ s \in OpenSteps
  BY DEF CountTables, OpenSteps
<1>2. opening'[p] = s /\ UNCHANGED <<current, legacy, written>>
  BY <1>1 DEF Proceed, IInv, Typed, Seen, databaseVars
<1>3. current # NoFile
  BY <1>1 DEF IInv, Where
<1>4. Where(p)' /\ (Leads(p) => Leads(p)')
  BY <1>1, <1>2, <1>3, EmptyFileIs DEF IInv, Where, Leads, Foreign
<1> QED
  BY <1>1, <1>4, SeenStep DEF IInv, Typed

LEMMA CheckSchemaStep == ASSUME IInv, NEW p \in Openers, CheckSchema(p) PROVE IInv'
<1> DEFINE s == IF ~Requires(at[p], current) THEN "failed" ELSE IF at[p] = 5 THEN "meta" ELSE "migrate"
<1>1. opening[p] = "check" /\ Proceed(p, s) /\ Seen /\ at' = at /\ s \in OpenSteps
  BY DEF CheckSchema, OpenSteps, Current
<1>2. opening'[p] = s /\ UNCHANGED <<current, legacy, written>>
  BY <1>1 DEF Proceed, IInv, Typed, Seen, databaseVars
<1>3. Level(current) /\ Reached(at[p])
  BY <1>1 DEF IInv, Where
<1>4. Where(p)'
  BY <1>1, <1>2, <1>3, NotEmpty DEF IInv, Where, Reached
<1>5. Leads(p) => Leads(p)'
  <2>1. at[p] = current.version => Requires(at[p], current)
    BY <1>3, LevelPasses
  <2> QED
    BY <1>1, <1>2, <2>1 DEF Leads
<1> QED
  BY <1>1, <1>4, <1>5, SeenStep DEF IInv, Typed

LEMMA RequireVersionStep == ASSUME IInv, NEW p \in Openers, RequireVersion(p) PROVE IInv'
<1> DEFINE s == IF current.version # 5 \/ ~Requires(5, current) THEN "failed" ELSE "row"
<1>1. opening[p] = "meta" /\ Proceed(p, s) /\ Seen /\ at' = at /\ s \in OpenSteps
  BY DEF RequireVersion, OpenSteps, Current
<1>2. opening'[p] = s /\ UNCHANGED <<current, legacy, written>>
  BY <1>1 DEF Proceed, IInv, Typed, Seen, databaseVars
<1>3. Level(current)
  BY <1>1 DEF IInv, Where
<1>4. Where(p)'
  BY <1>1, <1>2, <1>3, NotEmpty DEF IInv, Where
<1>5. Leads(p) => Leads(p)'
  <2>1. current.version = 5 => Requires(5, current)
    BY <1>3, LevelPasses
  <2> QED
    BY <1>1, <1>2, <2>1 DEF Leads
<1> QED
  BY <1>1, <1>4, <1>5, SeenStep DEF IInv, Typed

LEMMA SelectMetaStep == ASSUME IInv, NEW p \in Openers, SelectMeta(p) PROVE IInv'
<1> DEFINE s == IF current.meta THEN "opened" ELSE "insert"
<1>1. opening[p] = "row" /\ Proceed(p, s) /\ Seen /\ at' = at /\ s \in OpenSteps
  BY DEF SelectMeta, OpenSteps
<1>2. opening'[p] = s /\ UNCHANGED <<current, legacy, written>>
  BY <1>1 DEF Proceed, IInv, Typed, Seen, databaseVars
<1>3. Level(current)
  BY <1>1 DEF IInv, Where
<1>4. Where(p)' /\ (Leads(p) => Leads(p)')
  BY <1>1, <1>2, <1>3, NotEmpty DEF IInv, Where, Leads
<1> QED
  BY <1>1, <1>4, SeenStep DEF IInv, Typed

(* A fault or a death: the others may still rely on what they saw.         *)
LEMMA HinderStep == ASSUME IInv, NEW p \in Openers, Hinder(p) PROVE IInv'
<1>1. PICK s \in {"failed", "dead"} : Proceed(p, s)
  BY DEF Hinder
<1>2. /\ UNCHANGED <<current, legacy, at, written, origin>> /\ hindered'
      /\ opening' = [opening EXCEPT ![p] = s]
  BY <1>1 DEF Hinder, Proceed, databaseVars
<1>3. opening'[p] = s /\ \A q \in Openers : q # p => opening'[q] = opening[q]
  BY <1>2 DEF IInv, Typed
<1>4. Typed' /\ Sound' /\ Kept'
  BY <1>2 DEF IInv, Typed, Sound, Kept, OpenSteps
<1>5. \A q \in Openers : Where(q)'
  <2> SUFFICES ASSUME NEW q \in Openers
               PROVE  Where(q)'
    OBVIOUS
  <2>1. opening'[q] = opening[q] \/ opening'[q] \in {"failed", "dead"}
    BY <1>3
  <2> QED
    BY <1>2, <2>1 DEF IInv, Where, Reached
<1>6. ~Undisturbed'
  BY <1>2 DEF Undisturbed
<1> QED
  BY <1>4, <1>5, <1>6 DEF IInv

-----------------------------------------------------------------------------
(* The steps that change a database.                                       *)

LEMMA RenameStep == ASSUME IInv, NEW p \in Openers, RenameLegacy(p) PROVE IInv'
<1>1. CASE legacy = NoFile
  <2>1. opening[p] = "rename" /\ Proceed(p, "failed") /\ Seen /\ at' = at
    BY <1>1 DEF RenameLegacy, Seen, databaseVars
  <2>2. opening'[p] = "failed" /\ UNCHANGED <<current, legacy, written>>
    BY <2>1 DEF Proceed, IInv, Typed, Seen, databaseVars
  <2>3. Where(p)' /\ ~Leads(p)
    BY <1>1, <2>1, <2>2 DEF IInv, Where, Leads
  <2> QED
    BY <2>1, <2>3, SeenStep DEF IInv, Typed, OpenSteps
<1>2. CASE legacy # NoFile
  <2>1. /\ current' = legacy /\ legacy' = NoFile /\ UNCHANGED <<at, written, origin>>
        /\ opening' = [opening EXCEPT ![p] = "file"]
    BY <1>2 DEF RenameLegacy, Proceed
  <2>2. opening'[p] = "file" /\ \A q \in Openers : q # p => opening'[q] = opening[q]
    BY <2>1 DEF IInv, Typed
  <2>3. Level(current') /\ current' = origin
    BY <1>2, <2>1 DEF IInv, Sound
  <2>4. Typed' /\ Sound'
    BY <2>1, <2>3, Apart DEF IInv, Typed, Sound, OpenSteps
  <2>5. \A q \in Openers : Where(q)'
    BY <1>2, <2>1, <2>2, <2>3, NotEmpty DEF IInv, Where
  <2>6. Kept'
    <3>1. written = {}
      BY <1>2 DEF IInv, Typed, Where
    <3>2. Int8Rows(origin.vectors) \subseteq origin.vectors /\ \A f \in origin.failures : Survives(f, origin)
      BY Int8Stay DEF Survives
    <3>3. ~origin.runs => \A f \in origin.failures : f.class = "none"
      BY <1>2 DEF IInv, Sound
    <3> QED
      BY <2>1, <2>3, <3>1, <3>2, <3>3, NotEmpty DEF Kept
  <2>7. Leads(p)'
    BY <2>2 DEF Leads
  <2> QED
    BY <2>4, <2>5, <2>6, <2>7, ChangeStep
<1> QED
  BY <1>1, <1>2

LEMMA OpenFileStep == ASSUME IInv, NEW p \in Openers, OpenFile(p) PROVE IInv'
<1>1. CASE current # NoFile
  <2>1. opening[p] = "file" /\ Proceed(p, "version") /\ Seen /\ at' = at
    BY <1>1 DEF OpenFile, Seen, databaseVars
  <2>2. opening'[p] = "version" /\ UNCHANGED <<current, legacy, written>>
    BY <2>1 DEF Proceed, IInv, Typed, Seen, databaseVars
  <2>3. Where(p)' /\ Leads(p)'
    BY <1>1, <2>1, <2>2 DEF IInv, Where, Leads
  <2> QED
    BY <2>1, <2>3, SeenStep DEF IInv, Typed, OpenSteps
<1>2. CASE current = NoFile
  <2>1. /\ opening[p] = "file"
        /\ current' = EmptyFile /\ UNCHANGED <<legacy, at, written, origin>>
        /\ opening' = [opening EXCEPT ![p] = "version"]
    BY <1>2 DEF OpenFile, Proceed
  <2>2. opening'[p] = "version" /\ \A q \in Openers : q # p => opening'[q] = opening[q]
    BY <2>1 DEF IInv, Typed
  <2>3. legacy = NoFile
    BY <2>1 DEF IInv, Where
  <2>4. Typed' /\ Sound'
    BY <2>1, <2>3, Apart DEF IInv, Typed, Sound, OpenSteps
  <2>5. \A q \in Openers : Where(q)'
    BY <1>2, <2>1, <2>2, <2>3, Apart DEF IInv, Where
  <2>6. Kept'
    <3>1. written = {}
      BY <1>2, Apart DEF IInv, Typed, Where
    <3>2. origin \in {NoFile, EmptyFile}
      BY <1>2, <2>3 DEF IInv, Kept
    <3> QED
      BY <2>1, <3>1, <3>2 DEF Kept
  <2>7. Leads(p)'
    BY <2>2 DEF Leads
  <2> QED
    BY <2>4, <2>5, <2>6, <2>7, ChangeStep
<1> QED
  BY <1>1, <1>2

LEMMA CreateSchemaStep == ASSUME IInv, NEW p \in Openers, CreateSchema(p) PROVE IInv'
<1>1. opening[p] = "create" /\ current # NoFile /\ ~Foreign(current)
  BY DEF CreateSchema, IInv, Where
<1>2. CASE ~Creates(current)
  <2>1. opening[p] = "create" /\ Proceed(p, "failed") /\ Seen /\ at' = at
    BY <1>2 DEF CreateSchema, Seen, databaseVars
  <2>2. opening'[p] = "failed" /\ UNCHANGED <<current, legacy, written>>
    BY <2>1 DEF Proceed, IInv, Typed, Seen, databaseVars
  <2>3. Where(p)' /\ ~Leads(p)
    BY <1>1, <1>2, <2>1, <2>2, EmptyFileIs DEF IInv, Where, Leads, Creates
  <2> QED
    BY <2>1, <2>3, SeenStep DEF IInv, Typed, OpenSteps
<1>3. CASE Creates(current)
  <2>1. current = EmptyFile
    BY <1>1, <1>3 DEF IInv, Sound, Creates, Level
  <2>2. /\ current' = Fresh /\ at' = [at EXCEPT ![p] = 5] /\ UNCHANGED <<legacy, written, origin>>
        /\ opening' = [opening EXCEPT ![p] = "check"]
    BY <1>3 DEF CreateSchema, Proceed, Current
  <2>3. /\ opening'[p] = "check" /\ at'[p] = 5
        /\ \A q \in Openers : q # p => opening'[q] = opening[q] /\ at'[q] = at[q]
    BY <2>2 DEF IInv, Typed
  <2>4. Level(current') /\ current'.version = 5
    BY <2>2, FreshIs
  <2>5. Typed' /\ Sound'
    BY <2>2, <2>4, Apart DEF IInv, Typed, Sound, OpenSteps
  <2>6. ASSUME NEW q \in Openers
        PROVE  Where(q)'
    <3>1. /\ opening[q] \notin {"check", "migrate", "meta", "row", "insert", "opened"}
          /\ q \notin written
      BY <2>1, Apart DEF IInv, Where
    <3>2. legacy = NoFile
      BY <1>1 DEF IInv, Where
    <3> QED
      BY <2>2, <2>3, <2>4, <3>1, <3>2, Apart, NotEmpty DEF IInv, Where, Reached
  <2>7. Kept'
    <3>1. written = {}
      BY <2>1, Apart DEF IInv, Typed, Where
    <3>2. legacy = NoFile
      BY <1>1 DEF IInv, Where
    <3>3. origin \in {NoFile, EmptyFile}
      BY <2>1, <3>2 DEF IInv, Kept
    <3> QED
      BY <2>2, <3>1, <3>3 DEF Kept
  <2>8. Leads(p)'
    BY <2>3, <2>4 DEF Leads
  <2> QED
    BY <2>5, <2>6, <2>7, <2>8, ChangeStep
<1> QED
  BY <1>2, <1>3

(* A migration, on whatever schema there is by then.                       *)
LEMMA MigrateStep == ASSUME IInv, NEW p \in Openers, Migrate(p) PROVE IInv'
<1> DEFINE v == at[p]
<1>1. opening[p] = "migrate" /\ Level(current) /\ Reached(v) /\ v \in 1..4
  BY DEF Migrate, IInv, Where, Reached
<1>2. legacy = NoFile /\ current \notin {NoFile, EmptyFile}
  BY <1>1, NotEmpty DEF IInv, Where
<1>3. CASE ~Migrates(v, current)
  <2>1. Proceed(p, "failed") /\ Seen /\ at' = at
    BY <1>3 DEF Migrate, Seen, databaseVars
  <2>2. opening'[p] = "failed" /\ UNCHANGED <<current, legacy, written>>
    BY <2>1 DEF Proceed, IInv, Typed, Seen, databaseVars
  <2>3. Where(p)'
    BY <1>1, <2>2 DEF IInv, Where
  <2>4. ~Leads(p)
    BY <1>1, <1>3, LevelPasses DEF Leads
  <2> QED
    BY <2>1, <2>3, <2>4, SeenStep DEF IInv, Typed, OpenSteps
<1>4. CASE Migrates(v, current)
  <2> DEFINE new == Migrated(v, current)
  <2>1. /\ current' = new /\ at' = [at EXCEPT ![p] = v + 1] /\ UNCHANGED <<legacy, written, origin>>
        /\ opening' = [opening EXCEPT ![p] = "check"]
    BY <1>4 DEF Migrate, Proceed
  <2>2. /\ opening'[p] = "check" /\ at'[p] = v + 1
        /\ \A q \in Openers : q # p => opening'[q] = opening[q] /\ at'[q] = at[q]
    BY <2>1 DEF IInv, Typed
  <2>3. IF v = 4 THEN current.version >= 4 ELSE v <= current.version
    BY <1>1 DEF Reached
  <2>4. /\ Level(new) /\ new.version = v + 1 /\ (v < 3 => current.version = v)
        /\ new.meta = current.meta
        /\ IF v = 4 THEN new.vectors = Int8Rows(current.vectors) ELSE new.vectors = current.vectors
        /\ IF v = 2 THEN new.failures = Classified(current.failures) ELSE new.failures = current.failures
    BY <1>1, <1>4, <2>3, MigratedIs
  <2> HIDE DEF new
  <2>5. Typed'
    BY <1>1, <2>1 DEF IInv, Typed, OpenSteps
  <2>6. Sound'
    BY <1>2, <2>1, <2>4, Apart DEF IInv, Sound
  <2>7. ASSUME NEW q \in Openers
        PROVE  Where(q)'
    <3>1. \A w : Reached(w) => Reached(w)'
      BY <1>1, <2>1, <2>4 DEF Reached, Level
    <3>2. current.version >= 4 => current'.version >= 4
      BY <1>1, <2>1, <2>4 DEF Level
    <3>3. \A w \in 1..5 : w = current'.version => Reached(w)'
      BY DEF Reached
    <3>4. current' # NoFile /\ ~Foreign(current') /\ Level(current')
      BY <2>1, <2>4, NotEmpty, Apart
    <3>5. CASE q = p
      <4>1. p \in written => current.version >= 4
        BY DEF IInv, Where
      <4> QED
        BY <1>1, <1>2, <2>1, <2>2, <2>4, <3>2, <3>3, <3>4, <3>5, <4>1 DEF Where
    <3>6. CASE q # p
      <4>1. Where(q)
        BY DEF IInv
      <4> QED
        BY <1>2, <2>1, <2>2, <3>1, <3>2, <3>4, <3>6, <4>1 DEF Where
    <3> QED
      BY <3>5, <3>6
  <2>8. Kept'
    <3>1. Int8Rows(current.vectors) \subseteq new.vectors
      BY <2>4, Int8Stay
    <3>2. ASSUME NEW w \in written
          PROVE  Vector(w, "int8") \in new.vectors /\ Failure(w, "retryable") \in new.failures
      <4>1. current.version >= 4 /\ Vector(w, "int8") \in current.vectors
            /\ Failure(w, "retryable") \in current.failures
        BY DEF IInv, Where, Kept, Typed
      <4>2. v # 2 /\ Vector(w, "int8").codec = "int8"
        BY <1>1, <2>4, <4>1 DEF Vector
      <4> QED
        BY <2>4, <3>1, <4>1, <4>2, Int8Stay
    <3>3. ASSUME origin \notin {NoFile, EmptyFile}
          PROVE  /\ origin.meta => new.meta
                 /\ Int8Rows(origin.vectors) \subseteq new.vectors
                 /\ \A f \in origin.failures : Survives(f, new)
                 /\ ~new.runs => \A f \in origin.failures : f.class = "none"
      <4>1. /\ origin.meta => current.meta
            /\ Int8Rows(origin.vectors) \subseteq current.vectors
            /\ \A f \in origin.failures : Survives(f, current)
            /\ ~current.runs => \A f \in origin.failures : f.class = "none"
        BY <1>2, <3>3 DEF IInv, Kept
      <4>2. Int8Rows(origin.vectors) \subseteq new.vectors
        <5>1. \A x \in Int8Rows(origin.vectors) : x \in Int8Rows(current.vectors)
          BY <4>1 DEF Int8Rows
        <5> QED
          BY <3>1, <5>1
      <4>3. ~new.runs => ~current.runs
        BY <1>1, <2>4 DEF Level
      <4>4. ASSUME NEW f \in origin.failures
            PROVE  Survives(f, new)
        <5>1. CASE v # 2
          BY <2>4, <4>1, <5>1 DEF Survives
        <5>2. CASE v = 2
          <6>1. f.class = "none"
            BY <1>1, <2>4, <4>1, <5>2 DEF Level
          <6>2. PICK g \in current.failures : g.of = f.of
            BY <4>1 DEF Survives
          <6>3. \E h \in Classified(current.failures) : h.of = g.of /\ h.class = "terminal"
            BY <1>1, ClassifiedRows DEF Level, Databases
          <6> QED
            BY <2>4, <5>2, <6>1, <6>2, <6>3 DEF Survives
        <5> QED
          BY <5>1, <5>2
      <4> QED
        BY <2>4, <4>1, <4>2, <4>3, <4>4
    <3>4. new \notin {NoFile, EmptyFile}
      BY <2>4, NotEmpty
    <3> QED
      BY <2>1, <3>2, <3>3, <3>4 DEF Kept
  <2>9. Leads(p)'
    BY <2>1, <2>2, <2>4 DEF Leads
  <2> QED
    BY <2>5, <2>6, <2>7, <2>8, <2>9, ChangeStep
<1> QED
  BY <1>3, <1>4

LEMMA InsertMetaStep == ASSUME IInv, NEW p \in Openers, InsertMeta(p) PROVE IInv'
<1>1. /\ opening[p] = "insert" /\ Level(current) /\ current.version >= 4
      /\ legacy = NoFile /\ current \notin {NoFile, EmptyFile}
  BY NotEmpty DEF InsertMeta, IInv, Where
<1>2. CASE current.meta \/ current.made # 5
  <2>1. Proceed(p, "failed") /\ Seen /\ at' = at
    BY <1>2 DEF InsertMeta, Seen, databaseVars, Current
  <2>2. opening'[p] = "failed" /\ UNCHANGED <<current, legacy, written>>
    BY <2>1 DEF Proceed, IInv, Typed, Seen, databaseVars
  <2>3. Where(p)' /\ ~Leads(p)
    BY <1>1, <1>2, <2>2 DEF IInv, Where, Leads, Level
  <2> QED
    BY <2>1, <2>3, SeenStep DEF IInv, Typed, OpenSteps
<1>3. CASE ~(current.meta \/ current.made # 5)
  <2> DEFINE new == [current EXCEPT !.meta = TRUE]
  <2>1. /\ current' = new /\ UNCHANGED <<legacy, at, written, origin>>
        /\ opening' = [opening EXCEPT ![p] = "opened"]
    BY <1>3 DEF InsertMeta, Proceed, Current
  <2>2. opening'[p] = "opened" /\ \A q \in Openers : q # p => opening'[q] = opening[q]
    BY <2>1 DEF IInv, Typed
  <2>3. /\ new \in Databases /\ new.meta = TRUE
        /\ new.version = current.version /\ new.made = current.made /\ new.tables = current.tables
        /\ new.root = current.root /\ new.lineage = current.lineage /\ new.int8 = current.int8
        /\ new.classified = current.classified /\ new.runs = current.runs
        /\ new.vectors = current.vectors /\ new.failures = current.failures
    BY <1>1 DEF Level, Databases
  <2> HIDE DEF new
  <2>4. Level(new)
    BY <1>1, <2>3 DEF Level
  <2>5. Typed' /\ Sound'
    BY <1>1, <2>1, <2>4, Apart DEF IInv, Typed, Sound, OpenSteps
  <2>6. ASSUME NEW q \in Openers
        PROVE  Where(q)'
    <3>1. \A w : Reached(w) => Reached(w)'
      BY <2>1, <2>3 DEF Reached
    <3> QED
      BY <1>1, <2>1, <2>2, <2>3, <2>4, <3>1, NotEmpty, Apart DEF IInv, Where
  <2>7. Kept'
    BY <1>1, <2>1, <2>3, <2>4, NotEmpty DEF IInv, Kept, Survives
  <2>8. Leads(p)'
    BY <2>2 DEF Leads
  <2> QED
    BY <2>5, <2>6, <2>7, <2>8, ChangeStep
<1> QED
  BY <1>2, <1>3

LEMMA WriteRowsStep == ASSUME IInv, NEW p \in Openers, WriteRows(p) PROVE IInv'
<1>1. /\ opening[p] = "opened" /\ Level(current) /\ current.version >= 4
      /\ legacy = NoFile /\ current \notin {NoFile, EmptyFile}
  BY NotEmpty DEF WriteRows, IInv, Where
<1> DEFINE V == Vector(p, "int8")
           F == Failure(p, "retryable")
           new == [current EXCEPT !.vectors = @ \cup {V}, !.failures = @ \cup {F}]
<1>2. /\ current' = new /\ written' = written \cup {p} /\ UNCHANGED <<legacy, at, opening, origin>>
  BY DEF WriteRows
<1>3. /\ V \in [of : Openers \cup {"old"}, codec : {"int8", "retired"}]
      /\ F \in [of : Openers \cup {"x", "y"}, class : {"none", "terminal", "retryable"}]
  BY DEF Vector, Failure
<1> HIDE DEF V, F
<1>4. /\ new \in Databases /\ new.meta = current.meta
      /\ new.version = current.version /\ new.made = current.made /\ new.tables = current.tables
      /\ new.root = current.root /\ new.lineage = current.lineage /\ new.int8 = current.int8
      /\ new.classified = current.classified /\ new.runs = current.runs
      /\ new.vectors = (current.vectors \cup {V}) /\ new.failures = (current.failures \cup {F})
  BY <1>1, <1>3 DEF Level, Databases
<1> HIDE DEF new
<1>5. Level(new)
  BY <1>1, <1>4 DEF Level
<1>6. Typed' /\ Sound'
  BY <1>1, <1>2, <1>5, Apart DEF IInv, Typed, Sound
<1>7. ASSUME NEW q \in Openers
      PROVE  Where(q)'
  <2>1. \A w : Reached(w) => Reached(w)'
    BY <1>2, <1>4 DEF Reached
  <2> QED
    BY <1>1, <1>2, <1>4, <1>5, <2>1, NotEmpty, Apart DEF IInv, Where
<1>8. Kept'
  <2>1. \A f : Survives(f, current) => Survives(f, new)
    BY <1>4 DEF Survives
  <2>2. \A w \in written \cup {p} : Vector(w, "int8") \in new.vectors /\ Failure(w, "retryable") \in new.failures
    BY <1>4 DEF IInv, Kept, V, F
  <2> QED
    BY <1>1, <1>2, <1>4, <1>5, <2>1, <2>2, NotEmpty DEF IInv, Kept
<1>9. Leads(p)'
  BY <1>1, <1>2 DEF Leads
<1> QED
  BY <1>6, <1>7, <1>8, <1>9, ChangeStep

LEMMA Inductive == IInv /\ [OpenNext]_openVars => IInv'
<1> SUFFICES ASSUME IInv, [OpenNext]_openVars
             PROVE  IInv'
  OBVIOUS
<1>1. CASE OpenNext
  BY <1>1, LookLegacyStep, LookTargetStep, RenameStep, OpenFileStep, ReadVersionStep,
     CountTablesStep, CreateSchemaStep, CheckSchemaStep, MigrateStep, RequireVersionStep,
     SelectMetaStep, InsertMetaStep, WriteRowsStep, HinderStep DEF OpenNext
<1>2. CASE UNCHANGED openVars
  <2>1. UNCHANGED <<current, legacy, leftovers, opening, at, written, origin, hindered>>
    BY <1>2 DEF openVars, databaseVars
  <2> QED
    BY <2>1 DEF IInv, Typed, Sound, Where, Kept, Leads, Undisturbed, Reached
<1> QED
  BY <1>1, <1>2

(* Every transaction leaves a database of some level, and every process    *)
(* what the others may rely on.                                            *)
THEOREM Invariance == OpenSpec => []IInv
  BY Initially, Inductive, PTL DEF OpenSpec

-----------------------------------------------------------------------------
(* One migration of an opener that meets nobody.                           *)
LEMMA UpgradeIs ==
  ASSUME NEW d, Level(d)
  PROVE  /\ Level(Upgrade(d))
         /\ Upgrade(d).version = IF d.version = 5 THEN 5 ELSE d.version + 1
<1>1. CASE d.version = 5
  BY <1>1 DEF Upgrade
<1>2. CASE d.version # 5
  <2>1. d.version \in 1..4
    BY <1>2 DEF Level
  <2>2. Upgrade(d) = Migrated(d.version, d)
    BY <2>1, LevelPasses DEF Upgrade
  <2> QED
    BY <1>2, <2>1, <2>2, LevelPasses, MigratedIs
<1> QED
  BY <1>1, <1>2

LEMMA UpgradedIs ==
  ASSUME NEW d, Level(d)
  PROVE  Level(Upgraded(d)) /\ Upgraded(d).version = 5
<1> DEFINE a == Upgrade(d)
           b == Upgrade(a)
           c == Upgrade(b)
           e == Upgrade(c)
<1>1. Level(a) /\ a.version = (IF d.version = 5 THEN 5 ELSE d.version + 1)
  BY UpgradeIs
<1> HIDE DEF a
<1>2. Level(b) /\ b.version = (IF a.version = 5 THEN 5 ELSE a.version + 1)
  BY <1>1, UpgradeIs
<1> HIDE DEF b
<1>3. Level(c) /\ c.version = (IF b.version = 5 THEN 5 ELSE b.version + 1)
  BY <1>2, UpgradeIs
<1> HIDE DEF c
<1>4. Level(e) /\ e.version = (IF c.version = 5 THEN 5 ELSE c.version + 1)
  BY <1>3, UpgradeIs
<1> HIDE DEF e
<1>5. e.version = 5
  BY <1>1, <1>2, <1>3, <1>4 DEF Level
<1> QED
  BY <1>4, <1>5 DEF Upgraded, a, b, c, e

(* Wherever processes stopped, the next one brings a supported database to *)
(* the current version.                                                    *)
THEOREM NextOneOpens == OpenSpec => []AlwaysOpens
<1>1. ASSUME IInv, Supported(origin), current \notin {NoFile, EmptyFile}
      PROVE  Upgraded(current).version = 5 /\ Requires(5, Upgraded(current))
  <2>1. Level(current)
    BY <1>1 DEF IInv, Sound
  <2> QED
    BY <2>1, UpgradedIs, LevelPasses
<1>2. IInv => AlwaysOpens
  BY <1>1 DEF AlwaysOpens, Current
<1> QED
  BY <1>2, Invariance, PTL

(* No migration or creation, early or late, loses a row.                   *)
THEOREM NoRowLost == OpenSpec => []RowsSurvive
<1>1. IInv => RowsSurvive
  BY DEF IInv, Kept, Survives, RowsSurvive
<1> QED
  BY <1>1, Invariance, PTL

(* Undisturbed processes do not all turn one another away.                 *)
THEOREM OneOpens == OpenSpec => []SomeoneOpens
<1>1. IInv => SomeoneOpens
  BY DEF IInv, Undisturbed, Leads, SomeoneOpens, Done
<1> QED
  BY <1>1, Invariance, PTL

-----------------------------------------------------------------------------
(* Startup: a behaviour of one is one of the other at rest.                *)

(* At rest either is as it begins.                                         *)
LEMMA BothBegin == StartupInit => Init /\ OpenInit
  BY DEF StartupInit, InitRests, OpenRests, Init, OpenInit

(* A step of one leaves the other as it is.                                *)
LEMMA EitherSteps == [StartupNext]_startupVars => [Next]_vars /\ [OpenNext]_openVars
  BY DEF StartupNext, startupVars

(* Startup is what Initialize and DatabaseOpen are, each of them alone.    *)
THEOREM StartupIsBoth == StartupSpec => Spec /\ OpenSpec
  BY BothBegin, EitherSteps, PTL DEF StartupSpec, Spec, OpenSpec

(* So all that is checked of them holds of Startup: configuration and      *)
(* database are committed together, claims are kept, failures clean up, a  *)
(* race has one winner; a database can be opened next time, by someone     *)
(* unless hindered, and keeps its rows.                                    *)
THEOREM StartupIsSound ==
  StartupSpec => [](/\ ConfigMeansDatabase /\ ClaimIsKept /\ FailureLeavesUnremovable /\ OneWins
                    /\ AlwaysOpens /\ SomeoneOpens /\ RowsSurvive)
  BY StartupIsBoth, ConfigurationCommits, ClaimsAreKept, FailuresCleanUp, RaceHasOneWinner,
     NextOneOpens, OneOpens, NoRowLost, PTL
=============================================================================
