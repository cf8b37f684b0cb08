------------------------- MODULE IndexServiceProofs -------------------------
(***************************************************************************)
(* Proofs about IndexService, for every set of paths, contents, segmenters,*)
(* configurations and indexers.                                            *)
(***************************************************************************)
EXTENDS IndexService, TLAPS

-----------------------------------------------------------------------------
(***************************************************************************)
(* The inductive invariant.  What a run has decided stays true of the      *)
(* database until it publishes, because it holds index.lock meanwhile and  *)
(* every publisher does.                                                   *)
(***************************************************************************)
StoreTypes ==
  /\ meta.generation \in Nat
  /\ meta.profiles \in Configs
  /\ files \in FileTables

RunTypes ==
  /\ disk \in FileTables
  /\ lock \in Indexers \cup {Unlocked}
  /\ pc \in [Indexers -> Steps]
  /\ request \in [Indexers -> [config : ConfigOrNone, dry : BOOLEAN]]
  /\ plan \in [Indexers -> [profiles : ConfigOrNone, candidates : SUBSET Paths,
                            deleted : SUBSET Paths]]
  /\ base \in [Indexers -> [generation : Nat, files : FileTables, profiles : ConfigOrNone]]
  /\ bodies \in [Indexers -> FileTables]
  /\ prepared = [x \in Indexers |-> prepared[x]]

TypeInv == StoreTypes /\ RunTypes

(* The plan is about the database as it is.                                *)
Planned(x) ==
  /\ plan[x].profiles = meta.profiles
  /\ plan[x].candidates \subseteq Enabled[request[x].config.index]
  /\ plan[x].deleted = { p \in Paths : files[p] # Absent } \ plan[x].candidates

(* The base of the publication is the database as it is.                   *)
Based(x) ==
  /\ base[x].generation = meta.generation
  /\ base[x].files = files
  /\ base[x].profiles = meta.profiles

(* The publication still fits the rows and the vectors it was made from.   *)
Prepared(x) ==
  /\ \A p \in plan[x].candidates : bodies[x][p] # Absent
  /\ prepared[x].updates = SegmentUpdates(x)
  /\ \A k \in prepared[x].rekeys :
       /\ k \in vectors
       /\ LegacyServingProfileEquivalent(request[x].config, meta.profiles, meta.serving)
       /\ k.source = meta.profiles.source
       /\ k.input \in FutureInputs(x)

RunInv(x) ==
  /\ pc[x] \notin {"idle", "locking"} => lock = x
  /\ pc[x] # "idle" => request[x].config \in Desired
  /\ pc[x] \in {"snapshot", "reading", "publishing"} => Planned(x)
  /\ pc[x] \in {"reading", "publishing"} => Based(x)
  /\ pc[x] = "publishing" => Prepared(x)

VectorShape ==
  \A v \in vectors : v = [serving |-> v.serving, input |-> v.input,
                          source |-> v.source, paid |-> v.paid]

IInv ==
  /\ TypeInv
  /\ IncrementalEqualsRebuild
  /\ ManifestNamesFiles
  /\ VectorShape
  /\ VectorLineage
  /\ \A x \in Indexers : RunInv(x)

-----------------------------------------------------------------------------
(***************************************************************************)
(* Giving the rows of one file the keys of another configuration with the  *)
(* same index profile yields exactly the rows that configuration cuts.     *)
(***************************************************************************)
Rekey(row, cfg) ==
  [path |-> row.path, number |-> row.number, body |-> row.body,
   input |-> CanonicalInput(row.path, row.body, cfg.canonical),
   canonical |-> cfg.canonical, serving |-> cfg.storage]

LEMMA FileRowsRekeyed ==
  ASSUME NEW p, NEW content, NEW old, NEW new, old.index = new.index
  PROVE  FileRows(p, content, new) = { Rekey(r, new) : r \in FileRows(p, content, old) }
<1> DEFINE B == Chunks[<<content, old.index>>]
           Row(i, c) == [path |-> p, number |-> i, body |-> B[i],
                         input |-> CanonicalInput(p, B[i], c.canonical),
                         canonical |-> c.canonical, serving |-> c.storage]
<1>1. FileRows(p, content, old) = { Row(i, old) : i \in 1..Len(B) }
  BY DEF FileRows
<1>2. FileRows(p, content, new) = { Row(i, new) : i \in 1..Len(B) }
  BY DEF FileRows
<1>3. ASSUME NEW i PROVE Rekey(Row(i, old), new) = Row(i, new)
  BY DEF Rekey
<1> HIDE DEF B, Row
<1> QED
  BY <1>1, <1>2, <1>3

(* A row is known by its path and number.                                  *)
LEMMA RowsOfRebuilt ==
  ASSUME NEW table, NEW cfg
  PROVE  /\ \A r \in Rebuilt(table, cfg) :
              /\ r.path \in Paths /\ table[r.path] # Absent
              /\ r \in FileRows(r.path, table[r.path], cfg)
              /\ r.input = CanonicalInput(r.path, r.body, cfg.canonical)
              /\ r.canonical = cfg.canonical /\ r.serving = cfg.storage
         /\ \A r, s \in Rebuilt(table, cfg) :
              r.path = s.path /\ r.number = s.number => r = s
<1>1. ASSUME NEW r \in Rebuilt(table, cfg)
      PROVE  /\ r.path \in Paths /\ table[r.path] # Absent
             /\ r \in FileRows(r.path, table[r.path], cfg)
             /\ r.input = CanonicalInput(r.path, r.body, cfg.canonical)
             /\ r.canonical = cfg.canonical /\ r.serving = cfg.storage
  <2>1. PICK p \in Paths : table[p] # Absent /\ r \in FileRows(p, table[p], cfg)
    BY <1>1 DEF Rebuilt
  <2> QED
    BY <2>1 DEF FileRows
<1>2. ASSUME NEW r \in Rebuilt(table, cfg), NEW s \in Rebuilt(table, cfg),
             r.path = s.path, r.number = s.number
      PROVE  r = s
  <2>1. /\ r \in FileRows(r.path, table[r.path], cfg)
        /\ s \in FileRows(r.path, table[r.path], cfg)
    BY <1>1, <1>2
  <2> QED
    BY <2>1, <1>2 DEF FileRows
<1> QED
  BY <1>1, <1>2

-----------------------------------------------------------------------------
(***************************************************************************)
(* The publication a run has prepared, in the terms of the run.            *)
(***************************************************************************)
LEMMA PublicationFields ==
  ASSUME NEW x
  PROVE  /\ Publication(x).base = base[x].generation
         /\ Publication(x).desired = request[x].config
         /\ Publication(x).manifest = ManifestFor(x)
         /\ Publication(x).deleted = plan[x].deleted
         /\ Publication(x).changed = ChangedFiles(x)
         /\ Publication(x).updates = prepared[x].updates
         /\ Publication(x).rekeys = prepared[x].rekeys
         /\ DOMAIN Publication(x).changed = Updated(x)
         /\ \A p \in Updated(x) : Publication(x).changed[p] = bodies[x][p]
BY DEF Publication, ChangedFiles

(* Which contents the files table has after the publication.               *)
Kept(x) == { p \in Paths : files[p] # Absent /\ p \notin Updated(x) \cup plan[x].deleted }

LEMMA PublishedTable ==
  ASSUME NEW x \in Indexers, IInv, pc[x] = "publishing"
  PROVE  LET table == PublishedFiles(Publication(x))
         IN /\ table \in Indexable(request[x].config)
            /\ { p \in Paths : table[p] # Absent } = plan[x].candidates
            /\ plan[x].candidates = Updated(x) \cup Kept(x)
            /\ Updated(x) \cap Kept(x) = {}
            /\ \A p \in Updated(x) : table[p] = bodies[x][p]
            /\ \A p \in Kept(x) : table[p] = files[p] /\ bodies[x][p] = files[p] /\ ~Full(x)
<1> DEFINE table == PublishedFiles(Publication(x))
<1>1. RunInv(x) /\ TypeInv
  BY DEF IInv
<1>2. Planned(x) /\ Based(x) /\ Prepared(x) /\ request[x].config \in Configs
  BY <1>1 DEF RunInv, Desired
<1>3. /\ Updated(x) \subseteq plan[x].candidates
      /\ plan[x].candidates \subseteq Paths
      /\ plan[x].candidates \subseteq Enabled[request[x].config.index]
      /\ bodies[x] \in FileTables
  BY <1>1, <1>2, EnabledAssumption DEF Updated, Planned, TypeInv, StoreTypes, RunTypes
<1>4. \A p \in Paths : table[p] = IF p \in Updated(x) THEN bodies[x][p]
                                  ELSE IF p \in plan[x].deleted THEN Absent ELSE files[p]
  BY PublicationFields DEF PublishedFiles
<1>5. /\ \A p \in plan[x].candidates : bodies[x][p] # Absent
      /\ plan[x].deleted = { p \in Paths : files[p] # Absent } \ plan[x].candidates
  BY <1>2 DEF Prepared, Planned
<1>6. \A p \in plan[x].candidates \ Updated(x) : bodies[x][p] = files[p] /\ ~Full(x)
  BY <1>2 DEF Updated, Based
<1>7. plan[x].candidates = Updated(x) \cup Kept(x)
  BY <1>3, <1>5, <1>6 DEF Kept
<1>8. { p \in Paths : table[p] # Absent } = plan[x].candidates
  BY <1>3, <1>4, <1>5, <1>6
<1>9. table \in FileTables
  <2>1. files \in FileTables
    BY <1>1 DEF TypeInv, StoreTypes, RunTypes
  <2>2. \A p \in Paths : table[p] \in Contents \cup {Absent}
    BY <1>3, <1>4, <2>1 DEF FileTables
  <2> QED
    BY <2>2 DEF FileTables, PublishedFiles
<1>10. table \in Indexable(request[x].config)
  BY <1>3, <1>8, <1>9 DEF Indexable
<1>11. \A p \in Kept(x) : table[p] = files[p]
  BY <1>4 DEF Kept
<1> QED
  BY <1>3, <1>4, <1>6, <1>7, <1>8, <1>10, <1>11 DEF Kept

-----------------------------------------------------------------------------
(* A row the publication keeps ends up with the keys of the new profiles.  *)
LEMMA KeptRowRekeyed ==
  ASSUME NEW x \in Indexers, IInv, pc[x] = "publishing", ~Full(x),
         NEW r \in KeptRows(Publication(x))
  PROVE  /\ UpdateRow(r, Publication(x)) = Rekey(r, request[x].config)
         /\ NextInput(x, r) = Rekey(r, request[x].config).input
<1> DEFINE P == Publication(x)
           d == request[x].config
           hits == { u \in P.updates : u.path = r.path /\ u.number = r.number }
<1>1. /\ TypeInv /\ Planned(x) /\ Based(x) /\ Prepared(x)
      /\ segments = Rebuilt(files, meta.profiles)
  BY DEF IInv, RunInv, IncrementalEqualsRebuild
<1>2. r \in UntouchedRows(x) /\ r \in segments
  BY PublicationFields DEF KeptRows, UntouchedRows
<1>3. /\ r.input = CanonicalInput(r.path, r.body, meta.profiles.canonical)
      /\ r.canonical = meta.profiles.canonical /\ r.serving = meta.profiles.storage
      /\ r \in FileRows(r.path, files[r.path], meta.profiles)
  BY <1>1, <1>2, RowsOfRebuilt
<1>4. meta.profiles.index = d.index
  BY <1>1 DEF Full, FullRebuildRequired, Planned
<1>5. NextInput(x, r) = CanonicalInput(r.path, r.body, d.canonical)
  BY <1>1, <1>3, <1>4 DEF NextInput, Canonical, CanonicalReconcile, Planned
<1>6. CASE Reconcile(x)
  <2>1. P.updates = { [path |-> s.path, number |-> s.number, input |-> NextInput(x, s)] :
                        s \in UntouchedRows(x) }
    BY <1>1, <1>6, PublicationFields DEF Prepared, SegmentUpdates
  <2>2. [path |-> r.path, number |-> r.number, input |-> NextInput(x, r)] \in hits
    BY <1>2, <2>1
  <2>3. \A u \in hits : u.input = NextInput(x, r)
    <3> SUFFICES ASSUME NEW u \in hits PROVE u.input = NextInput(x, r)
      OBVIOUS
    <3>1. PICK s \in UntouchedRows(x) :
            u = [path |-> s.path, number |-> s.number, input |-> NextInput(x, s)]
      BY <2>1
    <3>2. s \in segments
      BY <3>1 DEF UntouchedRows
    <3>3. s = r
      BY <3>1, <3>2, <1>1, <1>2, RowsOfRebuilt
    <3> QED
      BY <3>1, <3>3
  <2>4. hits # {} /\ (CHOOSE u \in hits : TRUE) \in hits
    BY <2>2
  <2>5. (CHOOSE u \in hits : TRUE).input = NextInput(x, r)
    BY <2>3, <2>4
  <2>6. P.desired = d
    BY PublicationFields
  <2> QED
    BY <1>5, <2>4, <2>5, <2>6 DEF UpdateRow, Rekey
<1>7. CASE ~Reconcile(x)
  <2>1. P.updates = {}
    BY <1>1, <1>7, PublicationFields DEF Prepared, SegmentUpdates
  <2>2. UpdateRow(r, P) = r
    BY <2>1 DEF UpdateRow
  <2>3. d = meta.profiles
    BY <1>1, <1>7 DEF Reconcile, ReconcileRequired, Planned
  <2>4. r = Rekey(r, d)
    BY <1>3, <2>3 DEF Rekey, FileRows
  <2> QED
    BY <1>5, <2>2, <2>4 DEF Rekey
<1> QED
  BY <1>6, <1>7

(***************************************************************************)
(* The heart of the matter: deleting, re-parsing and re-keying row by row  *)
(* gives the rows a rebuild of the new contents would give.                *)
(***************************************************************************)
LEMMA PublishedIsRebuilt ==
  ASSUME NEW x \in Indexers, IInv, pc[x] = "publishing"
  PROVE  PublishedRows(Publication(x)) =
           Rebuilt(PublishedFiles(Publication(x)), request[x].config)
<1> DEFINE P == Publication(x)
           d == request[x].config
           table == PublishedFiles(P)
<1>1. /\ { p \in Paths : table[p] # Absent } = Updated(x) \cup Kept(x)
      /\ \A p \in Updated(x) : table[p] = bodies[x][p]
      /\ \A p \in Kept(x) : table[p] = files[p] /\ ~Full(x)
  BY PublishedTable
<1>2. segments = Rebuilt(files, meta.profiles)
  BY DEF IInv, IncrementalEqualsRebuild
<1>3. InsertedRows(P) = UNION { FileRows(p, table[p], d) : p \in Updated(x) }
  BY <1>1, PublicationFields DEF InsertedRows
<1>4. KeptRows(P) = UNION { FileRows(p, files[p], meta.profiles) : p \in Kept(x) }
  <2>1. KeptRows(P) = { r \in segments : r.path \notin plan[x].deleted \cup Updated(x) }
    BY PublicationFields DEF KeptRows
  <2>2. \A r \in KeptRows(P) : r.path \in Kept(x) /\ r \in FileRows(r.path, files[r.path], meta.profiles)
    BY <2>1, <1>2, RowsOfRebuilt DEF Kept
  <2>3. \A p \in Kept(x) : \A r \in FileRows(p, files[p], meta.profiles) : r \in KeptRows(P)
    <3> SUFFICES ASSUME NEW p \in Kept(x), NEW r \in FileRows(p, files[p], meta.profiles)
                 PROVE  r \in KeptRows(P)
      OBVIOUS
    <3>1. r \in segments
      BY <1>2 DEF Rebuilt, Kept
    <3>2. r.path = p
      BY DEF FileRows
    <3> QED
      BY <3>1, <3>2, <2>1 DEF Kept
  <2> QED
    BY <2>2, <2>3
<1>5. \A p \in Kept(x) : FileRows(p, table[p], d)
                           = { Rekey(r, d) : r \in FileRows(p, files[p], meta.profiles) }
  <2> SUFFICES ASSUME NEW p \in Kept(x)
               PROVE  FileRows(p, table[p], d)
                           = { Rekey(r, d) : r \in FileRows(p, files[p], meta.profiles) }
    OBVIOUS
  <2>1. meta.profiles.index = d.index
    BY <1>1 DEF IInv, RunInv, Planned, Full, FullRebuildRequired
  <2> QED
    BY <1>1, <2>1, FileRowsRekeyed
<1>6. \A r \in KeptRows(P) : UpdateRow(r, P) = Rekey(r, d)
  BY <1>1, <1>4, KeptRowRekeyed
<1>7. { UpdateRow(r, P) : r \in KeptRows(P) } = UNION { FileRows(p, table[p], d) : p \in Kept(x) }
  BY <1>4, <1>5, <1>6
<1>8. Rebuilt(table, d) = UNION { FileRows(p, table[p], d) : p \in Updated(x) \cup Kept(x) }
  BY <1>1 DEF Rebuilt
<1> QED
  BY <1>3, <1>7, <1>8 DEF PublishedRows

(* The manifest a run publishes is the manifest of the files it publishes. *)
LEMMA ManifestOfPublished ==
  ASSUME NEW x \in Indexers, IInv, pc[x] = "publishing"
  PROVE  ManifestFor(x) = ManifestOf(PublishedFiles(Publication(x)))
<1> DEFINE table == PublishedFiles(Publication(x))
<1>1. /\ { p \in Paths : table[p] # Absent } = plan[x].candidates
      /\ plan[x].candidates = Updated(x) \cup Kept(x)
      /\ Updated(x) \cap Kept(x) = {}
      /\ \A p \in Updated(x) : table[p] = bodies[x][p]
      /\ \A p \in Kept(x) : table[p] = files[p]
  BY PublishedTable
<1>2. base[x].files = files
  BY DEF IInv, RunInv, Based
<1>3. \A p \in plan[x].candidates :
        (IF p \in Updated(x) THEN bodies[x][p] ELSE base[x].files[p]) = table[p]
  BY <1>1, <1>2
<1>4. ManifestFor(x) = { <<p, table[p]>> : p \in plan[x].candidates }
  BY <1>3 DEF ManifestFor
<1>5. ManifestOf(table) = { <<p, table[p]>> : p \in plan[x].candidates }
  BY <1>1 DEF ManifestOf
<1> QED
  BY <1>4, <1>5

(* The keys a run expects to need are keys of the rows it publishes.       *)
LEMMA FutureInputsPublished ==
  ASSUME NEW x \in Indexers, IInv, pc[x] = "publishing"
  PROVE  FutureInputs(x) \subseteq
           ActiveInputs(PublishedRows(Publication(x)), request[x].config.storage)
<1> DEFINE P == Publication(x)
           d == request[x].config
<1> SUFFICES ASSUME NEW i \in FutureInputs(x)
             PROVE  \E r \in PublishedRows(P) : r.serving = d.storage /\ r.input = i
  BY DEF ActiveInputs
<1>1. CASE i \in ParsedInputs(x)
  <2>1. PICK p \in Updated(x) : \E r \in FileRows(p, bodies[x][p], d) : i = r.input
    BY <1>1 DEF ParsedInputs
  <2>2. PICK r \in FileRows(p, bodies[x][p], d) : i = r.input
    BY <2>1
  <2>3. r \in InsertedRows(P)
    BY <2>1, <2>2, PublicationFields DEF InsertedRows
  <2>4. r.serving = d.storage
    BY <2>2 DEF FileRows
  <2> QED
    BY <2>2, <2>3, <2>4 DEF PublishedRows
<1>2. CASE i \notin ParsedInputs(x)
  <2>1. PICK s \in UntouchedRows(x) : ~Full(x) /\ i = NextInput(x, s)
    BY <1>2 DEF FutureInputs
  <2>2. s \in KeptRows(P)
    BY PublicationFields DEF KeptRows, UntouchedRows
  <2>3. UpdateRow(s, P) = Rekey(s, d) /\ i = Rekey(s, d).input
    BY <2>1, <2>2, KeptRowRekeyed
  <2>4. UpdateRow(s, P) \in PublishedRows(P)
    BY <2>2 DEF PublishedRows
  <2>5. Rekey(s, d).serving = d.storage
    BY DEF Rekey
  <2> QED
    BY <2>3, <2>4, <2>5
<1> QED
  BY <1>1, <1>2

(* Every check of PublishIndexGeneration accepts a prepared publication.   *)
LEMMA PreparedIsAccepted ==
  IInv => NoSpuriousRefusal
<1> SUFFICES ASSUME IInv, NEW x \in Indexers, pc[x] = "publishing"
             PROVE  PublishAccepted(Publication(x))
  BY DEF NoSpuriousRefusal
<1> DEFINE P == Publication(x)
<1>1. Planned(x) /\ Based(x) /\ Prepared(x)
  BY DEF IInv, RunInv
<1>2. meta.generation = P.base
  BY <1>1, PublicationFields DEF Based
<1>3. P.rekeys # {} => LegacyServingProfileEquivalent(P.desired, meta.profiles, meta.serving)
  BY <1>1, PublicationFields DEF Prepared
<1>4. \A u \in P.updates : \E r \in KeptRows(P) : r.path = u.path /\ r.number = u.number
  <2>1. UntouchedRows(x) \subseteq KeptRows(P)
    BY PublicationFields DEF KeptRows, UntouchedRows
  <2> QED
    BY <1>1, <2>1, PublicationFields DEF Prepared, SegmentUpdates
<1>5. \A k \in P.rekeys : k.input \in ActiveInputs(PublishedRows(P), P.desired.storage)
  BY <1>1, FutureInputsPublished, PublicationFields DEF Prepared
<1>6. P.rekeys \subseteq vectors
  BY <1>1, PublicationFields DEF Prepared
<1> QED
  BY <1>2, <1>3, <1>4, <1>5, <1>6, PublicationFields DEF PublishAccepted

-----------------------------------------------------------------------------
(* A step that is not one of x's.                                          *)
NotMoved(x) ==
  /\ pc'[x] = pc[x] /\ request'[x] = request[x] /\ plan'[x] = plan[x]
  /\ base'[x] = base[x] /\ bodies'[x] = bodies[x] /\ prepared'[x] = prepared[x]
  /\ lock = x => lock' = x

(* Nothing a run has decided depends on what it does not see change.       *)
LEMMA RunUnchanged ==
  ASSUME NEW x \in Indexers, RunInv(x), NotMoved(x),
         UNCHANGED <<meta, files, segments>>, vectors \subseteq vectors'
  PROVE  RunInv(x)'
<1> USE DEF NotMoved
<1>1. Planned(x) => Planned(x)'
  BY DEF Planned
<1>2. Based(x) => Based(x)'
  BY DEF Based
<1>3. /\ Full(x)' = Full(x) /\ Canonical(x)' = Canonical(x) /\ Reconcile(x)' = Reconcile(x)
      /\ Updated(x)' = Updated(x) /\ UntouchedRows(x)' = UntouchedRows(x)
  BY DEF Full, Canonical, Reconcile, Updated, UntouchedRows
<1>4. \A r : NextInput(x, r)' = NextInput(x, r)
  BY <1>3 DEF NextInput
<1>5. SegmentUpdates(x)' = SegmentUpdates(x)
  BY <1>3, <1>4 DEF SegmentUpdates
<1>6. ParsedInputs(x)' = ParsedInputs(x)
  BY <1>3 DEF ParsedInputs
<1>7. FutureInputs(x)' = FutureInputs(x)
  BY <1>3, <1>4, <1>6 DEF FutureInputs
<1>8. Prepared(x) => Prepared(x)'
  BY <1>5, <1>7 DEF Prepared
<1> QED
  BY <1>1, <1>2, <1>8 DEF RunInv

(* The steps of one indexer are not steps of another.                      *)
LEMMA OthersNotMoved ==
  ASSUME NEW x \in Indexers, NEW y \in Indexers, x # y, IInv, Execute(x)
  PROVE  NotMoved(y)
<1> USE IndexAssumption DEF IInv, TypeInv, StoreTypes, RunTypes, NotMoved
<1>1. CASE Call(x)
  BY <1>1 DEF Call, Goto
<1>2. CASE AcquireLock(x)
  BY <1>2 DEF AcquireLock, Goto
<1>3. CASE PlanRun(x)
  BY <1>3 DEF PlanRun, Goto
<1>4. CASE TakeBase(x)
  BY <1>4 DEF TakeBase, Goto
<1>5. ASSUME NEW p \in Paths, ReadFile(x, p) PROVE NotMoved(y)
  BY <1>5 DEF ReadFile
<1>6. CASE PreparePublication(x)
  BY <1>6 DEF PreparePublication, Goto
<1>7. CASE Return(x)
  BY <1>7 DEF Return
<1> QED
  BY <1>1, <1>2, <1>3, <1>4, <1>5, <1>6, <1>7 DEF Execute, ReturnUnchanged, Publish, Abandon

(* index.lock keeps the steps of one indexer out of another's run.         *)
LEMMA OthersUndisturbed ==
  ASSUME NEW x \in Indexers, NEW y \in Indexers, x # y, IInv, Execute(x)
  PROVE  RunInv(y)'
<1>1. TypeInv /\ RunInv(x) /\ RunInv(y)
  BY DEF IInv
<1>2. NotMoved(y)
  BY OthersNotMoved
<1>3. CASE UNCHANGED storeVars
  BY <1>1, <1>2, <1>3, RunUnchanged DEF storeVars
<1>4. CASE Publish(x)
  <2>1. pc[x] = "publishing" /\ lock = x
    BY <1>1, <1>4 DEF Publish, RunInv
  <2>2. pc[y] \in {"idle", "locking"}
    BY <1>1, <2>1 DEF RunInv
  <2> QED
    BY <1>1, <1>2, <2>2 DEF RunInv, NotMoved
<1> QED
  BY <1>3, <1>4 DEF Execute, Call, AcquireLock, PlanRun, TakeBase, ReadFile, PreparePublication,
                    ReturnUnchanged, Abandon

(* Each step of a run establishes what its next step relies on.            *)
LEMMA OwnStep ==
  ASSUME NEW x \in Indexers, IInv, Execute(x)
  PROVE  RunInv(x)'
<1>1. TypeInv /\ RunInv(x)
  BY DEF IInv
<1> USE <1>1 DEF TypeInv, StoreTypes, RunTypes
<1>2. CASE Call(x)
  BY <1>2 DEF Call, Goto, RunInv
<1>3. CASE AcquireLock(x)
  BY <1>3 DEF AcquireLock, Goto, RunInv
<1>4. CASE PlanRun(x)
  <2>1. Planned(x)'
    BY <1>4 DEF PlanRun, Planned, Candidates, storeVars
  <2> QED
    BY <1>4, <2>1 DEF PlanRun, Goto, RunInv
<1>5. CASE TakeBase(x)
  <2>1. Planned(x)' /\ Based(x)'
    BY <1>5 DEF TakeBase, RunInv, Planned, Based, storeVars
  <2> QED
    BY <1>5, <2>1 DEF TakeBase, Goto, RunInv
<1>6. ASSUME NEW p \in Paths, ReadFile(x, p) PROVE RunInv(x)'
  <2>1. Planned(x)' /\ Based(x)'
    BY <1>6 DEF ReadFile, RunInv, Planned, Based, storeVars
  <2> QED
    BY <1>6, <2>1 DEF ReadFile, RunInv
<1>7. CASE PreparePublication(x)
  <2> USE <1>7 DEF PreparePublication
  <2>1. Planned(x) /\ Based(x) /\ Planned(x)' /\ Based(x)'
    BY DEF RunInv, Planned, Based, storeVars
  <2>2. prepared'[x] = [updates |-> SegmentUpdates(x), rekeys |-> PlannedRekeys(x)]
    OBVIOUS
  <2>3. \A k \in PlannedRekeys(x) :
          /\ k \in vectors
          /\ LegacyServingProfileEquivalent(request[x].config, meta.profiles, meta.serving)
          /\ k.source = meta.profiles.source
          /\ k.input \in FutureInputs(x)
    BY <2>1 DEF PlannedRekeys, Based
  <2>4. /\ Full(x)' = Full(x) /\ Canonical(x)' = Canonical(x) /\ Reconcile(x)' = Reconcile(x)
        /\ Updated(x)' = Updated(x) /\ UntouchedRows(x)' = UntouchedRows(x)
    BY DEF Full, Canonical, Reconcile, Updated, UntouchedRows, storeVars
  <2>5. \A r : NextInput(x, r)' = NextInput(x, r)
    BY <2>4 DEF NextInput
  <2>6. SegmentUpdates(x)' = SegmentUpdates(x)
    BY <2>4, <2>5 DEF SegmentUpdates
  <2>7. ParsedInputs(x)' = ParsedInputs(x)
    BY <2>4 DEF ParsedInputs
  <2>8. FutureInputs(x)' = FutureInputs(x)
    BY <2>4, <2>5, <2>7 DEF FutureInputs
  <2>9. \A p \in plan[x].candidates : bodies[x][p] # Absent
    BY DEF Unread
  <2>10. Prepared(x)'
    BY <2>2, <2>3, <2>6, <2>8, <2>9 DEF Prepared, storeVars
  <2> QED
    BY <2>1, <2>10 DEF Goto, RunInv
<1>8. CASE Return(x)
  BY <1>8 DEF Return, RunInv
<1> QED
  BY <1>2, <1>3, <1>4, <1>5, <1>6, <1>7, <1>8 DEF Execute, ReturnUnchanged, Publish, Abandon

(* Returning resets a run to values of the right types.                    *)
LEMMA ReturnTypes ==
  ASSUME TypeInv, NEW x \in Indexers, Return(x)
  PROVE  RunTypes'
<1> USE DEF TypeInv, RunTypes, Return
<1>1. NoRequest \in [config : ConfigOrNone, dry : BOOLEAN]
  BY DEF NoRequest, ConfigOrNone
<1>2. NoPlan \in [profiles : ConfigOrNone, candidates : SUBSET Paths, deleted : SUBSET Paths]
  BY DEF NoPlan, ConfigOrNone
<1>3. NothingRead \in FileTables
  BY DEF NothingRead, FileTables
<1>4. NoBase \in [generation : Nat, files : FileTables, profiles : ConfigOrNone]
  BY <1>3 DEF NoBase, NothingRead, ConfigOrNone
<1>5. "idle" \in Steps
  BY DEF Steps
<1> HIDE DEF TypeInv
<1>6. /\ pc' \in [Indexers -> Steps] /\ lock' \in Indexers \cup {Unlocked} /\ disk' \in FileTables
  BY <1>5 DEF TypeInv
<1>7. /\ request' \in [Indexers -> [config : ConfigOrNone, dry : BOOLEAN]]
      /\ plan' \in [Indexers -> [profiles : ConfigOrNone, candidates : SUBSET Paths,
                                 deleted : SUBSET Paths]]
  BY <1>1, <1>2 DEF TypeInv
<1>8. /\ base' \in [Indexers -> [generation : Nat, files : FileTables, profiles : ConfigOrNone]]
      /\ bodies' \in [Indexers -> FileTables]
      /\ prepared' = [y \in Indexers |-> prepared'[y]]
  BY <1>3, <1>4 DEF TypeInv
<1> QED
  BY <1>6, <1>7, <1>8

(* Every step keeps the types.                                             *)
LEMMA TypeStep ==
  IInv /\ [IndexNext]_indexVars => TypeInv'
<1> SUFFICES ASSUME IInv, [IndexNext]_indexVars PROVE TypeInv'
  OBVIOUS
<1>1. TypeInv
  BY DEF IInv
<1> USE <1>1 DEF TypeInv, StoreTypes, RunTypes
<1>2. ASSUME NEW x \in Indexers, Execute(x) PROVE TypeInv'
  <2> DEFINE Moved == Goto(x, "idle") \/ Goto(x, "locking") \/ Goto(x, "planning") \/ Goto(x, "snapshot")
                      \/ Goto(x, "reading") \/ Goto(x, "publishing")
  <2>1. Moved => pc' \in [Indexers -> Steps]
    BY DEF Goto, Steps
  <2>2. CASE Call(x)
    <3>1. PICK c \in Desired, d \in BOOLEAN :
             request' = [request EXCEPT ![x] = [config |-> c, dry |-> d]]
      BY <2>2 DEF Call
    <3>2. request' \in [Indexers -> [config : ConfigOrNone, dry : BOOLEAN]]
      BY <3>1, ConfigsAssumption DEF Desired, ConfigOrNone
    <3> QED
      BY <2>1, <2>2, <3>2 DEF Call, storeVars
  <2>3. CASE AcquireLock(x)
    BY <2>1, <2>3 DEF AcquireLock, storeVars
  <2>4. CASE PlanRun(x)
    <3> DEFINE live == Candidates(request[x].config)
               entry == [profiles |-> meta.profiles, candidates |-> live,
                         deleted |-> { p \in Paths : files[p] # Absent } \ live]
    <3>1. request[x].config \in Configs
      BY <2>4 DEF PlanRun, IInv, RunInv, Desired
    <3>2. live \subseteq Paths
      BY <3>1, EnabledAssumption DEF Candidates
    <3>3. entry \in [profiles : ConfigOrNone, candidates : SUBSET Paths, deleted : SUBSET Paths]
      BY <3>2 DEF ConfigOrNone
    <3>4. plan' = [plan EXCEPT ![x] = entry]
      BY <2>4 DEF PlanRun
    <3> HIDE DEF entry
    <3>5. plan' \in [Indexers -> [profiles : ConfigOrNone, candidates : SUBSET Paths,
                                   deleted : SUBSET Paths]]
      BY <3>3, <3>4
    <3> QED
      BY <2>1, <2>4, <3>5 DEF PlanRun, storeVars
  <2>5. CASE TakeBase(x)
    <3>1. base' \in [Indexers -> [generation : Nat, files : FileTables, profiles : ConfigOrNone]]
      BY <2>5 DEF TakeBase, ConfigOrNone
    <3> QED
      BY <2>1, <2>5, <3>1 DEF TakeBase, storeVars
  <2>6. ASSUME NEW p \in Paths, ReadFile(x, p) PROVE TypeInv'
    <3>1. bodies' = [bodies EXCEPT ![x] = [bodies[x] EXCEPT ![p] = disk[p]]]
      BY <2>6 DEF ReadFile
    <3>2. [bodies[x] EXCEPT ![p] = disk[p]] \in FileTables
      BY DEF FileTables
    <3>3. bodies' \in [Indexers -> FileTables]
      BY <3>1, <3>2
    <3> QED
      BY <2>6, <3>3 DEF ReadFile, storeVars
  <2>7. CASE PreparePublication(x)
    <3>1. prepared' = [y \in Indexers |-> prepared'[y]]
      BY <2>7 DEF PreparePublication
    <3> QED
      BY <2>1, <2>7, <3>1 DEF PreparePublication, storeVars
  <2>8. CASE Return(x) /\ UNCHANGED storeVars
    <3>1. RunTypes'
      BY <2>8, ReturnTypes
    <3> QED
      BY <2>8, <3>1 DEF storeVars
  <2>9. CASE Publish(x)
    <3>1. RunTypes'
      BY <2>9, ReturnTypes DEF Publish
    <3>2. PublishIndexGeneration(Publication(x)) /\ pc[x] = "publishing"
      BY <2>9 DEF Publish
    <3>3. files' \in FileTables
      BY <3>2, PublishedTable DEF PublishIndexGeneration, Indexable
    <3>4. Publication(x).base = meta.generation
      BY <3>2 DEF PublishIndexGeneration, PublishAccepted
    <3>5. Publication(x).desired \in Configs
      BY <3>2, PublicationFields DEF IInv, RunInv, Desired
    <3>6. meta'.generation \in Nat /\ meta'.profiles \in Configs
      BY <3>2, <3>4, <3>5 DEF PublishIndexGeneration
    <3> QED
      BY <3>1, <3>3, <3>6
  <2> QED
    BY <1>2, <2>2, <2>3, <2>4, <2>5, <2>6, <2>7, <2>8, <2>9
    DEF Execute, ReturnUnchanged, Abandon
<1>3. ASSUME NEW p \in Paths, EditFile(p) PROVE TypeInv'
  BY <1>3 DEF EditFile, storeVars, jobVars, FileTables
<1>4. CASE EmbedInput
  BY <1>4 DEF EmbedInput, jobVars
<1>5. CASE UNCHANGED indexVars
  BY <1>5 DEF indexVars, storeVars, jobVars
<1> QED
  BY <1>2, <1>3, <1>4, <1>5 DEF IndexNext

-----------------------------------------------------------------------------
(* What a publication leaves in the store.                                 *)
LEMMA PublishStep ==
  ASSUME NEW x \in Indexers, IInv, Publish(x)
  PROVE  /\ (IncrementalEqualsRebuild /\ ManifestNamesFiles /\ VectorShape /\ VectorLineage)'
         /\ Abstract!InstallAs(request[x].config, files')
         /\ files' \in Indexable(request[x].config)
<1> DEFINE P == Publication(x)
           d == request[x].config
<1>1. /\ pc[x] = "publishing" /\ PublishAccepted(P)
      /\ files' = PublishedFiles(P) /\ segments' = PublishedRows(P)
      /\ vectors' = PublishedVectors(P)
      /\ meta' = [generation |-> P.base + 1, manifest |-> P.manifest,
                  profiles |-> P.desired, serving |-> P.desired.storage]
  BY DEF Publish, PublishIndexGeneration
<1>2. /\ P.desired = d /\ P.manifest = ManifestFor(x) /\ P.base = meta.generation
      /\ P.rekeys = prepared[x].rekeys /\ d \in Configs
  BY <1>1, PublicationFields DEF PublishAccepted, IInv, RunInv, Desired
<1>3. meta' = [generation |-> meta.generation + 1, manifest |-> ManifestOf(files'),
               profiles |-> d, serving |-> d.storage]
  BY <1>1, <1>2, ManifestOfPublished
<1>4. segments' = Rebuilt(files', d)
  BY <1>1, PublishedIsRebuilt
<1>5. files' \in Indexable(d)
  BY <1>1, PublishedTable
<1>6. IncrementalEqualsRebuild'
  <2>1. Rebuilt(files, meta.profiles)' = Rebuilt(files', d)
    BY <1>3 DEF Rebuilt, FileRows
  <2> QED
    BY <1>3, <1>4, <2>1 DEF IncrementalEqualsRebuild
<1>7. ManifestNamesFiles'
  BY <1>3 DEF ManifestNamesFiles, ManifestOf
<1>8. Abstract!InstallAs(d, files')
  BY <1>3, <1>4 DEF Abstract!InstallAs, Abstract!Rebuilt, Abstract!ManifestOf, Abstract!FileRows,
                    Abstract!CanonicalInput, Rebuilt, ManifestOf, FileRows, CanonicalInput
<1>9. ASSUME NEW k \in P.rekeys
      PROVE  /\ CopyVector(k, d).source = d.source /\ CopyVector(k, d).paid = d.source
             /\ CopyVector(k, d).serving = d.storage
             /\ CopyVector(k, d) = [serving |-> CopyVector(k, d).serving,
                                    input |-> CopyVector(k, d).input,
                                    source |-> CopyVector(k, d).source,
                                    paid |-> CopyVector(k, d).paid]
  <2>1. k.source = meta.profiles.source /\ meta.profiles.source = d.source
    BY <1>1, <1>2 DEF IInv, RunInv, Prepared, LegacyServingProfileEquivalent
  <2>2. k \in vectors
    BY <1>1 DEF PublishAccepted
  <2>3. k.paid = k.source
    BY <2>2 DEF IInv, VectorLineage
  <2> QED
    BY <2>1, <2>3 DEF CopyVector
<1>10. \A v \in vectors' : v \in vectors \/ \E k \in P.rekeys : v = CopyVector(k, d)
  BY <1>1, <1>2 DEF PublishedVectors
<1>11. VectorShape'
  BY <1>9, <1>10 DEF IInv, VectorShape
<1>12. VectorLineage'
  <2> SUFFICES ASSUME NEW v \in vectors'
               PROVE  /\ v.source = v.paid
                      /\ \A c \in Configs : c.storage = v.serving => c.source = v.paid
    BY DEF VectorLineage
  <2>1. CASE v \in vectors
    BY <2>1 DEF IInv, VectorLineage
  <2>2. CASE \E k \in P.rekeys : v = CopyVector(k, d)
    <3>0. PICK k \in P.rekeys : v = CopyVector(k, d)
      BY <2>2
    <3> HIDE DEF P, d
    <3>1. v.source = d.source /\ v.paid = d.source /\ v.serving = d.storage
      BY <3>0, <1>9
    <3> QED
      BY <3>1, <1>2, ConfigsAssumption
  <2> QED
    BY <2>1, <2>2, <1>10
<1> QED
  BY <1>5, <1>6, <1>7, <1>8, <1>11, <1>12

(* Every step keeps what the catalog and the vector cache promise.         *)
LEMMA StoreStep ==
  IInv /\ [IndexNext]_indexVars =>
    (IncrementalEqualsRebuild /\ ManifestNamesFiles /\ VectorShape /\ VectorLineage)'
<1> DEFINE Good == IncrementalEqualsRebuild /\ ManifestNamesFiles /\ VectorShape /\ VectorLineage
<1> SUFFICES ASSUME IInv, [IndexNext]_indexVars PROVE Good'
  OBVIOUS
<1>1. Good /\ TypeInv
  BY DEF IInv
<1>2. CASE UNCHANGED storeVars
  BY <1>1, <1>2 DEF storeVars, IncrementalEqualsRebuild, ManifestNamesFiles, VectorShape,
                    VectorLineage, Rebuilt, FileRows, ManifestOf
<1>3. ASSUME NEW x \in Indexers, Publish(x) PROVE Good'
  BY <1>3, PublishStep
<1>4. CASE EmbedInput
  <2>1. PICK i \in ActiveInputs(segments, meta.serving) :
          vectors' = vectors \cup {StoredVector(i, meta.profiles)}
    BY <1>4 DEF EmbedInput
  <2>2. VectorShape'
    BY <1>1, <2>1 DEF VectorShape, StoredVector
  <2>3. VectorLineage'
    BY <1>1, <2>1, ConfigsAssumption DEF VectorLineage, StoredVector, TypeInv, StoreTypes
  <2>4. (IncrementalEqualsRebuild /\ ManifestNamesFiles)'
    BY <1>1, <1>4 DEF EmbedInput, IncrementalEqualsRebuild, ManifestNamesFiles,
                      Rebuilt, FileRows, ManifestOf
  <2> QED
    BY <2>2, <2>3, <2>4
<1> HIDE DEF Good
<1> QED
  BY <1>2, <1>3, <1>4
  DEF IndexNext, Execute, Call, AcquireLock, PlanRun, TakeBase, ReadFile, PreparePublication,
      ReturnUnchanged, Abandon, EditFile, indexVars

(* A new database and a database of the previous release satisfy it.       *)
LEMMA InitEstablishes ==
  IndexInit => IInv
<1> SUFFICES ASSUME IndexInit PROVE IInv
  OBVIOUS
<1> USE DEF IndexInit
<1>1. /\ StoreTypes /\ IncrementalEqualsRebuild /\ ManifestNamesFiles
      /\ VectorShape /\ VectorLineage
  <2>1. CASE FreshDatabase
    BY <2>1 DEF FreshDatabase, StoreTypes, IncrementalEqualsRebuild, ManifestNamesFiles, VectorShape,
                VectorLineage, Rebuilt, FileTables, Desired
  <2>2. CASE LegacyDatabase
    <3>1. PICK c \in Retired : \E table \in Indexable(c) :
            /\ meta = [generation |-> 1, manifest |-> ManifestOf(table),
                       profiles |-> c, serving |-> c.storage]
            /\ files = table
            /\ segments = Rebuilt(table, c)
            /\ \E inputs \in SUBSET { r.input : r \in segments } :
                 vectors = { StoredVector(i, c) : i \in inputs }
      BY <2>2 DEF LegacyDatabase
    <3>2. c \in Configs
      BY ConfigsAssumption
    <3>3. VectorShape /\ VectorLineage
      BY <3>1, <3>2, ConfigsAssumption DEF VectorShape, VectorLineage, StoredVector
    <3>4. StoreTypes /\ IncrementalEqualsRebuild /\ ManifestNamesFiles
      BY <3>1, <3>2 DEF StoreTypes, IncrementalEqualsRebuild, ManifestNamesFiles, Indexable
    <3> QED
      BY <3>3, <3>4
  <2> QED
    BY <2>1, <2>2 DEF StoreInit
<1>2. RunTypes
  BY DEF RunTypes, Steps, NoRequest, NoPlan, NoBase, NothingRead, ConfigOrNone, FileTables
<1>3. ASSUME NEW x \in Indexers PROVE RunInv(x)
  BY DEF RunInv
<1> QED
  BY <1>1, <1>2, <1>3 DEF IInv, TypeInv

-----------------------------------------------------------------------------
(* Every step of every process preserves the invariant.                    *)
LEMMA Inductive ==
  IInv /\ [IndexNext]_indexVars => IInv'
<1> SUFFICES ASSUME IInv, [IndexNext]_indexVars PROVE IInv'
  OBVIOUS
<1>1. TypeInv' /\ (IncrementalEqualsRebuild /\ ManifestNamesFiles /\ VectorShape /\ VectorLineage)'
  BY TypeStep, StoreStep
<1>2. ASSUME NEW y \in Indexers PROVE RunInv(y)'
  <2>1. RunInv(y) /\ TypeInv
    BY DEF IInv
  <2>2. ASSUME NEW x \in Indexers, Execute(x) PROVE RunInv(y)'
    BY <2>2, OwnStep, OthersUndisturbed
  <2>3. CASE (\E p \in Paths : EditFile(p)) \/ EmbedInput \/ UNCHANGED indexVars
    <3>1. UNCHANGED <<meta, files, segments>> /\ vectors \subseteq vectors' /\ NotMoved(y)
      BY <2>3 DEF EditFile, EmbedInput, indexVars, storeVars, jobVars, NotMoved
    <3> QED
      BY <2>1, <3>1, RunUnchanged
  <2> QED
    BY <2>2, <2>3 DEF IndexNext
<1> QED
  BY <1>1, <1>2 DEF IInv

(* The invariant all results below follow from.                            *)
THEOREM Invariance ==
  IndexSpec => []IInv
<1> QED
  BY InitEstablishes, Inductive, PTL DEF IndexSpec

(* In every reachable state every variable of the pipeline has its type.   *)
THEOREM TypeCorrect ==
  IndexSpec => []IndexTypeOK
<1>1. IInv => IndexTypeOK
  BY DEF IInv, TypeInv, StoreTypes, RunTypes, RunInv, IndexTypeOK
<1> QED
  BY <1>1, Invariance, PTL

(***************************************************************************)
(* Execute (index/service.go) never leaves a mixture: after any sequence of*)
(* incremental, reconciling, full, failed and abandoned runs of any number *)
(* of processes, the rows are those of a rebuild from nothing.             *)
(***************************************************************************)
THEOREM IncrementalIsRebuild ==
  IndexSpec => []IncrementalEqualsRebuild
<1> QED
  BY Invariance, PTL DEF IInv

(* manifestFor: a published manifest names exactly the published files.    *)
THEOREM ManifestIsExact ==
  IndexSpec => []ManifestNamesFiles
<1> QED
  BY Invariance, PTL DEF IInv

(* PublishIndexGeneration never refuses a prepared publication of a run    *)
(* that held index.lock, whatever embedding runs write meanwhile.          *)
THEOREM NeverSpuriouslyRefused ==
  IndexSpec => []NoSpuriousRefusal
<1> QED
  BY Invariance, PreparedIsAccepted, PTL

(* PlanLegacyServingVectorRekeys and PublishIndexGeneration never let a    *)
(* vector serve a profile with another source than it was paid under.      *)
THEOREM LineageKept ==
  IndexSpec => []VectorLineage
<1> QED
  BY Invariance, PTL DEF IInv

(***************************************************************************)
(* The pipeline refines the Catalog: readers see whole generations only.   *)
(***************************************************************************)
THEOREM PipelineImplementsCatalog ==
  IndexSpec => ImplementsCatalog
<1>1. IndexInit => Abstract!CatalogInit
  <2>1. ASSUME NEW c \in Retired PROVE Abstract!Indexable(c) = Indexable(c)
    BY DEF Indexable, Abstract!Indexable, FileTables, Abstract!FileTables
  <2>2. ASSUME NEW table, NEW c
        PROVE  /\ Abstract!Rebuilt(table, c) = Rebuilt(table, c)
               /\ Abstract!ManifestOf(table) = ManifestOf(table)
    BY DEF Rebuilt, FileRows, CanonicalInput, ManifestOf,
           Abstract!Rebuilt, Abstract!FileRows, Abstract!CanonicalInput, Abstract!ManifestOf
  <2>3. FreshDatabase => Abstract!CatalogInit
    BY DEF FreshDatabase, Abstract!CatalogInit, Desired, Abstract!Desired
  <2>4. LegacyDatabase => Abstract!CatalogInit
    BY <2>1, <2>2 DEF LegacyDatabase, Abstract!CatalogInit
  <2> QED
    BY <2>3, <2>4 DEF IndexInit, StoreInit
<1>2. IInv /\ [IndexNext]_indexVars => [Abstract!Install]_Abstract!catalogVars
  <2> SUFFICES ASSUME IInv, [IndexNext]_indexVars
               PROVE  Abstract!Install \/ UNCHANGED <<meta, files, segments>>
    BY DEF Abstract!catalogVars
  <2>1. ASSUME NEW x \in Indexers, Publish(x) PROVE Abstract!Install
    <3>1. request[x].config \in Abstract!Desired /\ files' \in Abstract!Indexable(request[x].config)
      BY <2>1, PublishStep DEF Publish, IInv, RunInv, Desired, Abstract!Desired, Indexable,
                               Abstract!Indexable, FileTables, Abstract!FileTables
    <3> QED
      BY <2>1, <3>1, PublishStep DEF Abstract!Install
  <2> QED
    BY <2>1
    DEF IndexNext, Execute, Call, AcquireLock, PlanRun, TakeBase, ReadFile, PreparePublication,
        ReturnUnchanged, Abandon, EditFile, EmbedInput, indexVars, storeVars
<1> QED
  BY <1>1, <1>2, Invariance, PTL DEF IndexSpec, ImplementsCatalog, Abstract!CatalogSpec

-----------------------------------------------------------------------------
(***************************************************************************)
(* A second invariant, on top of the first, for what a run has seen of the *)
(* worktree: everything it holds was there since it took the lock.         *)
(***************************************************************************)
Seen(x) ==
  /\ pc[x] \in {"idle", "locking", "planning", "snapshot"} => bodies[x] = NothingRead
  /\ pc[x] \notin {"idle", "locking"} =>
       \A p \in Paths : bodies[x][p] \in onDisk[p] \cup {Absent}
  /\ pc[x] \in {"snapshot", "reading", "publishing"} =>
       \A p \in Enabled[request[x].config.index] \ plan[x].candidates :
         onDisk[p] \cap (Oversize \cup {Absent}) # {}

FreshInv ==
  /\ onDisk \in [Paths -> SUBSET (Contents \cup {Absent})]
  /\ lock # Unlocked => \A p \in Paths : disk[p] \in onDisk[p]
  /\ \A x \in Indexers : Seen(x)

(* The history of the worktree only grows while somebody holds the lock.   *)
LEMMA HistoryStep ==
  ASSUME IInv, FreshInv, IndexNext
  PROVE  /\ onDisk' \in [Paths -> SUBSET (Contents \cup {Absent})]
         /\ lock' # Unlocked => \A p \in Paths : disk'[p] \in onDisk'[p]
         /\ lock # Unlocked /\ lock' = lock => \A p \in Paths : onDisk[p] \subseteq onDisk'[p]
<1> DEFINE Goal == /\ onDisk' \in [Paths -> SUBSET (Contents \cup {Absent})]
                   /\ lock' # Unlocked => \A p \in Paths : disk'[p] \in onDisk'[p]
                   /\ lock # Unlocked /\ lock' = lock =>
                        \A p \in Paths : onDisk[p] \subseteq onDisk'[p]
<1>1. /\ disk \in [Paths -> Contents \cup {Absent}] /\ lock \in Indexers \cup {Unlocked}
      /\ onDisk \in [Paths -> SUBSET (Contents \cup {Absent})]
      /\ lock # Unlocked => \A p \in Paths : disk[p] \in onDisk[p]
  BY DEF IInv, TypeInv, RunTypes, FreshInv, FileTables
<1>2. CASE UNCHANGED <<disk, lock, onDisk>>
  BY <1>1, <1>2
<1>3. ASSUME NEW x \in Indexers, AcquireLock(x) PROVE Goal
  BY <1>1, <1>3 DEF AcquireLock
<1>4. ASSUME NEW x \in Indexers, Return(x) PROVE Goal
  BY <1>1, <1>4, IndexAssumption DEF Return
<1>5. ASSUME NEW p \in Paths, EditFile(p) PROVE Goal
  <2>1. PICK c \in Contents \cup {Absent} : disk' = [disk EXCEPT ![p] = c]
    BY <1>5 DEF EditFile
  <2>2. lock' = lock /\ onDisk' = [onDisk EXCEPT ![p] = IF lock = Unlocked THEN @ ELSE @ \cup {c}]
    BY <1>1, <1>5, <2>1 DEF EditFile
  <2> QED
    BY <1>1, <2>1, <2>2
<1> QED
  BY <1>2, <1>3, <1>4, <1>5
  DEF IndexNext, Execute, Call, PlanRun, TakeBase, ReadFile, PreparePublication,
      ReturnUnchanged, Publish, Abandon, EmbedInput

(* What a run has seen stays true when it does not move itself.            *)
LEMMA SeenKept ==
  ASSUME IInv, FreshInv, IndexNext, NEW y \in Indexers, NotMoved(y)
  PROVE  Seen(y)'
<1>1. Seen(y) /\ RunInv(y)
  BY DEF IInv, FreshInv
<1>2. CASE pc[y] \in {"idle", "locking"}
  BY <1>1, <1>2 DEF Seen, NotMoved
<1>3. CASE pc[y] \notin {"idle", "locking"}
  <2>1. lock = y /\ lock' = y /\ lock # Unlocked
    BY <1>1, <1>3, IndexAssumption DEF RunInv, NotMoved
  <2>2. \A p \in Paths : onDisk[p] \subseteq onDisk'[p]
    BY <2>1, HistoryStep
  <2>3. pc[y] # "planning" => Enabled[request[y].config.index] \subseteq Paths
    BY <1>1, <1>3, EnabledAssumption DEF RunInv, Desired
  <2> QED
    BY <1>1, <2>2, <2>3 DEF Seen, NotMoved
<1> QED
  BY <1>2, <1>3

(* Each step of a run only takes what is in the worktree then.             *)
LEMMA SeenOwnStep ==
  ASSUME IInv, FreshInv, NEW x \in Indexers, Execute(x)
  PROVE  Seen(x)'
<1>1. Seen(x) /\ RunInv(x) /\ RunTypes /\ NothingRead \in FileTables
  BY DEF IInv, TypeInv, FreshInv, NothingRead, FileTables
<1> USE <1>1 DEF RunTypes
<1>2. CASE Call(x)
  BY <1>2 DEF Call, Goto, Seen
<1>3. CASE AcquireLock(x)
  BY <1>3 DEF AcquireLock, Goto, Seen, NothingRead
<1>4. CASE PlanRun(x)
  <2>1. /\ lock # Unlocked /\ \A p \in Paths : disk[p] \in onDisk[p]
    BY <1>4, IndexAssumption DEF PlanRun, RunInv, FreshInv
  <2>2. Enabled[request[x].config.index] \subseteq Paths
    BY <1>4, EnabledAssumption DEF PlanRun, RunInv, Desired
  <2>3. plan'[x].candidates = Candidates(request[x].config)
    BY <1>4 DEF PlanRun
  <2>4. \A p \in Enabled[request[x].config.index] \ Candidates(request[x].config) :
          onDisk[p] \cap (Oversize \cup {Absent}) # {}
    BY <2>1, <2>2 DEF Candidates
  <2> QED
    BY <1>4, <2>3, <2>4 DEF PlanRun, Goto, Seen
<1>5. CASE TakeBase(x)
  BY <1>5 DEF TakeBase, Goto, Seen
<1>6. ASSUME NEW p \in Paths, ReadFile(x, p) PROVE Seen(x)'
  <2>1. disk[p] \in onDisk[p]
    BY <1>6, IndexAssumption DEF ReadFile, RunInv, FreshInv
  <2>2. \A q \in Paths : bodies'[x][q] = IF q = p THEN disk[p] ELSE bodies[x][q]
    BY <1>6 DEF ReadFile, FileTables
  <2> QED
    BY <1>6, <2>1, <2>2 DEF ReadFile, Seen
<1>7. CASE PreparePublication(x)
  BY <1>7 DEF PreparePublication, Goto, Seen
<1>8. CASE Return(x)
  BY <1>8 DEF Return, Seen
<1> QED
  BY <1>2, <1>3, <1>4, <1>5, <1>6, <1>7, <1>8 DEF Execute, ReturnUnchanged, Publish, Abandon

LEMMA FreshInductive ==
  IInv /\ FreshInv /\ [IndexNext]_indexVars => FreshInv'
<1> SUFFICES ASSUME IInv, FreshInv, [IndexNext]_indexVars PROVE FreshInv'
  OBVIOUS
<1>1. CASE IndexNext
  <2>1. ASSUME NEW y \in Indexers PROVE Seen(y)'
    <3>1. ASSUME NEW x \in Indexers, Execute(x) PROVE Seen(y)'
      <4>1. CASE x = y
        BY <3>1, <4>1, SeenOwnStep
      <4>2. CASE x # y
        BY <1>1, <3>1, <4>2, OthersNotMoved, SeenKept
      <4> QED
        BY <4>1, <4>2
    <3>2. CASE (\E p \in Paths : EditFile(p)) \/ EmbedInput
      <4>1. NotMoved(y)
        BY <3>2 DEF EditFile, EmbedInput, jobVars, NotMoved
      <4> QED
        BY <1>1, <4>1, SeenKept
    <3> QED
      BY <1>1, <3>1, <3>2 DEF IndexNext
  <2> QED
    BY <1>1, <2>1, HistoryStep DEF FreshInv
<1>2. CASE UNCHANGED indexVars
  BY <1>2 DEF indexVars, jobVars, FreshInv, Seen
<1> QED
  BY <1>1, <1>2

(***************************************************************************)
(* readOne and Plan (index/service.go): what a publication installs was in *)
(* the worktree after the run took index.lock, and what it leaves out was  *)
(* missing, too large or not of an indexed language at such a moment.      *)
(***************************************************************************)
THEOREM FreshContentsPublished ==
  IndexSpec => PublishesFreshContents
<1>1. IndexInit => FreshInv
  BY DEF IndexInit, FreshInv, Seen
<1>2. IInv /\ FreshInv /\ [IndexNext]_indexVars =>
        [meta' # meta =>
           \A p \in Paths :
             IF files'[p] # Absent THEN files'[p] \in onDisk[p]
             ELSE \/ p \notin Enabled[meta'.profiles.index]
                  \/ onDisk[p] \cap (Oversize \cup {Absent}) # {}]_indexVars
  <2> SUFFICES ASSUME IInv, FreshInv, IndexNext, meta' # meta, NEW p \in Paths
               PROVE  IF files'[p] # Absent THEN files'[p] \in onDisk[p]
                      ELSE \/ p \notin Enabled[meta'.profiles.index]
                           \/ onDisk[p] \cap (Oversize \cup {Absent}) # {}
    BY DEF indexVars, storeVars
  <2>1. PICK x \in Indexers : Publish(x)
    BY DEF IndexNext, Execute, Call, AcquireLock, PlanRun, TakeBase, ReadFile, PreparePublication,
           ReturnUnchanged, Abandon, EditFile, EmbedInput, storeVars
  <2>2. /\ pc[x] = "publishing" /\ files' = PublishedFiles(Publication(x))
        /\ meta'.profiles = request[x].config
    BY <2>1, PublicationFields DEF Publish, PublishIndexGeneration
  <2>3. Seen(x)
    BY DEF FreshInv
  <2>4. /\ { q \in Paths : files'[q] # Absent } = plan[x].candidates
        /\ plan[x].candidates = Updated(x) \cup Kept(x)
        /\ \A q \in plan[x].candidates : files'[q] = bodies[x][q]
    BY <2>2, PublishedTable
  <2> QED
    BY <2>2, <2>3, <2>4 DEF Seen
<1> QED
  BY <1>1, <1>2, FreshInductive, Invariance, PTL DEF IndexSpec, PublishesFreshContents

-----------------------------------------------------------------------------
(***************************************************************************)
(* A third invariant: once a run has planned the legacy vectors to copy,   *)
(* its list has every vector worth copying.  Nobody publishes meanwhile,   *)
(* and an embedding run never adds a vector of a legacy profile.           *)
(***************************************************************************)
Lists(x) ==
  /\ pc[x] = "publishing"
  /\ LegacyServingProfileEquivalent(request[x].config, meta.profiles, meta.serving)
  => \A v \in vectors :
       v.serving = meta.serving /\ v.input \in FutureInputs(x) => v \in prepared[x].rekeys

CarryInv == \A x \in Indexers : Lists(x)

LEMMA FutureUnchanged ==
  ASSUME NEW x \in Indexers, UNCHANGED <<meta, files, segments>>,
         request'[x] = request[x], plan'[x] = plan[x], base'[x] = base[x], bodies'[x] = bodies[x]
  PROVE  FutureInputs(x)' = FutureInputs(x)
<1>1. /\ Full(x)' = Full(x) /\ Canonical(x)' = Canonical(x) /\ Updated(x)' = Updated(x)
      /\ UntouchedRows(x)' = UntouchedRows(x)
  BY DEF Full, Canonical, Updated, UntouchedRows
<1>2. \A r : NextInput(x, r)' = NextInput(x, r)
  BY <1>1 DEF NextInput
<1>3. ParsedInputs(x)' = ParsedInputs(x)
  BY <1>1 DEF ParsedInputs
<1> QED
  BY <1>1, <1>2, <1>3 DEF FutureInputs

(* A run that does not move, while the store does not either.              *)
LEMMA ListsKept ==
  ASSUME NEW x \in Indexers, Lists(x), NotMoved(x), UNCHANGED storeVars
  PROVE  Lists(x)'
<1>1. FutureInputs(x)' = FutureInputs(x)
  BY FutureUnchanged DEF NotMoved, storeVars
<1> QED
  BY <1>1 DEF Lists, NotMoved, storeVars

(* PlanLegacyServingVectorRekeys finds them all: a vector served under the *)
(* applied profile was paid under its source.                              *)
LEMMA PrepareLists ==
  ASSUME IInv, NEW x \in Indexers, PreparePublication(x)
  PROVE  Lists(x)'
<1>1. /\ prepared'[x] = [updates |-> SegmentUpdates(x), rekeys |-> PlannedRekeys(x)]
      /\ UNCHANGED <<storeVars, request, plan, base, bodies>> /\ pc[x] = "reading"
  BY DEF PreparePublication, IInv, TypeInv, RunTypes
<1>2. FutureInputs(x)' = FutureInputs(x)
  BY <1>1, FutureUnchanged DEF storeVars
<1>3. Based(x) /\ meta.profiles \in Configs
  BY <1>1 DEF IInv, RunInv, TypeInv, StoreTypes
<1>4. ASSUME LegacyServingProfileEquivalent(request[x].config, meta.profiles, meta.serving),
             NEW v \in vectors, v.serving = meta.serving, v.input \in FutureInputs(x)
      PROVE  v \in PlannedRekeys(x)
  <2>1. v.source = meta.profiles.source
    BY <1>3, <1>4 DEF IInv, VectorLineage, LegacyServingProfileEquivalent
  <2> QED
    BY <1>3, <1>4, <2>1 DEF PlannedRekeys, Based
<1> QED
  BY <1>1, <1>2, <1>4 DEF Lists, storeVars

LEMMA CarryInductive ==
  IInv /\ CarryInv /\ [IndexNext]_indexVars => CarryInv'
<1> SUFFICES ASSUME IInv, CarryInv, [IndexNext]_indexVars, NEW y \in Indexers
             PROVE  Lists(y)'
  BY DEF CarryInv
<1>1. Lists(y) /\ TypeInv
  BY DEF CarryInv, IInv
<1>2. ASSUME NEW x \in Indexers, Execute(x) PROVE Lists(y)'
  <2>1. CASE x = y
    <3>1. CASE PreparePublication(x)
      BY <2>1, <3>1, PrepareLists
    <3>2. CASE Return(x)
      BY <1>1, <2>1, <3>2 DEF Return, Lists, TypeInv, RunTypes
    <3>3. CASE Call(x) \/ AcquireLock(x) \/ PlanRun(x) \/ TakeBase(x)
      BY <1>1, <2>1, <3>3
      DEF Call, AcquireLock, PlanRun, TakeBase, Goto, Lists, TypeInv, RunTypes
    <3>4. ASSUME NEW p \in Paths, ReadFile(x, p) PROVE Lists(y)'
      BY <2>1, <3>4 DEF ReadFile, Lists
    <3> QED
      BY <1>2, <3>1, <3>2, <3>3, <3>4 DEF Execute, ReturnUnchanged, Publish, Abandon
  <2>2. CASE x # y
    <3>1. NotMoved(y)
      BY <1>2, <2>2, OthersNotMoved
    <3>2. CASE UNCHANGED storeVars
      BY <1>1, <3>1, <3>2, ListsKept
    <3>3. CASE Publish(x)
      <4>1. pc[x] = "publishing" /\ lock = x
        BY <3>3 DEF IInv, Publish, RunInv
      <4>2. pc[y] \in {"idle", "locking"}
        BY <2>2, <4>1 DEF IInv, RunInv
      <4> QED
        BY <3>1, <4>2 DEF Lists, NotMoved
    <3> QED
      BY <1>2, <3>2, <3>3
      DEF Execute, Call, AcquireLock, PlanRun, TakeBase, ReadFile, PreparePublication,
          ReturnUnchanged, Abandon
  <2> QED
    BY <2>1, <2>2
<1>3. CASE (\E p \in Paths : EditFile(p)) \/ UNCHANGED indexVars
  <2>1. UNCHANGED storeVars /\ NotMoved(y)
    BY <1>3 DEF EditFile, indexVars, storeVars, jobVars, NotMoved
  <2> QED
    BY <1>1, <2>1, ListsKept
<1>4. CASE EmbedInput
  <2>1. meta.profiles \in Desired /\ UNCHANGED <<meta, request>>
    BY <1>4 DEF EmbedInput, jobVars
  <2>2. ~LegacyServingProfileEquivalent(request[y].config, meta.profiles, meta.serving)
    BY <2>1, LegacyAssumption DEF LegacyServingProfileEquivalent
  <2>3. ~LegacyServingProfileEquivalent(request'[y].config, meta'.profiles, meta'.serving)
    BY <2>1, <2>2
  <2> QED
    BY <2>3 DEF Lists
<1> QED
  BY <1>2, <1>3, <1>4 DEF IndexNext

(* The keys of the rows a run publishes are the keys it expected to need.  *)
LEMMA PublishedInputsForeseen ==
  ASSUME NEW x \in Indexers, IInv, pc[x] = "publishing"
  PROVE  ActiveInputs(PublishedRows(Publication(x)), request[x].config.storage)
           \subseteq FutureInputs(x)
<1> DEFINE P == Publication(x)
           d == request[x].config
<1> SUFFICES ASSUME NEW r \in PublishedRows(P)
             PROVE  r.input \in FutureInputs(x)
  BY DEF ActiveInputs
<1>1. CASE r \in InsertedRows(P)
  <2>1. PICK p \in Updated(x) : r \in FileRows(p, bodies[x][p], d)
    BY <1>1, PublicationFields DEF InsertedRows
  <2> QED
    BY <2>1 DEF FutureInputs, ParsedInputs
<1>2. CASE r \notin InsertedRows(P)
  <2>1. PICK s \in KeptRows(P) : r = UpdateRow(s, P)
    BY <1>2 DEF PublishedRows
  <2>2. s \in segments /\ s.path \notin plan[x].deleted \cup Updated(x)
    BY PublicationFields DEF KeptRows
  <2>3. segments = Rebuilt(files, meta.profiles)
    BY DEF IInv, IncrementalEqualsRebuild
  <2>4. s.path \in Kept(x)
    BY <2>2, <2>3, RowsOfRebuilt DEF Kept
  <2>5. ~Full(x)
    BY <2>4, PublishedTable
  <2>6. r.input = NextInput(x, s)
    BY <2>1, <2>5, KeptRowRekeyed
  <2> QED
    BY <2>2, <2>5, <2>6 DEF FutureInputs, UntouchedRows
<1> QED
  BY <1>1, <1>2

(***************************************************************************)
(* Moving a database of the previous release to its equivalent copies the  *)
(* vector of every input that stays active, whatever else the run changed  *)
(* and whatever other runs and embeddings happened since it planned.       *)
(***************************************************************************)
THEOREM LegacyVectorsKept ==
  IndexSpec => LegacyVectorsCarried
<1>1. IndexInit => CarryInv
  BY DEF IndexInit, CarryInv, Lists
<1>2. IInv /\ CarryInv /\ [IndexNext]_indexVars =>
        [meta' # meta /\ LegacyServingProfileEquivalent(meta'.profiles, meta.profiles, meta.serving)
           => \A v \in vectors :
                v.serving = meta.serving /\ v.input \in ActiveInputs(segments', meta'.serving)
                  => \E w \in vectors' : w = CopyVector(v, meta'.profiles)]_indexVars
  <2> SUFFICES ASSUME IInv, CarryInv, IndexNext, meta' # meta,
                      LegacyServingProfileEquivalent(meta'.profiles, meta.profiles, meta.serving),
                      NEW v \in vectors, v.serving = meta.serving,
                      v.input \in ActiveInputs(segments', meta'.serving)
               PROVE  \E w \in vectors' : w = CopyVector(v, meta'.profiles)
    BY DEF indexVars, storeVars
  <2>1. PICK x \in Indexers : Publish(x)
    BY DEF IndexNext, Execute, Call, AcquireLock, PlanRun, TakeBase, ReadFile, PreparePublication,
           ReturnUnchanged, Abandon, EditFile, EmbedInput, storeVars
  <2>2. /\ pc[x] = "publishing"
        /\ segments' = PublishedRows(Publication(x)) /\ vectors' = PublishedVectors(Publication(x))
        /\ meta'.profiles = request[x].config /\ meta'.serving = request[x].config.storage
        /\ Publication(x).desired = request[x].config
        /\ Publication(x).rekeys = prepared[x].rekeys
    BY <2>1, PublicationFields DEF Publish, PublishIndexGeneration
  <2>3. v.input \in FutureInputs(x)
    BY <2>2, PublishedInputsForeseen
  <2>4. v \in prepared[x].rekeys
    BY <2>2, <2>3 DEF CarryInv, Lists
  <2> QED
    BY <2>2, <2>4 DEF PublishedVectors
<1> QED
  BY <1>1, <1>2, CarryInductive, Invariance, PTL DEF IndexSpec, LegacyVectorsCarried

=============================================================================
