------------------------- MODULE SearchServerProofs -------------------------
(***************************************************************************)
(* For any configurations, contents, index runs, embedding runs and vector *)
(* builds around it: a search compares the query vector only with vectors  *)
(* of its own space, never reports a damaged store, and drops a query it   *)
(* paid for only when a generation was installed meanwhile.  For any edits *)
(* and index runs around it, a clean status is true.  For any chunks and   *)
(* requests, the ranking of a snapshot keeps what all lanes agree on, each *)
(* lane its best and the answer its budget.  And the server keeps all of   *)
(* it, whichever of the three it is asked for.                             *)
(*                                                                         *)
(* A storage profile has one source profile, so rows of the active serving *)
(* profile are of the source the active generation names; and no writer    *)
(* takes the last vector of a generation away while it stays active.       *)
(***************************************************************************)
EXTENDS SearchServer, DataTheorems, SequenceTheorems, TLAPS

Waiting == {"preflight", "embedding", "hybrid"}

Shape ==
  /\ meta.generation \in Nat
  /\ meta.profiles \in Configs /\ meta.serving = meta.profiles.storage
  /\ resolved.config \in Desired

(* A row was paid under the source of every configuration it can serve.    *)
Lineage ==
  \A v \in vectors :
    /\ v.paid = v.source
    /\ \E c \in Configs : v.serving = c.storage /\ v.source = c.source

(* The query is the server's own; no answer compares vectors before it is  *)
(* given, and what was compared was of the query's space.                  *)
OwnQuery ==
  /\ step = "hybrid" => query = resolved.config.source
  /\ step \in Waiting => answer = NoAnswer
  /\ step = "lexical" => answer.used = {}
  /\ answer.reason # "VECTOR_SNAPSHOT_INVALID"
  /\ SameSpace

(* What preflight saw still stands while the generation it saw does.       *)
Searchable ==
  /\ ProfilesMatch(resolved.config)
  /\ meta.manifest = seen.manifest
  /\ \E v \in vectors : v.serving = meta.serving /\ v.input \in Active

SeenStands ==
  step \in {"embedding", "hybrid"} =>
    /\ seen.generation \in Nat /\ seen.generation <= meta.generation
    /\ seen.generation = meta.generation => Searchable

IInv == Shape /\ Lineage /\ OwnQuery /\ SeenStands

-----------------------------------------------------------------------------
(* Which vectors count depends on the index and the vectors alone.         *)
LEMMA SameIndexSameRows ==
  ASSUME UNCHANGED <<meta, segments, resolved>>
  PROVE  Active' = Active /\ ProfilesMatch(resolved.config)' = ProfilesMatch(resolved.config)
  BY DEF Active, ProfilesMatch

(* Under the active generation's own configuration no row is of another    *)
(* source.                                                                 *)
LEMMA NoInvalidRows ==
  ASSUME Shape, Lineage, ProfilesMatch(resolved.config)
  PROVE  ~InvalidVectorRows(resolved.config) /\ ValidRows(resolved.config) = ActiveRows
<1> DEFINE cfg == resolved.config
<1>1. cfg \in Configs /\ meta.serving = cfg.storage
  BY DEF Shape, Desired, ProfilesMatch
<1>2. ASSUME NEW v \in ActiveRows PROVE v.source = cfg.source /\ v.serving = cfg.storage
  <2>1. v \in vectors /\ v.serving = cfg.storage
    BY <1>1 DEF ActiveRows
  <2>2. PICK c \in Configs : v.serving = c.storage /\ v.source = c.source
    BY <2>1 DEF Lineage
  <2>3. c.source = cfg.source
    BY <1>1, <2>1, <2>2, ConfigsAssumption
  <2> QED
    BY <2>1, <2>2, <2>3
<1>3. ValidRows(cfg) = ActiveRows
  BY <1>2 DEF ValidRows
<1> QED
  BY <1>3 DEF InvalidVectorRows

LEMMA SomeActiveRow ==
  ASSUME Searchable
  PROVE  ActiveRows # {}
  BY DEF Searchable, ActiveRows

(* Valid rows were paid under the server's source.                         *)
LEMMA ValidRowsPaid ==
  ASSUME Lineage, NEW v \in ValidRows(resolved.config)
  PROVE  v.paid = resolved.config.source
  BY DEF Lineage, ValidRows, ActiveRows

-----------------------------------------------------------------------------
(* The steps of a search leave the store alone.                            *)
StoreKept == UNCHANGED <<meta, files, segments, vectors, build, resolved>>

LEMMA StoreKeeps ==
  ASSUME IInv, StoreKept
  PROVE  Shape' /\ Lineage'
  BY DEF IInv, Shape, Lineage, StoreKept

LEMMA CallStep ==
  ASSUME IInv, Call
  PROVE  IInv'
<1>1. StoreKept
  BY DEF Call, catalogVars, StoreKept
<1>2. OwnQuery'
  BY DEF Call, OwnQuery, NoAnswer, SameSpace, Waiting
<1>3. SeenStands'
  BY DEF Call, SeenStands
<1> QED
  BY <1>1, <1>2, <1>3, StoreKeeps DEF IInv

LEMMA PreflightStep ==
  ASSUME IInv, Preflight
  PROVE  IInv'
<1>1. StoreKept /\ query' = query /\ step = "preflight" /\ answer = NoAnswer
  BY DEF IInv, OwnQuery, Preflight, catalogVars, StoreKept, Waiting
<1>2. CASE PreflightReason = ""
  <2>1. /\ seen' = [generation |-> meta.generation, manifest |-> meta.manifest]
        /\ step' = "embedding" /\ answer' = answer
    BY <1>2 DEF Preflight
  <2>2. ProfilesMatch(resolved.config) /\ ValidRows(resolved.config) # {}
    BY <1>2 DEF PreflightReason
  <2>3. Searchable'
    <3>1. \E v \in vectors : v.serving = meta.serving /\ v.input \in Active
      BY <2>2 DEF ValidRows, ActiveRows
    <3>2. Active' = Active /\ ProfilesMatch(resolved.config)'
      BY <1>1, <2>2, SameIndexSameRows DEF StoreKept
    <3> QED
      BY <1>1, <2>1, <3>1, <3>2 DEF Searchable, StoreKept
  <2>4. SeenStands'
    BY <1>1, <2>1, <2>3 DEF SeenStands, IInv, Shape, StoreKept
  <2>5. OwnQuery'
    BY <1>1, <2>1 DEF IInv, OwnQuery, NoAnswer, SameSpace, Waiting
  <2> QED
    BY <1>1, <2>4, <2>5, StoreKeeps DEF IInv
<1>3. CASE PreflightReason # ""
  <2>1. answer' = [NoAnswer EXCEPT !.reason = PreflightReason] /\ step' = "lexical"
    BY <1>3 DEF Preflight, Fallback
  <2>2. PreflightReason # "VECTOR_SNAPSHOT_INVALID"
    BY NoInvalidRows DEF PreflightReason, IInv
  <2>3. OwnQuery'
    <3>1. answer'.used = {} /\ answer'.reason = PreflightReason
      BY <2>1 DEF NoAnswer
    <3> QED
      BY <2>1, <2>2, <3>1 DEF OwnQuery, SameSpace, Waiting
  <2>4. SeenStands'
    BY <2>1 DEF SeenStands
  <2> QED
    BY <1>1, <2>3, <2>4, StoreKeeps DEF IInv
<1> QED
  BY <1>2, <1>3

(* SeenStands needs only the store and what was seen.                      *)
LEMMA SeenKeeps ==
  ASSUME IInv, StoreKept, seen' = seen, step' \in {"embedding", "hybrid"} => step \in {"embedding", "hybrid"}
  PROVE  SeenStands'
<1>1. Searchable => Searchable'
  BY SameIndexSameRows DEF Searchable, StoreKept
<1> QED
  BY <1>1 DEF IInv, SeenStands, StoreKept

LEMMA QueryStep ==
  ASSUME IInv, QueryEmbedding
  PROVE  IInv'
<1>1. StoreKept /\ seen' = seen /\ step = "embedding" /\ answer = NoAnswer
  BY DEF IInv, OwnQuery, QueryEmbedding, catalogVars, StoreKept, Waiting
<1>2. CASE query' = resolved.config.source /\ step' = "hybrid" /\ UNCHANGED answer
  <2>1. OwnQuery'
    BY <1>1, <1>2 DEF OwnQuery, NoAnswer, SameSpace, StoreKept
  <2> QED
    BY <1>1, <1>2, <2>1, SeenKeeps, StoreKeeps DEF IInv
<1>3. CASE Fallback("QUERY_EMBEDDING_FAILED") /\ step' = "lexical" /\ UNCHANGED query
  <2>1. OwnQuery'
    BY <1>3 DEF Fallback, OwnQuery, NoAnswer, SameSpace, Waiting
  <2> QED
    BY <1>1, <1>3, <2>1, SeenKeeps, StoreKeeps DEF IInv
<1> QED
  BY <1>2, <1>3 DEF QueryEmbedding

LEMMA LexicalStep ==
  ASSUME IInv, LexicalSearch
  PROVE  IInv'
<1>1. StoreKept /\ seen' = seen /\ query' = query /\ step = "lexical" /\ step' = "idle"
  BY DEF LexicalSearch, catalogVars, StoreKept
<1>2. answer' = [answer EXCEPT !.generation = meta.generation] /\ answer.used = {}
  BY <1>1 DEF IInv, OwnQuery, LexicalSearch
<1>3. answer'.used = answer.used /\ answer'.reason = answer.reason
  BY <1>2
<1>4. OwnQuery'
  BY <1>1, <1>2, <1>3 DEF IInv, OwnQuery, SameSpace, Waiting
<1> QED
  BY <1>1, <1>4, SeenKeeps, StoreKeeps DEF IInv

LEMMA HybridStep ==
  ASSUME IInv, HybridSearch
  PROVE  IInv'
<1>1. StoreKept /\ seen' = seen /\ query' = query /\ step = "hybrid" /\ step' = "idle"
      /\ query = resolved.config.source
  BY DEF HybridSearch, catalogVars, StoreKept, IInv, OwnQuery
<1>2. HybridReason # "VECTOR_SNAPSHOT_INVALID"
  <2>1. ASSUME SnapshotUnchanged
        PROVE  ~InvalidVectorRows(resolved.config) /\ ValidRows(resolved.config) # {}
    BY <1>1, <2>1, NoInvalidRows, SomeActiveRow DEF IInv, SeenStands, SnapshotUnchanged
  <2> QED
    BY <2>1 DEF HybridReason
<1>3. /\ answer'.reason = HybridReason
      /\ answer'.used = IF HybridReason = "" THEN ValidRows(resolved.config) ELSE {}
  BY DEF HybridSearch
<1>4. SameSpace'
  BY <1>1, <1>3, ValidRowsPaid DEF SameSpace, IInv
<1>5. OwnQuery'
  BY <1>1, <1>2, <1>3, <1>4 DEF OwnQuery, Waiting
<1> QED
  BY <1>1, <1>5, SeenKeeps, StoreKeeps DEF IInv

LEMMA FailStep ==
  ASSUME IInv, SearchFails
  PROVE  IInv'
<1>1. StoreKept
  BY DEF SearchFails, catalogVars, StoreKept
<1>2. OwnQuery'
  BY DEF SearchFails, OwnQuery, NoAnswer, SameSpace, Waiting
<1>3. SeenStands'
  BY DEF SearchFails, SeenStands
<1> QED
  BY <1>1, <1>2, <1>3, StoreKeeps DEF IInv

-----------------------------------------------------------------------------
(* The other processes leave the search alone.                             *)
LEMMA SearchKept ==
  ASSUME IInv, UNCHANGED <<step, seen, query, answer, resolved>>
  PROVE  OwnQuery'
  BY DEF IInv, OwnQuery, SameSpace

(* A writer that leaves the index alone, and an active vector where there  *)
(* was one.                                                                *)
LEMMA WriterKeeps ==
  ASSUME IInv, UNCHANGED <<meta, files, segments, resolved, searchVars>>, Lineage',
         (\E v \in vectors : v.serving = meta.serving /\ v.input \in Active)
           => (\E v \in vectors' : v.serving = meta.serving /\ v.input \in Active)
  PROVE  IInv'
<1>1. Shape'
  BY DEF IInv, Shape
<1>2. OwnQuery'
  BY SearchKept DEF searchVars
<1>3. Searchable => Searchable'
  BY SameIndexSameRows DEF Searchable, searchVars
<1>4. SeenStands'
  BY <1>3 DEF IInv, SeenStands, searchVars
<1> QED
  BY <1>1, <1>2, <1>4 DEF IInv

LEMMA EmbedStep ==
  ASSUME IInv, EmbedInput
  PROVE  IInv'
<1>1. PICK i \in Active :
        vectors' = { v \in vectors : ~(v.serving = meta.serving /\ v.input = i) } \cup {Row(i)}
  BY DEF EmbedInput
<1>2. /\ Row(i).serving = meta.serving /\ Row(i).input = i
      /\ Row(i).source = meta.profiles.source /\ Row(i).paid = meta.profiles.source
  BY DEF Row
<1>3. Lineage'
  BY <1>1, <1>2 DEF IInv, Shape, Lineage
<1>4. \E v \in vectors' : v.serving = meta.serving /\ v.input \in Active
  BY <1>1, <1>2
<1> QED
  BY <1>3, <1>4, WriterKeeps DEF EmbedInput, catalogVars

LEMMA BuildStep ==
  ASSUME IInv, PublishMaterializedVectors
  PROVE  IInv'
<1>1. vectors' = { v \in vectors : v.serving # meta.serving } \cup BuiltRows
  BY DEF PublishMaterializedVectors
<1>2. build.source = meta.profiles.source /\ build.required = Active
  BY DEF PublishMaterializedVectors, BuildIsCurrent
<1>3. /\ \A v \in BuiltRows : /\ v.serving = meta.serving /\ v.source = meta.profiles.source
                              /\ v.paid = meta.profiles.source
      /\ \A i \in Active : \E v \in BuiltRows : v.serving = meta.serving /\ v.input = i
  <2>1. \A v \in BuiltRows : /\ v.serving = meta.serving /\ v.source = meta.profiles.source
                            /\ v.paid = meta.profiles.source
    BY <1>2 DEF BuiltRows
  <2>2. ASSUME NEW i \in Active
        PROVE  \E v \in BuiltRows : v.serving = meta.serving /\ v.input = i
    <3> DEFINE row == [serving |-> meta.serving, input |-> i, source |-> meta.profiles.source,
                        paid |-> build.source]
    <3>1. row \in BuiltRows
      BY <1>2 DEF BuiltRows
    <3>2. row.serving = meta.serving /\ row.input = i
      OBVIOUS
    <3> QED
      BY <3>1, <3>2
  <2> QED
    BY <2>1, <2>2
<1>4. Lineage'
  BY <1>1, <1>3 DEF IInv, Shape, Lineage
<1>5. \A i \in Active : \E v \in vectors' : v.serving = meta.serving /\ v.input = i
  BY <1>1, <1>3
<1> QED
  BY <1>4, <1>5, WriterKeeps DEF PublishMaterializedVectors, catalogVars

LEMMA BookkeepingStep ==
  ASSUME IInv, StartBuild \/ BuildFails \/ UNCHANGED hybridVars
  PROVE  IInv'
<1>1. UNCHANGED <<meta, files, segments, vectors, resolved, searchVars>>
  BY DEF StartBuild, BuildFails, hybridVars, catalogVars
<1>2. Lineage'
  BY <1>1 DEF IInv, Lineage
<1> QED
  BY <1>1, <1>2, WriterKeeps

(* A new generation is newer than every one a search has seen.             *)
LEMMA ReindexStep ==
  ASSUME IInv, Reindex
  PROVE  IInv'
<1>1. PICK cfg \in Desired : \E table \in Indexable(cfg) \cap TablesFound : InstallAs(cfg, table)
  BY DEF Reindex
<1>2. /\ meta'.generation = meta.generation + 1
      /\ meta'.profiles = cfg /\ meta'.serving = cfg.storage
  BY <1>1 DEF InstallAs
<1>3. UNCHANGED <<vectors, resolved, step, seen, query, answer>>
  BY DEF Reindex, searchVars
<1>4. Shape' /\ Lineage'
  BY <1>2, <1>3 DEF IInv, Shape, Lineage, Desired
<1>5. OwnQuery'
  BY <1>3, SearchKept
<1>6. SeenStands'
  BY <1>2, <1>3 DEF IInv, Shape, SeenStands
<1> QED
  BY <1>4, <1>5, <1>6 DEF IInv

LEMMA Initially ==
  ASSUME HybridInit
  PROVE  IInv
<1>1. Shape
  BY ConfigsAssumption DEF HybridInit, CatalogInit, Shape, Desired
<1>2. Lineage /\ SeenStands
  BY DEF HybridInit, Lineage, SeenStands
<1>3. OwnQuery
  BY DEF HybridInit, OwnQuery, SameSpace, NoAnswer, Waiting
<1> QED
  BY <1>1, <1>2, <1>3 DEF IInv

LEMMA Inductive ==
  ASSUME IInv, [HybridNext]_hybridVars
  PROVE  IInv'
<1>1. CASE Search
  BY <1>1, CallStep, PreflightStep, QueryStep, LexicalStep, HybridStep, FailStep DEF Search
<1> QED
  BY <1>1, ReindexStep, EmbedStep, BuildStep, BookkeepingStep DEF HybridNext

(* The store and the search agree, whoever writes between its two reads.   *)
THEOREM Invariance == HybridSpec => []IInv
<1>1. HybridInit => IInv
  BY Initially
<1>2. IInv /\ [HybridNext]_hybridVars => IInv'
  BY Inductive
<1> QED
  BY <1>1, <1>2, PTL DEF HybridSpec

(* The query vector meets only vectors paid under its own source.          *)
THEOREM ComparedInOneSpace == HybridSpec => []SameSpace
<1>1. IInv => SameSpace
  BY DEF IInv, OwnQuery
<1> QED
  BY <1>1, Invariance, PTL

(* No course of legal writes makes a search call the store damaged.        *)
THEOREM NeverFalselyAlarmed == HybridSpec => []NoFalseAlarm
<1>1. IInv => NoFalseAlarm
  BY DEF IInv, OwnQuery, NoFalseAlarm
<1> QED
  BY <1>1, Invariance, PTL

(* What a step that answers from a paid query says of the generation.      *)
LEMMA PaidQueryStep ==
  ASSUME IInv, [HybridNext]_hybridVars
  PROVE  [step = "hybrid" /\ answer'.reason # "" => answer'.generation > seen.generation]_hybridVars
<1>1. ASSUME ~UNCHANGED hybridVars, step = "hybrid", answer'.reason # ""
      PROVE  answer'.generation > seen.generation
  <2>1. answer = NoAnswer /\ NoAnswer.reason = ""
    BY <1>1 DEF IInv, OwnQuery, Waiting, NoAnswer
  <2>2. answer' # answer /\ answer' # NoAnswer
    BY <1>1, <2>1
  <2>3. HybridSearch
    BY <1>1, <2>1, <2>2 DEF HybridNext, Search, Call, Preflight, QueryEmbedding, LexicalSearch,
       SearchFails, Reindex, EmbedInput, StartBuild, PublishMaterializedVectors, BuildFails, searchVars
  <2>4. answer'.reason = HybridReason /\ answer'.generation = meta.generation
    BY <2>3 DEF HybridSearch
  <2>5. seen.generation \in Nat /\ seen.generation <= meta.generation /\ meta.generation \in Nat
    BY <1>1 DEF IInv, SeenStands, Shape
  <2>6. seen.generation # meta.generation
    <3>1. ASSUME seen.generation = meta.generation PROVE FALSE
      <4>1. Searchable
        BY <1>1, <3>1 DEF IInv, SeenStands
      <4>2. SnapshotUnchanged
        BY <3>1, <4>1 DEF Searchable, SnapshotUnchanged
      <4>3. ~InvalidVectorRows(resolved.config) /\ ValidRows(resolved.config) # {}
        BY <1>1, <4>1, NoInvalidRows, SomeActiveRow DEF IInv, Searchable
      <4> QED
        BY <1>1, <2>4, <4>2, <4>3 DEF HybridReason
    <3> QED
      BY <3>1
  <2> QED
    BY <2>4, <2>5, <2>6
<1> QED
  BY <1>1

(* A paid query is dropped only for a generation newer than the one the    *)
(* search had seen: embedding runs and vector builds never cost a query.   *)
THEOREM PaidQueryIsUsed == HybridSpec => PaidQueryUsed
  BY PaidQueryStep, Invariance, PTL DEF HybridSpec, PaidQueryUsed

-----------------------------------------------------------------------------
(* The tools.  While nothing was counted, every path the walk is done with *)
(* had its row's content at some moment of the call.                       *)
ToolShape ==
  /\ meta.generation \in Nat /\ worktree \in FileTables /\ server \in Configs
  /\ DOMAIN view = DOMAIN NoView
  /\ view.stale \in Nat /\ view.unindexed \in Nat /\ view.errors \in Nat
  /\ view.live \subseteq Paths /\ view.todo \subseteq view.live

InTurn ==
  /\ call = "idle" => view = NoView
  /\ call # "idle" => reply = NoReply
  /\ call # "walk" => view.stale = 0 /\ view.unindexed = 0 /\ view.errors = 0

SnapshotStands ==
  call \in {"enumerate", "walk"} =>
    /\ view.generation \in Nat /\ view.generation <= meta.generation
    /\ view.generation = meta.generation => view.files = files /\ view.manifest = meta.manifest

StatusCall == call \in {"status", "enumerate", "walk"} /\ ~view.reindex
NothingCounted == view.stale = 0 /\ view.unindexed = 0 /\ view.errors = 0

Witnesses ==
  /\ StatusCall => OnDisk \subseteq witnessed
  /\ StatusCall /\ call = "walk" =>
       /\ \A p \in Enabled[server.index] \ view.live : <<p, Absent>> \in witnessed
       /\ NothingCounted => \A p \in view.live \ view.todo : <<p, view.files[p]>> \in witnessed

ToolInv == ToolShape /\ InTurn /\ SnapshotStands /\ Witnesses

LEMMA NoViewIs ==
  /\ NoView.stale = 0 /\ NoView.unindexed = 0 /\ NoView.errors = 0
  /\ NoView.live = {} /\ NoView.todo = {} /\ ~NoView.reindex
  BY DEF NoView

(* A call that ends forgets, and the invariant asks nothing of the rest.   *)
LEMMA ReplyKeeps ==
  ASSUME ToolInv, NEW r, Reply(r), meta'.generation \in Nat, UNCHANGED <<worktree, server>>
  PROVE  ToolInv'
<1>1. call' = "idle" /\ view' = NoView
  BY DEF Reply
<1>2. ToolShape' /\ InTurn'
  BY <1>1, NoViewIs DEF ToolInv, ToolShape, InTurn
<1>3. SnapshotStands' /\ Witnesses'
  BY <1>1 DEF SnapshotStands, Witnesses, StatusCall
<1> QED
  BY <1>2, <1>3 DEF ToolInv

LEMMA CallToolStep ==
  ASSUME ToolInv, CallTool
  PROVE  ToolInv'
<1>1. /\ call = "idle" /\ view = NoView /\ view' = view
      /\ UNCHANGED <<meta, files, worktree, server>>
  BY DEF ToolInv, InTurn, CallTool, catalogVars
<1>2. /\ call' \in {"idle", "status", "search", "candidate", "reindex"}
      /\ call' # "idle" => reply' = NoReply
      /\ call' = "status" => witnessed' = OnDisk
  <2>1. CASE reply' = Failed("unknown", "invalidParams") /\ UNCHANGED <<call, locator, witnessed>>
    BY <1>1, <2>1
  <2>2. CASE \E tool \in DOMAIN FirstStep :
               /\ call' = FirstStep[tool] /\ reply' = NoReply
               /\ witnessed' = IF tool = "status" THEN OnDisk ELSE {}
    BY <2>2 DEF FirstStep
  <2> QED
    BY <2>1, <2>2 DEF CallTool
<1>3. ToolShape' /\ InTurn'
  BY <1>1, <1>2, NoViewIs DEF ToolInv, ToolShape, InTurn
<1>4. SnapshotStands'
  BY <1>2 DEF SnapshotStands
<1>5. Witnesses'
  BY <1>1, <1>2 DEF Witnesses, StatusCall, OnDisk
<1> QED
  BY <1>3, <1>4, <1>5 DEF ToolInv

LEMMA SnapshotStep ==
  ASSUME ToolInv, StatusSnapshot
  PROVE  ToolInv'
<1>1. /\ call = "status" /\ call' = "enumerate" /\ UNCHANGED <<reply, witnessed>>
      /\ UNCHANGED <<meta, files, worktree, server>>
  BY DEF StatusSnapshot, Step, World, catalogVars
<1>2. view' = [view EXCEPT !.generation = meta.generation, !.manifest = meta.manifest, !.files = files]
  BY DEF StatusSnapshot
<1>3. /\ DOMAIN view' = DOMAIN view
      /\ view'.generation = meta.generation /\ view'.manifest = meta.manifest /\ view'.files = files
      /\ view'.stale = view.stale /\ view'.unindexed = view.unindexed /\ view'.errors = view.errors
      /\ view'.live = view.live /\ view'.todo = view.todo /\ view'.reindex = view.reindex
  BY <1>2 DEF ToolInv, ToolShape, NoView
<1>4. ToolShape' /\ InTurn'
  BY <1>1, <1>3 DEF ToolInv, ToolShape, InTurn
<1>5. SnapshotStands'
  BY <1>1, <1>3 DEF ToolInv, ToolShape, SnapshotStands
<1>6. Witnesses'
  BY <1>1, <1>3 DEF ToolInv, Witnesses, StatusCall, OnDisk
<1> QED
  BY <1>4, <1>5, <1>6 DEF ToolInv

LEMMA EnumerateStep ==
  ASSUME ToolInv, Enumerate
  PROVE  ToolInv'
<1>1. /\ call = "enumerate" /\ call' = "walk" /\ UNCHANGED <<reply, witnessed>>
      /\ UNCHANGED <<meta, files, worktree, server>>
  BY DEF Enumerate, Step, World, catalogVars
<1>2. view' = [view EXCEPT !.todo = Candidates(server), !.live = Candidates(server)]
  BY DEF Enumerate
<1>3. /\ DOMAIN view' = DOMAIN view
      /\ view'.generation = view.generation /\ view'.manifest = view.manifest
      /\ view'.files = view.files /\ view'.reindex = view.reindex
      /\ view'.stale = view.stale /\ view'.unindexed = view.unindexed /\ view'.errors = view.errors
      /\ view'.live = Candidates(server) /\ view'.todo = Candidates(server)
  BY <1>2 DEF ToolInv, ToolShape, NoView
<1>4. Candidates(server) \subseteq Paths /\ Enabled[server.index] \subseteq Paths
  BY EnabledAssumption DEF ToolInv, ToolShape, Candidates
<1>5. ToolShape' /\ InTurn'
  BY <1>1, <1>3, <1>4 DEF ToolInv, ToolShape, InTurn
<1>6. SnapshotStands'
  BY <1>1, <1>3 DEF ToolInv, SnapshotStands
<1>7. Witnesses'
  <2>1. SUFFICES ASSUME StatusCall' PROVE Witnesses'
    BY DEF Witnesses
  <2>2. OnDisk \subseteq witnessed /\ OnDisk' = OnDisk /\ witnessed' = witnessed
    BY <1>1, <1>3, <2>1 DEF ToolInv, Witnesses, StatusCall, OnDisk
  <2>3. ASSUME NEW p \in Enabled[server.index] \ Candidates(server)
        PROVE  <<p, Absent>> \in witnessed
    BY <1>4, <2>2, <2>3 DEF Candidates, OnDisk
  <2> QED
    BY <1>1, <1>3, <2>2, <2>3 DEF Witnesses
<1> QED
  BY <1>5, <1>6, <1>7 DEF ToolInv

LEMMA VisitStep ==
  ASSUME ToolInv, VisitFile
  PROVE  ToolInv'
<1>1. /\ call = "walk" /\ call' = "walk" /\ UNCHANGED <<reply, witnessed>>
      /\ UNCHANGED <<meta, files, worktree, server>>
  BY DEF VisitFile, Step, World, catalogVars
<1>2. PICK p \in view.todo :
        view' = [view EXCEPT !.todo = @ \ {p},
                   !.unindexed = IF view.files[p] = Absent THEN @ + 1 ELSE @,
                   !.errors = IF view.files[p] # Absent /\ worktree[p] = Absent THEN @ + 1 ELSE @,
                   !.stale = IF Absent \notin {view.files[p], worktree[p]} /\ worktree[p] # view.files[p]
                             THEN @ + 1 ELSE @]
  BY DEF VisitFile
<1>3. /\ DOMAIN view' = DOMAIN view
      /\ view'.generation = view.generation /\ view'.manifest = view.manifest
      /\ view'.files = view.files /\ view'.reindex = view.reindex
      /\ view'.live = view.live /\ view'.todo = view.todo \ {p}
      /\ view'.unindexed = IF view.files[p] = Absent THEN view.unindexed + 1 ELSE view.unindexed
      /\ view'.errors = IF view.files[p] # Absent /\ worktree[p] = Absent
                        THEN view.errors + 1 ELSE view.errors
      /\ view'.stale = IF Absent \notin {view.files[p], worktree[p]} /\ worktree[p] # view.files[p]
                       THEN view.stale + 1 ELSE view.stale
  BY <1>2 DEF ToolInv, ToolShape, NoView
<1>4. ToolShape' /\ InTurn'
  BY <1>1, <1>3 DEF ToolInv, ToolShape, InTurn
<1>5. SnapshotStands'
  BY <1>1, <1>3 DEF ToolInv, SnapshotStands
<1>6. ASSUME StatusCall', NothingCounted'
      PROVE  NothingCounted /\ <<p, view.files[p]>> \in witnessed
  <2>1. view.stale \in Nat /\ view.unindexed \in Nat /\ view.errors \in Nat
    BY DEF ToolInv, ToolShape
  <2>2. view.files[p] # Absent /\ worktree[p] # Absent /\ worktree[p] = view.files[p]
    BY <1>3, <1>6, <2>1 DEF NothingCounted
  <2>3. <<p, worktree[p]>> \in OnDisk
    BY <1>2 DEF ToolInv, ToolShape, OnDisk
  <2>4. OnDisk \subseteq witnessed
    BY <1>1, <1>3, <1>6 DEF ToolInv, Witnesses, StatusCall
  <2>5. NothingCounted
    BY <1>3, <1>6, <2>2 DEF NothingCounted
  <2> QED
    BY <2>2, <2>3, <2>4, <2>5
<1>7. Witnesses'
  BY <1>1, <1>3, <1>6 DEF ToolInv, Witnesses, StatusCall, OnDisk
<1> QED
  BY <1>4, <1>5, <1>7 DEF ToolInv

(* A step between two places of no status, with what it collected so far.  *)
Elsewhere == {"search", "source", "candidate", "span", "reindex"}

LEMMA MoveKeeps ==
  ASSUME ToolInv, call \in Elsewhere, call' \in Elsewhere, UNCHANGED <<reply, witnessed, view>>,
         UNCHANGED <<meta, files, worktree, server>>
  PROVE  ToolInv'
<1>1. ToolShape' /\ InTurn'
  BY DEF ToolInv, ToolShape, InTurn, Elsewhere
<1>2. SnapshotStands' /\ Witnesses'
  BY DEF SnapshotStands, Witnesses, StatusCall, Elsewhere
<1> QED
  BY <1>1, <1>2 DEF ToolInv

LEMMA ReindexToolStep ==
  ASSUME ToolInv, ReindexTool
  PROVE  ToolInv'
<1>1. call = "reindex" /\ UNCHANGED <<worktree, server>>
  BY DEF ReindexTool
<1>2. meta'.generation \in Nat
  BY DEF ToolInv, ToolShape, ReindexTool, InstallAs, catalogVars
<1>3. CASE Reply(Answer("reindex"))
  BY <1>1, <1>2, <1>3, ReplyKeeps
<1>4. CASE /\ Step("status")
           /\ \/ view' = [view EXCEPT !.reindex = TRUE]
              \/ view' = [view EXCEPT !.reindex = TRUE, !.activated = meta.generation + 1]
  <2>1. call' = "status" /\ UNCHANGED <<reply, witnessed>>
    BY <1>4 DEF Step
  <2>2. /\ DOMAIN view' = DOMAIN view /\ view'.reindex
        /\ view'.stale = view.stale /\ view'.unindexed = view.unindexed /\ view'.errors = view.errors
        /\ view'.live = view.live /\ view'.todo = view.todo
    BY <1>4 DEF ToolInv, ToolShape, NoView
  <2>3. ToolShape' /\ InTurn'
    BY <1>1, <1>2, <2>1, <2>2 DEF ToolInv, ToolShape, InTurn
  <2>4. SnapshotStands' /\ Witnesses'
    BY <2>1, <2>2 DEF SnapshotStands, Witnesses, StatusCall
  <2> QED
    BY <2>3, <2>4 DEF ToolInv
<1> QED
  BY <1>3, <1>4 DEF ReindexTool

LEMMA EditStep ==
  ASSUME ToolInv, Edit
  PROVE  ToolInv'
<1>1. UNCHANGED <<meta, files, server, call, view, reply>>
  BY DEF Edit, Calls, catalogVars
<1>2. PICK p \in Paths, c \in Contents \cup {Absent} :
        /\ worktree' = [worktree EXCEPT ![p] = c]
        /\ witnessed' = IF witnessed = {} THEN {} ELSE witnessed \cup {<<p, c>>}
  BY DEF Edit
<1>3. worktree' \in FileTables
  BY <1>2 DEF ToolInv, ToolShape, FileTables
<1>4. ToolShape' /\ InTurn' /\ SnapshotStands'
  BY <1>1, <1>3 DEF ToolInv, ToolShape, InTurn, SnapshotStands
<1>5. ASSUME StatusCall PROVE OnDisk' \subseteq witnessed' /\ witnessed \subseteq witnessed'
  <2>1. OnDisk \subseteq witnessed
    BY <1>5 DEF ToolInv, Witnesses
  <2>2. <<p, worktree[p]>> \in witnessed
    BY <2>1 DEF OnDisk
  <2>3. witnessed' = witnessed \cup {<<p, c>>}
    BY <1>2, <2>2
  <2>4. ASSUME NEW q \in Paths PROVE <<q, worktree'[q]>> \in witnessed'
    <3>1. worktree'[q] = (IF q = p THEN c ELSE worktree[q])
      BY <1>2 DEF ToolInv, ToolShape, FileTables
    <3>2. <<q, worktree[q]>> \in witnessed
      BY <2>1 DEF OnDisk
    <3> QED
      BY <2>3, <3>1, <3>2
  <2> QED
    BY <2>3, <2>4 DEF OnDisk
<1>6. Witnesses'
  BY <1>1, <1>5 DEF ToolInv, Witnesses, StatusCall, NothingCounted
<1> QED
  BY <1>4, <1>6 DEF ToolInv

LEMMA IndexElsewhereStep ==
  ASSUME ToolInv, IndexElsewhere
  PROVE  ToolInv'
<1>1. UNCHANGED <<worktree, witnessed, server, call, view, reply>>
  BY DEF IndexElsewhere, Calls
<1>2. meta'.generation = meta.generation + 1
  BY DEF IndexElsewhere, InstallAs
<1>3. ToolShape' /\ InTurn'
  BY <1>1, <1>2 DEF ToolInv, ToolShape, InTurn
<1>4. SnapshotStands'
  BY <1>1, <1>2 DEF ToolInv, ToolShape, SnapshotStands
<1>5. Witnesses'
  BY <1>1 DEF ToolInv, Witnesses, StatusCall, OnDisk, NothingCounted
<1> QED
  BY <1>3, <1>4, <1>5 DEF ToolInv

LEMMA ToolInitially ==
  ASSUME ToolInit
  PROVE  ToolInv
<1>1. /\ call = "idle" /\ view = NoView /\ worktree \in FileTables /\ server \in Configs
  BY ToolAssumption DEF ToolInit, Desired
<1>2. meta.generation \in Nat
  BY DEF ToolInit, CatalogInit
<1>3. ToolShape /\ InTurn
  BY <1>1, <1>2, NoViewIs DEF ToolShape, InTurn
<1>4. SnapshotStands /\ Witnesses
  BY <1>1 DEF SnapshotStands, Witnesses, StatusCall
<1> QED
  BY <1>3, <1>4 DEF ToolInv

LEMMA ToolInductive ==
  ASSUME ToolInv, [ToolNext]_<<catalogVars, toolVars>>
  PROVE  ToolInv'
<1>1. CASE CallTool
  BY <1>1, CallToolStep
<1>2. CASE StatusSnapshot \/ Enumerate \/ VisitFile
  BY <1>2, SnapshotStep, EnumerateStep, VisitStep
<1>3. CASE CompareGeneration \/ ObserveSource \/ ReadSpan \/ CallFails
  <2>1. (\E r : Reply(r)) /\ UNCHANGED <<meta, worktree, server>>
    BY <1>3 DEF CompareGeneration, ObserveSource, ReadSpan, CallFails, World, catalogVars
  <2> QED
    BY <2>1, ReplyKeeps DEF ToolInv, ToolShape
<1>4. CASE SearchFinds \/ IndexedCandidate
  <2>1. UNCHANGED <<meta, files, worktree, server>>
    BY <1>4 DEF SearchFinds, IndexedCandidate, World, catalogVars
  <2>2. \/ \E r : Reply(r)
        \/ /\ call \in Elsewhere /\ call' \in Elsewhere
           /\ UNCHANGED <<reply, witnessed, view>>
    BY <1>4 DEF SearchFinds, IndexedCandidate, Step, Elsewhere
  <2> QED
    BY <2>1, <2>2, ReplyKeeps, MoveKeeps DEF ToolInv, ToolShape
<1>5. CASE ReindexTool \/ Edit \/ IndexElsewhere
  BY <1>5, ReindexToolStep, EditStep, IndexElsewhereStep
<1>6. CASE UNCHANGED <<catalogVars, toolVars>>
  <2>1. UNCHANGED <<meta, files, worktree, server, call, view, reply, witnessed>>
    BY <1>6 DEF catalogVars, toolVars
  <2> QED
    BY <2>1 DEF ToolInv, ToolShape, InTurn, SnapshotStands, Witnesses, StatusCall, OnDisk, NothingCounted
<1> QED
  BY <1>1, <1>2, <1>3, <1>4, <1>5, <1>6 DEF ToolNext

(* Only the last step of a status answers with one.                        *)
LEMMA StatusReplies ==
  ASSUME ToolInv, ToolNext, reply'.tool = "status", call # "idle"
  PROVE  /\ call = "walk" /\ view.todo = {} /\ ~view.reindex
         /\ reply'.manifest = view.manifest
         /\ reply'.clean = Clean /\ reply'.changed = GenerationChanged
<1>1. reply = NoReply /\ NoReply.tool = "none"
  BY DEF ToolInv, InTurn, NoReply
<1>2. /\ Answer("search").tool = "search" /\ Answer("reindex").tool = "reindex"
      /\ \A state : [Answer("search") EXCEPT !.state = state].tool = "search"
      /\ \A code : Failed("read_span", code).tool = "read_span" /\ Failed("any", code).tool = "any"
  BY DEF Answer, Failed, NoReply
<1>3. CompareGeneration
  BY <1>1, <1>2 DEF ToolNext, CallTool, StatusSnapshot, Enumerate, VisitFile, SearchFinds,
     ObserveSource, IndexedCandidate, ReadSpan, ReindexTool, CallFails, Edit, IndexElsewhere,
     Step, Reply, Calls
<1> DEFINE status == [Answer("status") EXCEPT !.manifest = view.manifest, !.clean = Clean,
                                              !.changed = GenerationChanged]
           reindex == [Answer("reindex") EXCEPT !.activated = view.activated, !.manifest = view.manifest]
<1>4. reply' = IF view.reindex THEN reindex ELSE status
  BY <1>3 DEF CompareGeneration, Reply
<1>5. reindex.tool = "reindex"
  BY DEF Answer, NoReply
<1>6. status.manifest = view.manifest /\ status.clean = Clean /\ status.changed = GenerationChanged
  BY DEF Answer, NoReply
<1>7. ~view.reindex /\ reply' = status
  BY <1>4, <1>5
<1> QED
  BY <1>3, <1>6, <1>7 DEF CompareGeneration

LEMMA NothingAdded ==
  ASSUME NEW a \in Nat, NEW b \in Nat, NEW c \in Nat, NEW d \in Nat, a + b + c + d = 0
  PROVE  a = 0 /\ b = 0 /\ c = 0 /\ d = 0
  OBVIOUS

(* What a step that replies to a clean status says of the index.           *)
LEMMA CleanStatusStep ==
  ASSUME ToolInv, [ToolNext]_<<catalogVars, toolVars>>
  PROVE  [reply'.tool = "status" /\ call # "idle" /\ reply'.clean /\ ~reply'.changed =>
            /\ reply'.manifest = meta.manifest
            /\ \A p \in Enabled[server.index] : <<p, files[p]>> \in witnessed]_<<catalogVars, toolVars>>
<1>1. ASSUME ToolNext, reply'.tool = "status", call # "idle", reply'.clean, ~reply'.changed
      PROVE  /\ reply'.manifest = meta.manifest
             /\ \A p \in Enabled[server.index] : <<p, files[p]>> \in witnessed
  <2>1. /\ call = "walk" /\ view.todo = {} /\ ~view.reindex /\ Clean /\ ~GenerationChanged
        /\ reply'.manifest = view.manifest
    BY <1>1, StatusReplies
  <2>2. view.files = files /\ view.manifest = meta.manifest
    BY <1>1, <2>1 DEF ToolInv, SnapshotStands, GenerationChanged
  <2>3. NothingCounted /\ Deleted = {}
    <3>1. IsFiniteSet(Deleted)
      BY FiniteAssumption, FS_Subset DEF Deleted
    <3>2. Cardinality(Deleted) \in Nat /\ (Cardinality(Deleted) = 0 <=> Deleted = {})
      BY <3>1, FS_CardinalityType, FS_EmptySet
    <3>3. view.stale \in Nat /\ view.unindexed \in Nat /\ view.errors \in Nat
      BY <1>1 DEF ToolInv, ToolShape
    <3> HIDE DEF Deleted
    <3>4. view.stale + view.unindexed + view.errors + Cardinality(Deleted) = 0
      BY <2>1 DEF Clean
    <3>5. view.stale = 0 /\ view.unindexed = 0 /\ view.errors = 0 /\ Cardinality(Deleted) = 0
      BY <3>2, <3>3, <3>4, NothingAdded
    <3> QED
      BY <3>2, <3>5 DEF NothingCounted
  <2>4. ASSUME NEW p \in Enabled[server.index] PROVE <<p, files[p]>> \in witnessed
    <3>1. CASE p \in view.live
      BY <1>1, <2>1, <2>2, <2>3, <3>1 DEF ToolInv, Witnesses, StatusCall
    <3>2. CASE p \notin view.live
      <4>1. p \in Paths
        BY <1>1, EnabledAssumption DEF ToolInv, ToolShape
      <4>2. files[p] = Absent
        BY <2>2, <2>3, <3>2, <4>1 DEF Deleted
      <4> QED
        BY <1>1, <2>1, <3>2, <4>2 DEF ToolInv, Witnesses, StatusCall
    <3> QED
      BY <3>1, <3>2
  <2> QED
    BY <2>1, <2>2, <2>4
<1> QED
  BY <1>1

(* Whoever edits and indexes while it walks, a clean status is true of the *)
(* index there is when it answers.                                         *)
THEOREM CleanIsTrue == ToolSpec => CleanStatusIsTrue
<1>1. ToolSpec => []ToolInv
  BY ToolInitially, ToolInductive, PTL DEF ToolSpec
<1> QED
  BY <1>1, CleanStatusStep, PTL DEF ToolSpec, CleanStatusIsTrue

-----------------------------------------------------------------------------
(***************************************************************************)
(* Ranking.  For any chunks, queries, anchors, scores and limits.          *)
(*                                                                         *)
(* Keys of one length are in a strict linear order, so Ordered lists every *)
(* element once and a cut keeps what comes first.                          *)
(***************************************************************************)

Keys(n) == [1..n -> Int]

(* The order of the keys is strict, transitive and total.                  *)
LEMMA LowerIrreflexive ==
  ASSUME NEW n \in Nat, NEW a \in Keys(n)
  PROVE  ~Lower(a, a)
BY DEF Keys, Lower

LEMMA LowerTransitive ==
  ASSUME NEW n \in Nat, NEW a \in Keys(n), NEW b \in Keys(n), NEW c \in Keys(n), Lower(a, b), Lower(b, c)
  PROVE  Lower(a, c)
<1>1. PICK i \in 1..n : a[i] < b[i] /\ \A j \in 1..(i - 1) : a[j] = b[j]
  BY DEF Lower, Keys
<1>2. PICK k \in 1..n : b[k] < c[k] /\ \A j \in 1..(k - 1) : b[j] = c[j]
  BY DEF Lower, Keys
<1>3. CASE i <= k
  <2>1. a[i] < c[i]
    BY <1>1, <1>2, <1>3 DEF Keys
  <2>2. \A j \in 1..(i - 1) : a[j] = c[j]
    BY <1>1, <1>2, <1>3 DEF Keys
  <2> QED
    BY <2>1, <2>2 DEF Lower, Keys
<1>4. CASE k < i
  <2>1. a[k] < c[k]
    BY <1>1, <1>2, <1>4 DEF Keys
  <2>2. \A j \in 1..(k - 1) : a[j] = c[j]
    BY <1>1, <1>2, <1>4 DEF Keys
  <2> QED
    BY <2>1, <2>2 DEF Lower, Keys
<1> QED
  BY <1>3, <1>4

(* Two keys that differ are apart at the first place where they do.        *)
LEMMA LowerTotal ==
  ASSUME NEW n \in Nat, NEW a \in Keys(n), NEW b \in Keys(n), a # b
  PROVE  Lower(a, b) \/ Lower(b, a)
<1> DEFINE T == {i \in 1..n : a[i] # b[i]}
<1>1. T # {}
  BY DEF Keys
<1>2. PICK i \in T : \A j \in T : i <= j
  <2>1. T \in SUBSET Nat
    OBVIOUS
  <2> HIDE DEF T
  <2> QED
    BY <1>1, <2>1, LeastNumber
<1>3. \A j \in 1..(i - 1) : a[j] = b[j]
  BY <1>2
<1>4. a[i] < b[i] \/ b[i] < a[i]
  BY <1>2 DEF Keys
<1> QED
  BY <1>2, <1>3, <1>4 DEF Lower, Keys

(* What sets a set apart into a line: keys of one length, no two equal.    *)
Keyed(S, key, n) ==
  /\ IsFiniteSet(S) /\ n \in Nat
  /\ \A x \in S : key[x] \in Keys(n)
  /\ \A x, y \in S : key[x] = key[y] => x = y

LowerThan(S, key) == [x \in S |-> {y \in S : Lower(key[y], key[x])}]

(* Elements with keys of their own are in a line.                          *)
LEMMA KeyedIsLinear ==
  ASSUME NEW S, NEW key, NEW n, Keyed(S, key, n)
  PROVE  LinearOn(S, LowerThan(S, key))
<1> USE DEF Keyed
<1> DEFINE behind == LowerThan(S, key)
<1>1. behind \in [S -> SUBSET S] /\ \A x, y \in S : y \in behind[x] <=> Lower(key[y], key[x])
  BY DEF LowerThan
<1> HIDE DEF behind
<1>2. \A x \in S : x \notin behind[x]
  BY <1>1, LowerIrreflexive
<1>3. \A x, y \in S : x # y => x \in behind[y] \/ y \in behind[x]
  BY <1>1, LowerTotal
<1>4. ASSUME NEW x \in S, NEW y \in S, x \in behind[y], NEW z \in behind[x]
      PROVE  z \in behind[y]
  <2>1. z \in S /\ Lower(key[z], key[x]) /\ Lower(key[x], key[y])
    BY <1>1, <1>4
  <2> QED
    BY <2>1, <1>1, LowerTransitive
<1> QED
  BY <1>1, <1>2, <1>3, <1>4 DEF LinearOn, behind

(* Ordered lists every element once, in the order of the keys.             *)
LEMMA OrderedSorts ==
  ASSUME NEW S, NEW key, NEW n, Keyed(S, key, n)
  PROVE  /\ Cardinality(S) \in Nat
         /\ Ordered(S, key) \in [1..Cardinality(S) -> S]
         /\ \A x \in S : \E i \in 1..Cardinality(S) : Ordered(S, key)[i] = x
         /\ \A i \in 1..Cardinality(S) : Cardinality(LowerThan(S, key)[Ordered(S, key)[i]]) = i - 1
         /\ \A i, j \in 1..Cardinality(S) :
              Lower(key[Ordered(S, key)[i]], key[Ordered(S, key)[j]]) <=> i < j
<1> DEFINE N == Cardinality(S)
           behind == LowerThan(S, key)
           o == Ordered(S, key)
<1>1. IsFiniteSet(S) /\ N \in Nat
  BY FS_CardinalityType DEF Keyed
<1>2. LinearOn(S, behind)
  BY KeyedIsLinear
<1>3. /\ \A x \in S : IsFiniteSet(behind[x]) /\ Cardinality(behind[x]) \in 0..(N - 1)
      /\ \A x, y \in S : x \in behind[y] <=> Cardinality(behind[x]) < Cardinality(behind[y])
      /\ \A x, y \in S : Cardinality(behind[x]) = Cardinality(behind[y]) => x = y
  <2> HIDE DEF behind
  <2> QED
    BY <1>1, <1>2, PlacesDiffer
<1>4. \A k \in 0..(N - 1) : \E x \in S : Cardinality(behind[x]) = k
  <2> HIDE DEF behind
  <2> QED
    BY <1>1, <1>2, PlacesTaken
<1>5. \A x, y \in S : y \in behind[x] <=> Lower(key[y], key[x])
  BY DEF LowerThan
<1> DEFINE before(x) == {y \in S : Lower(key[y], key[x])}
<1>6. \A x \in S : behind[x] = before(x)
  BY DEF LowerThan
<1> HIDE DEF behind, o, N
<1>7. ASSUME NEW i \in 1..N
      PROVE  o[i] \in S /\ Cardinality(behind[o[i]]) = i - 1
  <2>1. i - 1 \in 0..(N - 1)
    BY <1>1
  <2>2. PICK x \in S : Cardinality(behind[x]) = i - 1
    BY <2>1, <1>4
  <2>3. o[i] = CHOOSE z \in S : Cardinality(before(z)) = i - 1
    BY DEF o, N, Ordered
  <2>4. Cardinality(before(x)) = i - 1
    BY <1>6, <2>2
  <2> HIDE DEF before
  <2>5. o[i] \in S /\ Cardinality(before(o[i])) = i - 1
    BY <2>3, <2>4
  <2> QED
    BY <1>6, <2>5
<1>8. o \in [1..N -> S]
  <2>1. DOMAIN o = 1..N /\ o = [i \in 1..N |-> o[i]]
    BY DEF o, N, Ordered
  <2> QED
    BY <2>1, <1>7
<1>9. ASSUME NEW x \in S PROVE \E i \in 1..N : o[i] = x
  <2>1. Cardinality(behind[x]) + 1 \in 1..N
    BY <1>1, <1>3
  <2> QED
    BY <2>1, <1>3, <1>7
<1>10. ASSUME NEW i \in 1..N, NEW j \in 1..N PROVE Lower(key[o[i]], key[o[j]]) <=> i < j
  BY <1>1, <1>3, <1>5, <1>7
<1> QED
  BY <1>1, <1>7, <1>8, <1>9, <1>10 DEF N, o, behind

(* The first k of them.  Whatever was cut comes after all that was kept,   *)
(* and no more than i - 1 elements come before the i-th.                   *)
Top(t, S, key, k) ==
  /\ Len(t) \in 0..k /\ t \in [1..Len(t) -> S]
  /\ \A i, j \in 1..Len(t) : Lower(key[t[i]], key[t[j]]) <=> i < j
  /\ \A i, j \in 1..Len(t) : t[i] = t[j] => i = j
  /\ \A x \in S : x \in ToSet(t) \/ (Len(t) = k /\ \A i \in 1..Len(t) : Lower(key[t[i]], key[x]))
  /\ \A i \in 1..Len(t) : \A T \in SUBSET S :
       (\A x \in T : Lower(key[x], key[t[i]])) => Cardinality(T) < i
  /\ k <= Cardinality(S) => Len(t) = k

LEMMA CutKeepsTop ==
  ASSUME NEW S, NEW key, NEW n, Keyed(S, key, n), NEW k \in Nat
  PROVE  Top(UpTo(k, Ordered(S, key)), S, key, k)
<1> DEFINE o == Ordered(S, key)
           N == Cardinality(S)
           m == IF N < k THEN N ELSE k
           t == UpTo(k, o)
<1>1. /\ N \in Nat
      /\ o \in [1..N -> S]
      /\ \A x \in S : \E i \in 1..N : o[i] = x
      /\ \A i \in 1..N : Cardinality(LowerThan(S, key)[o[i]]) = i - 1
      /\ \A i, j \in 1..N : Lower(key[o[i]], key[o[j]]) <=> i < j
  BY OrderedSorts
<1> HIDE DEF o, N
<1>2. o \in Seq(S) /\ Len(o) = N
  BY <1>1, IsASeq, LenProperties
<1>3. m \in 0..N /\ m \in 0..k
  BY <1>1
<1>4. t = SubSeq(o, 1, m)
  BY <1>2 DEF UpTo
<1> HIDE DEF t, m
<1>5. t = [i \in 1..m |-> o[i]]
  BY <1>2, <1>3, <1>4, SubSeqProperties
<1>6. Len(t) = m /\ t \in [1..m -> S] /\ \A i \in 1..m : t[i] = o[i] /\ i \in 1..N
  BY <1>1, <1>3, <1>5, IsASeq, LenProperties
<1>7. \A i, j \in 1..m : Lower(key[t[i]], key[t[j]]) <=> i < j
  BY <1>1, <1>6
<1>8. ASSUME NEW x \in S, x \notin ToSet(t)
      PROVE  m = k /\ \A i \in 1..m : Lower(key[t[i]], key[x])
  <2>1. PICK j \in 1..N : o[j] = x
    BY <1>1
  <2>2. j \notin 1..m
    BY <1>6, <1>8, <2>1 DEF ToSet
  <2>3. m = k
    BY <1>1, <1>3, <2>1, <2>2 DEF m
  <2>4. ASSUME NEW i \in 1..m PROVE Lower(key[t[i]], key[x])
    <3>1. i < j /\ i \in 1..N /\ t[i] = o[i]
      BY <1>3, <1>6, <2>2
    <3> QED
      BY <1>1, <2>1, <3>1
  <2> QED
    BY <2>3, <2>4
<1>9. ASSUME NEW i \in 1..m, NEW T \in SUBSET S, \A x \in T : Lower(key[x], key[t[i]])
      PROVE  Cardinality(T) < i
  <2> DEFINE before == LowerThan(S, key)[o[i]]
  <2>1. i \in 1..N /\ t[i] = o[i] /\ o[i] \in S /\ Cardinality(before) = i - 1
    BY <1>1, <1>6
  <2>2. before = {y \in S : Lower(key[y], key[o[i]])}
    BY <2>1 DEF LowerThan
  <2>3. T \in SUBSET before
    BY <1>9, <2>1, <2>2
  <2>4. IsFiniteSet(before)
    BY <2>2, FS_Subset DEF Keyed
  <2> HIDE DEF before
  <2>5. Cardinality(T) <= Cardinality(before) /\ Cardinality(T) \in Nat
    BY <2>3, <2>4, FS_Subset, FS_CardinalityType
  <2> QED
    BY <2>1, <2>5
<1>10. \A i, j \in 1..m : t[i] = t[j] => i = j
  <2>1. ASSUME NEW i \in 1..m, NEW j \in 1..m, t[i] = t[j] PROVE ~(i < j)
    <3>1. ~Lower(key[t[i]], key[t[i]])
      BY <1>6, LowerIrreflexive DEF Keyed
    <3> QED
      BY <2>1, <3>1, <1>7
  <2> QED
    BY <2>1
<1>11. k <= N => m = k
  BY <1>1 DEF m
<1>12. m \in 0..k
  BY <1>3
<1>13. Len(t) = m /\ t \in [1..Len(t) -> S]
  BY <1>6
<1>14. \A x \in S : x \in ToSet(t) \/ (Len(t) = k /\ \A i \in 1..Len(t) : Lower(key[t[i]], key[x]))
  BY <1>8, <1>13
<1>15. \A i \in 1..Len(t) : \A T \in SUBSET S :
         (\A x \in T : Lower(key[x], key[t[i]])) => Cardinality(T) < i
  BY <1>9, <1>13
<1>16. Top(t, S, key, k)
  BY <1>7, <1>10, <1>11, <1>12, <1>13, <1>14, <1>15 DEF Top, N
<1> QED
  BY <1>16 DEF t, o

LEMMA ChunkIs ==
  ASSUME NEW c \in SearchChunks
  PROVE  Chunk(c.id) = c
BY SearchRankingAssumption DEF Chunk

LEMMA KeyedPart ==
  ASSUME NEW S, NEW key, NEW n, Keyed(S, key, n), NEW T \in SUBSET S
  PROVE  Keyed(T, key, n)
BY FS_Subset DEF Keyed

(* The keys of the rows that answer n anchors.                             *)
RowKeys(key, n) ==
  /\ n \in Nat /\ DOMAIN key = 1..n
  /\ \A i \in 1..n, c \in SearchChunks :
       key[i][c] \in Keys(5) /\ key[i][c][1] >= 0 /\ key[i][c][5] = c.id

Found(key, i) == {c \in SearchChunks : key[i][c][1] > 0}
FirstRows(key, i) == UpTo(CandidateK, Ordered(Found(key, i), key[i]))
AnchorRow(anchors, key, i, c) == [id |-> c.id, tier |-> key[i][c][1], place |-> i, anchor |-> anchors[i].norm]
Rows(anchors, key) == UNION {AnchorRows(anchors, key, i) : i \in DOMAIN anchors}
BestRows(anchors, key) == {x \in Rows(anchors, key) : BestRow(Rows(anchors, key), x)}
RowOrder(S) == [x \in S |-> CandidateKey(x)]

(* What the query of one anchor returns.                                   *)
LEMMA FirstRowsTop ==
  ASSUME NEW key, NEW n, RowKeys(key, n), NEW i \in 1..n
  PROVE  Top(FirstRows(key, i), Found(key, i), key[i], CandidateK)
<1>1. CandidateK \in Nat
  BY SearchRankingAssumption
<1>2. IsFiniteSet(Found(key, i))
  BY SearchRankingAssumption, FS_Subset DEF Found
<1>3. Keyed(Found(key, i), key[i], 5)
  BY <1>2, SearchRankingAssumption DEF Keyed, RowKeys, Found
<1> QED
  BY <1>1, <1>3, CutKeepsTop DEF FirstRows

(* The rows of all anchors, each once.                                     *)
LEMMA RowsAre ==
  ASSUME NEW anchors, NEW key, NEW n, DOMAIN anchors = 1..n, RowKeys(key, n)
  PROVE  /\ \A x \in Rows(anchors, key) : \E i \in 1..n, c \in SearchChunks :
              c \in Found(key, i) /\ c \in ToSet(FirstRows(key, i)) /\ x = AnchorRow(anchors, key, i, c)
         /\ \A i \in 1..n : \A c \in ToSet(FirstRows(key, i)) :
              c \in Found(key, i) /\ AnchorRow(anchors, key, i, c) \in Rows(anchors, key)
<1>1. ASSUME NEW i \in 1..n
      PROVE  AnchorRows(anchors, key, i) = {AnchorRow(anchors, key, i, c) : c \in ToSet(FirstRows(key, i))}
  BY DEF AnchorRows, AnchorRow, FirstRows, Found
<1>2. ASSUME NEW i \in 1..n
      PROVE  ToSet(FirstRows(key, i)) \subseteq Found(key, i)
  <2>1. Top(FirstRows(key, i), Found(key, i), key[i], CandidateK)
    BY FirstRowsTop
  <2> QED
    BY <2>1 DEF Top, ToSet
<1>3. Rows(anchors, key) = UNION {AnchorRows(anchors, key, i) : i \in 1..n}
  BY DEF Rows
<1>4. ASSUME NEW x \in Rows(anchors, key)
      PROVE  \E i \in 1..n, c \in SearchChunks :
               c \in Found(key, i) /\ c \in ToSet(FirstRows(key, i)) /\ x = AnchorRow(anchors, key, i, c)
  <2>1. PICK i \in 1..n : x \in AnchorRows(anchors, key, i)
    BY <1>3, <1>4
  <2>2. PICK c \in ToSet(FirstRows(key, i)) : x = AnchorRow(anchors, key, i, c)
    BY <1>1, <2>1
  <2>3. c \in Found(key, i)
    BY <1>2, <2>2
  <2> QED
    BY <2>2, <2>3 DEF Found
<1>5. ASSUME NEW i \in 1..n, NEW c \in ToSet(FirstRows(key, i))
      PROVE  c \in Found(key, i) /\ AnchorRow(anchors, key, i, c) \in Rows(anchors, key)
  BY <1>1, <1>2, <1>3
<1> QED
  BY <1>4, <1>5

LEMMA RowsKeyed ==
  ASSUME NEW anchors, NEW key, NEW n, DOMAIN anchors = 1..n, RowKeys(key, n)
  PROVE  /\ Keyed(Rows(anchors, key), RowOrder(Rows(anchors, key)), 6)
         /\ \A x \in Rows(anchors, key) : x.tier \in Nat \ {0} /\ x.place \in 1..n
<1> DEFINE rows == Rows(anchors, key)
           P == SearchChunks \X (1..n)
           f == [p \in P |-> AnchorRow(anchors, key, p[2], p[1])]
<1>1. \A x \in rows : \E i \in 1..n, c \in SearchChunks : c \in Found(key, i) /\ x = AnchorRow(anchors, key, i, c)
  BY RowsAre
<1>2. IsFiniteSet(rows)
  <2>1. IsFiniteSet(P)
    <3>1. IsFiniteSet(1..n)
      BY FS_Interval DEF RowKeys
    <3> QED
      BY <3>1, SearchRankingAssumption, FS_Product
  <2>2. IsFiniteSet({f[p] : p \in P})
    <3> HIDE DEF P
    <3>1. DOMAIN f = P /\ f = [p \in P |-> f[p]]
      OBVIOUS
    <3> HIDE DEF f
    <3> QED
      BY <2>1, <3>1, Values
  <2>3. \A i \in 1..n, c \in SearchChunks : AnchorRow(anchors, key, i, c) = f[<<c, i>>] /\ <<c, i>> \in P
    OBVIOUS
  <2>4. rows \subseteq {f[p] : p \in P}
    <3> HIDE DEF f, P, rows
    <3>1. ASSUME NEW x \in rows PROVE x \in {f[p] : p \in P}
      <4>1. PICK i \in 1..n, c \in SearchChunks : x = AnchorRow(anchors, key, i, c)
        BY <1>1
      <4> QED
        BY <4>1, <2>3
    <3> QED
      BY <3>1
  <2> HIDE DEF f, P, rows
  <2> QED
    BY <2>2, <2>4, FS_Subset
<1> HIDE DEF rows
<1>3. ASSUME NEW x \in rows
      PROVE  CandidateKey(x) \in Keys(6) /\ x.tier \in Nat \ {0} /\ x.place \in 1..n
               /\ CandidateKey(x)[2] = x.place /\ CandidateKey(x)[6] = x.id
  <2>1. PICK i \in 1..n, c \in SearchChunks : c \in Found(key, i) /\ x = AnchorRow(anchors, key, i, c)
    BY <1>1
  <2>2. c \in SearchChunks /\ x.id = c.id /\ x.place = i /\ x.tier = key[i][c][1] /\ x.tier > 0
    BY <2>1 DEF AnchorRow, Found
  <2>3. x.tier \in Int
    BY <2>2 DEF RowKeys, Keys
  <2>4. Chunk(x.id) = c
    BY <2>2, ChunkIs
  <2>5. {c.id, c.path, c.start, c.qualified.at} \subseteq Nat
    BY <2>2, SearchRankingAssumption DEF ChunkAssumption
  <2>6. CandidateKey(x) = <<x.tier, x.place, c.path, c.qualified.at, c.start, c.id>>
    BY <2>2, <2>4 DEF CandidateKey
  <2>7. i \in Int
    OBVIOUS
  <2> QED
    BY SMTT(30), <2>2, <2>3, <2>5, <2>6, <2>7 DEF Keys
<1>4. ASSUME NEW x \in rows, NEW y \in rows, CandidateKey(x) = CandidateKey(y)
      PROVE  x = y
  <2>1. x.place = y.place /\ x.id = y.id
    BY <1>3, <1>4
  <2>2. PICK i \in 1..n, c \in SearchChunks : c \in Found(key, i) /\ x = AnchorRow(anchors, key, i, c)
    BY <1>1
  <2>3. PICK j \in 1..n, d \in SearchChunks : d \in Found(key, j) /\ y = AnchorRow(anchors, key, j, d)
    BY <1>1
  <2>4. i = j /\ c = d
    BY <2>1, <2>2, <2>3, SearchRankingAssumption DEF AnchorRow, Found
  <2> QED
    BY <2>2, <2>3, <2>4
<1> QED
  BY <1>2, <1>3, <1>4 DEF Keyed, RowOrder, rows

LEMMA LowerFirst ==
  ASSUME NEW n \in Nat, n >= 1, NEW a \in Keys(n), NEW b \in Keys(n), Lower(a, b)
  PROVE  a[1] <= b[1]
<1>1. PICK i \in 1..n : a[i] < b[i] /\ \A j \in 1..(i - 1) : a[j] = b[j]
  BY DEF Lower, Keys
<1>2. CASE i = 1
  BY <1>1, <1>2 DEF Keys
<1>3. CASE i > 1
  <2>1. 1 \in 1..(i - 1)
    BY <1>3
  <2> QED
    BY <1>1, <2>1 DEF Keys
<1> QED
  BY <1>2, <1>3

(* Candidates are ordered by their tier first.                             *)
LEMMA LowerTier ==
  ASSUME NEW x, NEW y, x.tier \in Int, y.tier \in Int, Lower(CandidateKey(x), CandidateKey(y))
  PROVE  x.tier <= y.tier
<1>1. CandidateKey(x)[1] = x.tier /\ CandidateKey(y)[1] = y.tier /\ DOMAIN CandidateKey(x) = 1..6
  BY DEF CandidateKey
<1>2. PICK i \in 1..6 : CandidateKey(x)[i] < CandidateKey(y)[i]
                         /\ \A j \in 1..(i - 1) : CandidateKey(x)[j] = CandidateKey(y)[j]
  BY <1>1 DEF Lower
<1>3. CASE i = 1
  BY <1>1, <1>2, <1>3
<1>4. CASE i > 1
  <2>1. 1 \in 1..(i - 1)
    BY <1>4
  <2> QED
    BY <1>1, <1>2, <2>1
<1> QED
  BY <1>3, <1>4

LEMMA TierLower ==
  ASSUME NEW x, NEW y, x.tier < y.tier
  PROVE  Lower(CandidateKey(x), CandidateKey(y))
<1>1. CandidateKey(x)[1] = x.tier /\ CandidateKey(y)[1] = y.tier /\ DOMAIN CandidateKey(x) = 1..6
  BY DEF CandidateKey
<1> QED
  BY <1>1 DEF Lower

(* Every row has a best one of its chunk.                                  *)
LEMMA BestExists ==
  ASSUME NEW anchors, NEW key, NEW n, DOMAIN anchors = 1..n, RowKeys(key, n),
         NEW x \in Rows(anchors, key)
  PROVE  \E y \in BestRows(anchors, key) : y.id = x.id /\ y.tier <= x.tier
<1> DEFINE rows == Rows(anchors, key)
           same == {y \in rows : y.id = x.id}
           order == RowOrder(rows)
           o == Ordered(same, order)
<1>1. Keyed(rows, order, 6) /\ \A y \in rows : y.tier \in Nat \ {0}
  BY RowsKeyed
<1>2. x \in same /\ same \in SUBSET rows
  OBVIOUS
<1>3. \A y \in rows : order[y] = CandidateKey(y)
  BY DEF RowOrder
<1> HIDE DEF rows, order, o
<1>4. Keyed(same, order, 6)
  <2> HIDE DEF same
  <2> QED
    BY <1>1, <1>2, KeyedPart
<1>5. /\ Cardinality(same) \in Nat
      /\ o \in [1..Cardinality(same) -> same]
      /\ \A y \in same : \E i \in 1..Cardinality(same) : o[i] = y
      /\ \A i, j \in 1..Cardinality(same) : Lower(order[o[i]], order[o[j]]) <=> i < j
  <2> HIDE DEF same
  <2> QED
    BY <1>4, OrderedSorts DEF o
<1>6. 1 \in 1..Cardinality(same) /\ o[1] \in same
  <2>1. PICK i \in 1..Cardinality(same) : o[i] = x
    BY <1>2, <1>5
  <2> QED
    BY <2>1, <1>5
<1>7. ASSUME NEW y \in same PROVE y = o[1] \/ Lower(CandidateKey(o[1]), CandidateKey(y))
  <2>1. PICK i \in 1..Cardinality(same) : o[i] = y
    BY <1>5
  <2>2. CASE i = 1
    BY <2>1, <2>2
  <2>3. CASE i # 1
    <3>1. 1 < i
      BY <2>3, <1>5
    <3>2. Lower(order[o[1]], order[o[i]])
      BY <3>1, <1>5, <1>6
    <3> QED
      BY <3>2, <2>1, <1>3, <1>6
  <2> QED
    BY <2>2, <2>3
<1>8. o[1] \in BestRows(anchors, key)
  BY <1>6, <1>7 DEF BestRows, BestRow, rows
<1>9. o[1].tier <= x.tier
  <2>1. o[1].tier \in Int /\ x.tier \in Int
    BY <1>1, <1>2, <1>6
  <2>2. x = o[1] \/ Lower(CandidateKey(o[1]), CandidateKey(x))
    BY <1>2, <1>7
  <2> QED
    BY <2>1, <2>2, LowerTier
<1> QED
  BY <1>6, <1>8, <1>9

(* A row the limit of its query cut leaves CandidateK chunks with a best   *)
(* row that is no worse.                                                   *)
LEMMA CutLeavesBetter ==
  ASSUME NEW anchors, NEW key, NEW n, DOMAIN anchors = 1..n, RowKeys(key, n),
         NEW i \in 1..n, NEW c \in Found(key, i), c \notin ToSet(FirstRows(key, i))
  PROVE  \E T \in SUBSET BestRows(anchors, key) :
            Cardinality(T) = CandidateK /\ \A y \in T : y.tier <= key[i][c][1]
<1> DEFINE first == FirstRows(key, i)
           K == CandidateK
           best == BestRows(anchors, key)
           t == key[i][c][1]
           good(y, m) == y \in best /\ y.id = first[m].id /\ y.tier <= t
           f == [k \in 1..K |-> CHOOSE y : good(y, k)]
           T == {f[k] : k \in 1..K}
<1>1. Top(first, Found(key, i), key[i], K)
  BY FirstRowsTop
<1>2. /\ Len(first) = K /\ K \in Nat /\ first \in [1..K -> Found(key, i)]
      /\ \A k \in 1..K : Lower(key[i][first[k]], key[i][c])
      /\ \A k, j \in 1..K : first[k] = first[j] => k = j
  <2> HIDE DEF first, K
  <2>1. K \in Nat
    BY SearchRankingAssumption DEF K
  <2>2. c \notin ToSet(first)
    BY DEF first
  <2> QED
    BY <1>1, <2>1, <2>2 DEF Top
<1>3. ASSUME NEW k \in 1..K PROVE \E y : good(y, k)
  <2>1. first[k] \in Found(key, i) /\ first[k] \in SearchChunks /\ c \in SearchChunks
    BY <1>2 DEF Found
  <2>2. key[i][first[k]] \in Keys(5) /\ key[i][c] \in Keys(5)
    BY <2>1 DEF RowKeys
  <2>3. key[i][first[k]][1] <= key[i][c][1]
    BY <1>2, <2>2, LowerFirst
  <2>4. first[k] \in ToSet(first)
    BY <1>2 DEF ToSet
  <2> DEFINE x == AnchorRow(anchors, key, i, first[k])
  <2>5. x \in Rows(anchors, key) /\ x.id = first[k].id /\ x.tier = key[i][first[k]][1]
    BY <2>4, RowsAre DEF AnchorRow
  <2> HIDE DEF x
  <2>6. PICK y \in best : y.id = x.id /\ y.tier <= x.tier
    BY <2>5, BestExists
  <2>7. y.tier \in Int /\ x.tier \in Int /\ t \in Int
    <3>1. \A z \in Rows(anchors, key) : z.tier \in Nat
      BY RowsKeyed
    <3>2. y \in Rows(anchors, key)
      BY DEF BestRows
    <3>3. t \in Int
      BY <2>2 DEF Keys
    <3> QED
      BY <2>5, <3>1, <3>2, <3>3
  <2>8. good(y, k)
    BY <2>3, <2>5, <2>6, <2>7
  <2> QED
    BY <2>8
<1>4. \A k \in 1..K : good(f[k], k)
  <2> HIDE DEF good
  <2> QED
    BY <1>3
<1>5. \A k, j \in 1..K : f[k] = f[j] => k = j
  <2> HIDE DEF f
  <2>1. ASSUME NEW k \in 1..K, NEW j \in 1..K, f[k] = f[j] PROVE k = j
    <3>1. first[k].id = first[j].id
      BY <1>4, <2>1
    <3>2. first[k] \in SearchChunks /\ first[j] \in SearchChunks
      BY <1>2 DEF Found
    <3> QED
      BY <3>1, <3>2, <1>2, SearchRankingAssumption
  <2> QED
    BY <2>1
<1>6. Cardinality(T) = K
  <2>1. IsFiniteSet(1..K) /\ Cardinality(1..K) = K
    <3> HIDE DEF K
    <3> QED
      BY <1>2, FS_Interval
  <2> DEFINE I == 1..K
  <2>2. DOMAIN f = I /\ f = [k \in I |-> f[k]]
    OBVIOUS
  <2>4. IsFiniteSet(I)
    BY <2>1
  <2> HIDE DEF f, I
  <2>3. (\A k, j \in I : f[k] = f[j] => k = j) => Cardinality({f[k] : k \in I}) = Cardinality(I)
    BY <2>2, <2>4, Values
  <2> QED
    BY <1>5, <2>1, <2>3 DEF I
<1>7. T \in SUBSET best /\ \A y \in T : y.tier <= t
  <2> HIDE DEF f, best, t
  <2> QED
    BY <1>4
<1> QED
  BY <1>6, <1>7

(* A lane holds the first of the best rows.                                *)
LEMMA LaneTop ==
  ASSUME NEW anchors, NEW key, NEW n, DOMAIN anchors = 1..n, RowKeys(key, n)
  PROVE  Top(AnchorLane(anchors, key), BestRows(anchors, key), RowOrder(BestRows(anchors, key)), CandidateK)
<1> DEFINE rows == Rows(anchors, key)
           best == BestRows(anchors, key)
<1>1. CandidateK \in Nat
  BY SearchRankingAssumption
<1>2. AnchorLane(anchors, key) = UpTo(CandidateK, Ordered(best, RowOrder(best)))
  BY DEF AnchorLane, BestRows, Rows, RowOrder
<1>3. Keyed(rows, RowOrder(rows), 6)
  BY RowsKeyed
<1>4. best \in SUBSET rows
  BY DEF BestRows
<1>5. \A x \in best : RowOrder(best)[x] = RowOrder(rows)[x]
  BY <1>4 DEF RowOrder
<1> HIDE DEF best, rows
<1>6. Keyed(best, RowOrder(rows), 6)
  BY <1>3, <1>4, KeyedPart
<1>7. Keyed(best, RowOrder(best), 6)
  BY <1>5, <1>6 DEF Keyed
<1>8. Top(UpTo(CandidateK, Ordered(best, RowOrder(best))), best, RowOrder(best), CandidateK)
  BY <1>1, <1>7, CutKeepsTop
<1> QED
  BY <1>2, <1>8 DEF best

(* CandidateK best rows of tier t or better keep every worse row out.      *)
LEMMA FullLane ==
  ASSUME NEW anchors, NEW key, NEW n, DOMAIN anchors = 1..n, RowKeys(key, n),
         NEW t \in Int, NEW T \in SUBSET BestRows(anchors, key),
         Cardinality(T) = CandidateK, \A y \in T : y.tier <= t
  PROVE  /\ Len(AnchorLane(anchors, key)) = CandidateK
         /\ \A i \in 1..CandidateK : AnchorLane(anchors, key)[i].tier <= t
<1> DEFINE best == BestRows(anchors, key)
           lane == AnchorLane(anchors, key)
           K == CandidateK
<1>1. Top(lane, best, RowOrder(best), K)
  BY LaneTop
<1>2. K \in Nat /\ (\A x \in best : x.tier \in Int) /\ IsFiniteSet(best)
  <2>1. K \in Nat
    BY SearchRankingAssumption
  <2>2. Keyed(Rows(anchors, key), RowOrder(Rows(anchors, key)), 6)
    BY RowsKeyed
  <2>3. IsFiniteSet(best)
    BY <2>2, FS_Subset DEF BestRows, Keyed
  <2> QED
    BY <2>1, <2>3, RowsKeyed DEF BestRows
<1>3. Cardinality(best) \in Nat /\ Cardinality(T) <= Cardinality(best)
  <2> HIDE DEF best
  <2> QED
    BY <1>2, FS_Subset, FS_CardinalityType DEF best
<1>4. \A x, y \in best : x.tier < y.tier => Lower(RowOrder(best)[x], RowOrder(best)[y])
  BY TierLower DEF RowOrder
<1> HIDE DEF best, lane
<1>5. Len(lane) = K /\ lane \in [1..K -> best]
  BY <1>1, <1>2, <1>3 DEF Top
<1>6. ASSUME NEW i \in 1..K, ~(lane[i].tier <= t) PROVE FALSE
  <2>1. lane[i] \in best /\ lane[i].tier \in Int
    BY <1>2, <1>5
  <2>2. \A y \in T : Lower(RowOrder(best)[y], RowOrder(best)[lane[i]])
    <3> TAKE y \in T
    <3>1. y \in best /\ y.tier \in Int
      BY <1>2 DEF best
    <3> QED
      BY <1>4, <1>6, <2>1, <3>1
  <2>3. Cardinality(T) < i
    <3>1. T \in SUBSET best
      BY DEF best
    <3> QED
      BY <1>1, <1>5, <2>2, <3>1 DEF Top
  <2> QED
    BY <2>3, <1>2
<1> QED
  BY <1>5, <1>6 DEF lane

(* The best tier of a chunk is the least an anchor gives it.               *)
LEMMA BestTierIs ==
  ASSUME NEW key, NEW n, RowKeys(key, n), NEW c \in SearchChunks
  PROVE  /\ BestTier(c, key) \in Nat
         /\ BestTier(c, key) > 0 => \E i \in 1..n : key[i][c][1] = BestTier(c, key)
         /\ \A i \in 1..n : key[i][c][1] > 0 => BestTier(c, key) > 0 /\ BestTier(c, key) <= key[i][c][1]
<1> DEFINE tiers == {key[i][c][1] : i \in DOMAIN key} \ {0}
<1>1. tiers \in SUBSET Nat /\ \A i \in 1..n : key[i][c][1] \in Nat
  BY DEF RowKeys, Keys
<1>2. BestTier(c, key) = IF tiers = {} THEN 0 ELSE CHOOSE t \in tiers : \A u \in tiers : t <= u
  BY DEF BestTier
<1>3. CASE tiers = {}
  <2>1. BestTier(c, key) = 0
    BY <1>2, <1>3
  <2>2. \A i \in 1..n : key[i][c][1] = 0
    BY <1>3 DEF RowKeys
  <2> QED
    BY <2>1, <2>2
<1>4. CASE tiers # {}
  <2>1. \E t \in tiers : \A u \in tiers : t <= u
    <3> HIDE DEF tiers
    <3> QED
      BY <1>1, <1>4, LeastNumber
  <2>2. BestTier(c, key) \in tiers /\ \A u \in tiers : BestTier(c, key) <= u
    <3> HIDE DEF tiers
    <3> QED
      BY <1>2, <1>4, <2>1
  <2>3. \A i \in 1..n : key[i][c][1] > 0 => key[i][c][1] \in tiers
    BY DEF RowKeys
  <2>4. BestTier(c, key) \in Nat /\ BestTier(c, key) > 0
    BY <1>1, <2>2
  <2>5. \E i \in 1..n : key[i][c][1] = BestTier(c, key)
    BY <2>2 DEF RowKeys
  <2> HIDE DEF tiers
  <2> QED
    BY <2>2, <2>3, <2>4, <2>5
<1> QED
  BY <1>3, <1>4

(* Neither the limit of the queries nor that of the lane loses a better    *)
(* match.                                                                  *)
LEMMA LaneKeepsTheBest ==
  ASSUME NEW anchors, NEW key, NEW n, DOMAIN anchors = 1..n, RowKeys(key, n)
  PROVE  KeepsTheBest(AnchorLane(anchors, key), key)
<1> DEFINE best == BestRows(anchors, key)
           rows == Rows(anchors, key)
           lane == AnchorLane(anchors, key)
           K == CandidateK
<1>1. Top(lane, best, RowOrder(best), K)
  BY LaneTop
<1>2. \A x \in rows : x.tier \in Int /\ x.place \in 1..n
  BY RowsKeyed
<1>3. best \subseteq rows /\ \A x \in best : BestRow(rows, x)
  BY DEF BestRows
<1>4. \A i \in 1..n, c \in SearchChunks : key[i][c][1] \in Int
  BY DEF RowKeys, Keys
<1>5. lane \in [1..Len(lane) -> best] /\ Len(lane) \in Nat
  <2>1. K \in Nat
    BY SearchRankingAssumption
  <2> HIDE DEF lane, best, K
  <2>2. Len(lane) \in 0..K /\ lane \in [1..Len(lane) -> best]
    BY <1>1 DEF Top
  <2> QED
    BY <2>1, <2>2
(* A row of the lane has a tier no anchor betters.                         *)
<1>6. ASSUME NEW k \in 1..Len(lane), NEW c \in SearchChunks, lane[k].id = c.id,
             NEW j \in 1..n, key[j][c][1] > 0
      PROVE  lane[k].tier <= key[j][c][1]
  <2>1. lane[k] \in best /\ lane[k] \in rows /\ lane[k].tier \in Int
    BY <1>2, <1>3, <1>5
  <2>2. CASE c \in ToSet(FirstRows(key, j))
    <3> DEFINE r == AnchorRow(anchors, key, j, c)
    <3>1. r \in rows /\ r.id = c.id /\ r.tier = key[j][c][1]
      BY <2>2, RowsAre DEF AnchorRow
    <3> HIDE DEF r, rows, lane, best
    <3>2. r = lane[k] \/ Lower(CandidateKey(lane[k]), CandidateKey(r))
      BY <1>3, <1>6, <2>1, <3>1 DEF BestRow
    <3>3. lane[k].tier <= r.tier
      BY <1>2, <2>1, <3>1, <3>2, LowerTier
    <3> QED
      BY <3>1, <3>3
  <2>3. CASE c \notin ToSet(FirstRows(key, j))
    <3>1. c \in Found(key, j)
      BY <1>6 DEF Found
    <3>2. PICK T \in SUBSET best : Cardinality(T) = K /\ \A y \in T : y.tier <= key[j][c][1]
      BY <2>3, <3>1, CutLeavesBetter
    <3>3. Len(lane) = K /\ \A i \in 1..K : lane[i].tier <= key[j][c][1]
      BY <1>4, <3>2, FullLane
    <3> QED
      BY <3>3
  <2> QED
    BY <2>2, <2>3
<1>7. ASSUME NEW k \in DOMAIN lane
      PROVE  lane[k].tier = BestTier(Chunk(lane[k].id), key)
  <2>1. k \in 1..Len(lane) /\ lane[k] \in rows
    BY <1>3, <1>5
  <2>2. PICK i \in 1..n, c \in SearchChunks : c \in Found(key, i) /\ lane[k] = AnchorRow(anchors, key, i, c)
    BY <2>1, RowsAre
  <2>3. lane[k].id = c.id /\ lane[k].tier = key[i][c][1] /\ key[i][c][1] > 0
    BY <2>2 DEF AnchorRow, Found
  <2>4. Chunk(lane[k].id) = c
    BY <2>3, ChunkIs
  <2>5. \A j \in 1..n : key[j][c][1] > 0 => key[i][c][1] <= key[j][c][1]
    BY <1>6, <2>1, <2>3
  <2>6. BestTier(c, key) = key[i][c][1]
    <3>1. BestTier(c, key) \in Nat /\ BestTier(c, key) > 0 /\ BestTier(c, key) <= key[i][c][1]
      BY <2>3, BestTierIs
    <3>2. PICK j \in 1..n : key[j][c][1] = BestTier(c, key)
      BY <3>1, BestTierIs
    <3> QED
      BY <1>4, <2>5, <3>1, <3>2
  <2> QED
    BY <2>3, <2>4, <2>6
<1>8. ASSUME NEW c \in SearchChunks, c.id \notin Ids(lane), BestTier(c, key) > 0
      PROVE  Len(lane) = K /\ \A i \in DOMAIN lane : lane[i].tier <= BestTier(c, key)
  <2>1. PICK j \in 1..n : key[j][c][1] = BestTier(c, key)
    BY <1>8, BestTierIs
  <2>2. c \in Found(key, j)
    BY <1>8, <2>1 DEF Found
  <2>3. CASE c \in ToSet(FirstRows(key, j))
    <3> DEFINE r == AnchorRow(anchors, key, j, c)
    <3>1. r \in rows /\ r.id = c.id /\ r.tier = key[j][c][1]
      BY <2>3, RowsAre DEF AnchorRow
    <3>2. PICK y \in best : y.id = c.id /\ y.tier <= key[j][c][1]
      <4> HIDE DEF r
      <4> QED
        BY <3>1, BestExists
    <3>3. y \notin ToSet(lane)
      BY <1>8, <3>2 DEF ToSet, Ids
    <3>4. Len(lane) = K /\ \A i \in 1..Len(lane) : Lower(RowOrder(best)[lane[i]], RowOrder(best)[y])
      BY <1>1, <3>2, <3>3 DEF Top
    <3>5. ASSUME NEW i \in DOMAIN lane PROVE lane[i].tier <= BestTier(c, key)
      <4>1. i \in 1..Len(lane) /\ lane[i] \in best /\ lane[i].tier \in Int /\ y.tier \in Int
        BY <1>2, <1>3, <1>5, <3>2
      <4>2. Lower(CandidateKey(lane[i]), CandidateKey(y))
        BY <3>2, <3>4, <4>1 DEF RowOrder
      <4>3. lane[i].tier <= y.tier
        BY <4>1, <4>2, LowerTier
      <4> QED
        BY <1>4, <2>1, <3>2, <4>1, <4>3
    <3> QED
      BY <3>4, <3>5
  <2>4. CASE c \notin ToSet(FirstRows(key, j))
    <3>1. PICK T \in SUBSET best : Cardinality(T) = K /\ \A y \in T : y.tier <= key[j][c][1]
      BY <2>2, <2>4, CutLeavesBetter
    <3>2. Len(lane) = K /\ \A i \in 1..K : lane[i].tier <= key[j][c][1]
      BY <1>4, <3>1, FullLane
    <3> QED
      BY <2>1, <3>2, <1>5
  <2> QED
    BY <2>3, <2>4
<1> QED
  BY <1>7, <1>8 DEF KeepsTheBest

ChunkIds == {c.id : c \in SearchChunks}

(* A list of at most CandidateK chunks, none of them twice.                *)
RankedList(s) ==
  /\ Len(s) \in 0..CandidateK /\ DOMAIN s = 1..Len(s)
  /\ \A i, j \in 1..Len(s) : s[i].id = s[j].id => i = j
  /\ \A i \in 1..Len(s) : s[i].id \in ChunkIds

(* What is lower than an element of the list is before it in the list.     *)
LEMMA TopBefore ==
  ASSUME NEW S, NEW key, NEW n, Keyed(S, key, n), NEW k \in Nat, NEW t, Top(t, S, key, k),
         NEW x \in S, NEW j \in 1..Len(t), Lower(key[x], key[t[j]])
  PROVE  \E i \in 1..(j - 1) : t[i] = x
<1>1. Len(t) \in Nat /\ t \in [1..Len(t) -> S]
  <2>1. Len(t) \in 0..k /\ t \in [1..Len(t) -> S]
    BY DEF Top
  <2> QED
    BY <2>1
<1>2. t[j] \in S
  BY <1>1
<1>3. key[x] \in Keys(n) /\ key[t[j]] \in Keys(n) /\ n \in Nat
  BY <1>2 DEF Keyed
<1>4. ~Lower(key[t[j]], key[x])
  BY <1>3, LowerIrreflexive, LowerTransitive
<1>5. x \in ToSet(t)
  BY <1>4 DEF Top
<1>6. PICK i \in 1..Len(t) : t[i] = x
  BY <1>1, <1>5 DEF ToSet
<1>7. i < j
  BY <1>6 DEF Top
<1> QED
  BY <1>1, <1>6, <1>7

LEMMA ChunkOfId ==
  ASSUME NEW id \in ChunkIds
  PROVE  /\ Chunk(id) \in SearchChunks /\ Chunk(id).id = id
         /\ id \in Nat /\ Chunk(id).path \in Nat /\ Chunk(id).start \in Nat /\ Chunk(id).qualified.at \in Nat
<1>1. PICK c \in SearchChunks : c.id = id
  BY DEF ChunkIds
<1>2. Chunk(id) = c
  BY <1>1, ChunkIs
<1> QED
  BY <1>1, <1>2, SearchRankingAssumption DEF ChunkAssumption

-----------------------------------------------------------------------------
(* Places and their reciprocals.                                           *)

LEMMA PlaceIs ==
  ASSUME NEW s, RankedList(s), NEW id
  PROVE  /\ Place(s, id) \in 0..CandidateK
         /\ Place(s, id) > 0 <=> id \in Ids(s)
         /\ id \in Ids(s) => Place(s, id) \in 1..Len(s) /\ s[Place(s, id)].id = id
         /\ \A i \in 1..Len(s) : s[i].id = id => Place(s, id) = i
<1>1. Len(s) \in 0..CandidateK /\ DOMAIN s = 1..Len(s) /\ CandidateK \in Nat
  BY SearchRankingAssumption DEF RankedList
<1>2. CASE id \in Ids(s)
  <2>1. PICK i \in 1..Len(s) : s[i].id = id
    BY <1>1, <1>2 DEF Ids
  <2>2. Place(s, id) = CHOOSE k \in DOMAIN s : s[k].id = id
    BY <1>1, <2>1 DEF Place
  <2>3. Place(s, id) \in 1..Len(s) /\ s[Place(s, id)].id = id
    BY <1>1, <2>1, <2>2
  <2>4. \A k \in 1..Len(s) : s[k].id = id => Place(s, id) = k
    BY <2>3 DEF RankedList
  <2> QED
    BY <1>1, <1>2, <2>3, <2>4
<1>3. CASE id \notin Ids(s)
  BY <1>1, <1>3 DEF Ids, Place
<1> QED
  BY <1>2, <1>3

LEMMA RankTieIs ==
  ASSUME NEW s, RankedList(s), NEW id
  PROVE  /\ RankTie(Place(s, id)) \in 1..(CandidateK + 1)
         /\ id \in Ids(s) <=> RankTie(Place(s, id)) <= CandidateK
         /\ id \in Ids(s) => RankTie(Place(s, id)) = Place(s, id)
<1>1. CandidateK \in Nat
  BY SearchRankingAssumption
<1>2. Place(s, id) \in 0..CandidateK /\ (Place(s, id) > 0 <=> id \in Ids(s))
  BY PlaceIs
<1> QED
  BY <1>1, <1>2 DEF RankTie

(* A chunk that a list does not place behind another, which it has, is     *)
(* before it there.                                                        *)
LEMMA NotBehindIsBefore ==
  ASSUME NEW s, RankedList(s), NEW x, NEW y, x # y, y \in Ids(s),
         RankTie(Place(s, x)) <= RankTie(Place(s, y))
  PROVE  x \in Ids(s) /\ RankTie(Place(s, x)) < RankTie(Place(s, y))
<1>1. CandidateK \in Nat
  BY SearchRankingAssumption
<1>2. x \in Ids(s)
  BY <1>1, RankTieIs
<1>3. Place(s, x) # Place(s, y)
  BY <1>2, PlaceIs
<1> QED
  BY <1>1, <1>2, <1>3, RankTieIs

(* The common denominator is the product of all denominators.              *)
LEMMA ScaleIsNumber == Scale \in Nat
<1> DEFINE n == Cardinality(SearchChunks)
           next == [p \in (1..n) \X Nat |-> p[2] * (RRFK + p[1])]
           body(f) == [i \in 0..n |-> IF i = 0 THEN 1 ELSE f[i - 1] * (RRFK + i)]
           product == CHOOSE f : f = body(f)
<1>1. n \in Nat /\ RRFK \in Nat
  BY SearchRankingAssumption, FS_CardinalityType
<1>2. Scale = product[n]
  BY DEF Scale
<1> HIDE DEF n
<1>3. next \in [(1..n) \X Nat -> Nat]
  BY <1>1
<1>4. PICK f \in [0..n -> Nat] : f[0] = 1 /\ \A i \in 1..n : f[i] = next[<<i, f[i - 1]>>]
  <2>1. next \in Steps(Nat, n)
    BY <1>3 DEF Steps
  <2> HIDE DEF next
  <2>2. PICK f : Solves(f, Nat, 1, n, next)
    BY <1>1, <2>1, Recursion
  <2> QED
    BY <2>2 DEF Solves
<1>5. f = body(f)
  <2>1. ASSUME NEW i \in 1..n PROVE f[i] = f[i - 1] * (RRFK + i)
    <3>1. <<i, f[i - 1]>> \in (1..n) \X Nat
      BY <1>1, <1>4
    <3>2. next[<<i, f[i - 1]>>] = f[i - 1] * (RRFK + i)
      BY <3>1
    <3> QED
      BY <1>4, <3>2
  <2> QED
    BY <1>1, <1>4, <2>1
<1>6. product = body(product)
  <2> HIDE DEF body
  <2> QED
    BY <1>5
<1> HIDE DEF product
<1>7. product[0] = 1 /\ \A i \in 1..n : product[i] = product[i - 1] * (RRFK + i)
  BY <1>1, <1>6
<1> DEFINE S == {i \in Nat : i <= n => product[i] \in Nat}
<1>8. 0 \in S
  BY <1>7
<1>9. ASSUME NEW i \in Nat, i \in S PROVE i + 1 \in S
  <2> SUFFICES ASSUME i + 1 <= n PROVE product[i + 1] \in Nat
    OBVIOUS
  <2>1. product[i] \in Nat /\ i + 1 \in 1..n
    BY <1>1, <1>9
  <2>2. product[i + 1] = product[i] * (RRFK + (i + 1))
    BY <1>7, <2>1
  <2> QED
    BY <1>1, <2>1, <2>2
<1>10. n \in S
  <2> HIDE DEF S
  <2> QED
    BY <1>1, <1>8, <1>9, Climb
<1> QED
  BY <1>2, <1>10

(* A later place scores no more.                                           *)
LEMMA ReciprocalFalls ==
  ASSUME NEW a \in 0..CandidateK, NEW b \in 0..CandidateK, RankTie(a) <= RankTie(b)
  PROVE  Reciprocal(a) \in Nat /\ Reciprocal(b) \in Nat /\ Reciprocal(b) <= Reciprocal(a)
<1>1. CandidateK \in Nat /\ RRFK \in Nat /\ RRFK > 0
  BY SearchRankingAssumption
<1>2. Scale \in Nat
  BY ScaleIsNumber
<1>3. ASSUME NEW r \in Nat PROVE Scale \div (RRFK + r) \in Nat
  BY <1>1, <1>2
<1>4. Reciprocal(a) \in Nat /\ Reciprocal(b) \in Nat
  BY <1>3 DEF Reciprocal
<1>5. CASE b = 0
  BY <1>4, <1>5 DEF Reciprocal
<1>6. CASE b # 0
  <2>1. a # 0 /\ a <= b
    BY <1>1, <1>6 DEF RankTie
  <2>2. RRFK + a \in Nat /\ RRFK + b \in Nat /\ RRFK + a > 0 /\ RRFK + a <= RRFK + b
    BY <1>1, <2>1
  <2>3. Scale \div (RRFK + b) <= Scale \div (RRFK + a)
    <3> DEFINE p == RRFK + a
               q == RRFK + b
    <3>1. p \in Nat /\ q \in Nat /\ p > 0 /\ p <= q
      BY <2>2
    <3> HIDE DEF p, q
    <3>2. Scale \div q <= Scale \div p
      BY <1>2, <3>1
    <3> QED
      BY <3>2 DEF p, q
  <2>4. Reciprocal(b) = Scale \div (RRFK + b) /\ Reciprocal(a) = Scale \div (RRFK + a)
    BY <1>6, <2>1 DEF Reciprocal
  <2> QED
    BY <1>4, <2>3, <2>4
<1> QED
  BY <1>4, <1>5, <1>6

LEMMA ChunkIdsFinite == IsFiniteSet(ChunkIds)
<1> DEFINE f == [c \in SearchChunks |-> c.id]
<1>1. DOMAIN f = SearchChunks /\ f = [c \in SearchChunks |-> f[c]] /\ IsFiniteSet(SearchChunks)
  BY SearchRankingAssumption
<1>2. {f[c] : c \in SearchChunks} = ChunkIds
  BY DEF ChunkIds
<1> HIDE DEF f
<1>3. IsFiniteSet({f[c] : c \in SearchChunks})
  BY <1>1, Values
<1> QED
  BY <1>2, <1>3

LEMMA LenIs ==
  ASSUME NEW s, NEW m \in Nat, s = [i \in 1..m |-> s[i]]
  PROVE  Len(s) = m /\ DOMAIN s = 1..m
<1> DEFINE V == {s[i] : i \in 1..m}
<1>1. s \in [1..m -> V]
  OBVIOUS
<1> HIDE DEF V
<1> QED
  BY <1>1, IsASeq, LenProperties

(* The first CandidateK of rows that each stand for another chunk.         *)
LEMMA TopIsRanked ==
  ASSUME NEW S, NEW key, NEW k \in 0..CandidateK, NEW t, Top(t, S, key, k),
         \A x, y \in S : x.id = y.id => x = y,
         \A x \in S : x.id \in ChunkIds
  PROVE  RankedList(t)
<1>1. CandidateK \in Nat
  BY SearchRankingAssumption
<1>2. Len(t) \in 0..k /\ t \in [1..Len(t) -> S] /\ \A i, j \in 1..Len(t) : t[i] = t[j] => i = j
  BY DEF Top
<1>3. \A i \in 1..Len(t) : t[i] \in S
  BY <1>2
<1>4. \A i, j \in 1..Len(t) : t[i].id = t[j].id => i = j
  BY <1>2, <1>3
<1>5. Len(t) \in 0..CandidateK /\ DOMAIN t = 1..Len(t)
  BY <1>1, <1>2
<1> QED
  BY <1>3, <1>4, <1>5 DEF RankedList

(* A key that is nowhere above and somewhere below another comes first.    *)
LEMMA LowerWhen ==
  ASSUME NEW n \in Nat, NEW a \in Keys(n), NEW b \in Keys(n), NEW m \in 1..n,
         \A i \in 1..m : a[i] <= b[i], NEW k \in 1..m, a[k] < b[k]
  PROVE  Lower(a, b)
<1> DEFINE T == {i \in 1..m : a[i] < b[i]}
<1>1. T \in SUBSET Nat /\ T # {}
  OBVIOUS
<1>2. PICK i \in T : \A j \in T : i <= j
  <2> HIDE DEF T
  <2> QED
    BY <1>1, LeastNumber
<1>3. i \in 1..n /\ a[i] < b[i]
  BY <1>2
<1>4. ASSUME NEW j \in 1..(i - 1) PROVE a[j] = b[j]
  <2>1. j \in 1..m /\ j \notin T
    BY <1>2
  <2>2. a[j] \in Int /\ b[j] \in Int /\ a[j] <= b[j] /\ ~(a[j] < b[j])
    BY <2>1 DEF Keys
  <2> QED
    BY <2>2
<1> QED
  BY <1>3, <1>4 DEF Lower, Keys

-----------------------------------------------------------------------------
(* The lanes as loaded are such lists.                                     *)

LEMMA DescriptiveRanked ==
  ASSUME NEW plan, NEW s \in Snapshots
  PROVE  RankedList(DescriptiveLane(plan, s))
<1> DEFINE found == {c \in SearchChunks : Matched(c, plan) # {}}
           exact(c) == plan.exact # <<>> /\ c.qualified.norm = plan.exact
           key == [c \in found |-> <<-s.bm25[c.id], IF exact(c) THEN 0 ELSE 1, c.path, c.qualified.at, c.id>>]
           t == UpTo(CandidateK, Ordered(found, key))
           lane == [i \in DOMAIN t |-> [id |-> t[i].id, terms |-> Cardinality(Matched(t[i], plan))]]
<1>1. DescriptiveLane(plan, s) = lane
  BY DEF DescriptiveLane
<1>2. CandidateK \in Nat /\ IsFiniteSet(SearchChunks)
  BY SearchRankingAssumption
<1>3. IsFiniteSet(found)
  BY <1>2, FS_Subset
<1>4. ASSUME NEW c \in found PROVE key[c] \in Keys(5) /\ key[c][5] = c.id
  <2>1. s.bm25[c.id] \in Nat /\ c.path \in Nat /\ c.qualified.at \in Nat /\ c.id \in Nat
    BY SearchRankingAssumption DEF ChunkAssumption
  <2> QED
    BY <2>1 DEF Keys
<1>5. \A c, d \in found : c.id = d.id => c = d
  BY SearchRankingAssumption
<1>6. \A c \in found : c.id \in ChunkIds
  BY DEF ChunkIds
<1> HIDE DEF found, key, t
<1>7. Keyed(found, key, 5)
  BY <1>3, <1>4, <1>5 DEF Keyed
<1>8. Top(t, found, key, CandidateK)
  BY <1>2, <1>7, CutKeepsTop DEF t
<1>9. RankedList(t)
  BY <1>2, <1>5, <1>6, <1>8, TopIsRanked
<1>10. Len(t) \in Nat /\ DOMAIN t = 1..Len(t)
  BY <1>2, <1>9 DEF RankedList
<1>11. lane = [i \in 1..Len(t) |-> lane[i]] /\ \A i \in 1..Len(t) : lane[i].id = t[i].id
  BY <1>10
<1> HIDE DEF lane
<1>12. Len(lane) = Len(t) /\ DOMAIN lane = 1..Len(t)
  BY <1>10, <1>11, LenIs
<1> QED
  BY <1>1, <1>9, <1>11, <1>12 DEF RankedList

(* A lane has one row of a chunk.                                          *)
LEMMA LaneRanked ==
  ASSUME NEW anchors, NEW key, NEW n, DOMAIN anchors = 1..n, RowKeys(key, n)
  PROVE  RankedList(AnchorLane(anchors, key))
<1> DEFINE rows == Rows(anchors, key)
           best == BestRows(anchors, key)
           lane == AnchorLane(anchors, key)
<1>1. Top(lane, best, RowOrder(best), CandidateK)
  BY LaneTop
<1>2. Keyed(rows, RowOrder(rows), 6)
  BY RowsKeyed
<1>3. ASSUME NEW x \in best, NEW y \in best, x.id = y.id PROVE x = y
  <2>1. x \in rows /\ y \in rows /\ BestRow(rows, x) /\ BestRow(rows, y)
    BY DEF BestRows
  <2>2. CandidateKey(x) \in Keys(6) /\ CandidateKey(y) \in Keys(6)
    BY <1>2, <2>1 DEF Keyed, RowOrder
  <2>3. x = y \/ (Lower(CandidateKey(x), CandidateKey(y)) /\ Lower(CandidateKey(y), CandidateKey(x)))
    BY <1>3, <2>1 DEF BestRow
  <2> HIDE DEF rows, best
  <2>4. 6 \in Nat
    OBVIOUS
  <2>5. ~(Lower(CandidateKey(x), CandidateKey(y)) /\ Lower(CandidateKey(y), CandidateKey(x)))
    BY <2>2, <2>4, LowerTransitive, LowerIrreflexive
  <2> QED
    BY <2>3, <2>5
<1>4. ASSUME NEW x \in best PROVE x.id \in ChunkIds
  <2>1. x \in rows
    BY DEF BestRows
  <2>2. PICK i \in 1..n, c \in SearchChunks : x = AnchorRow(anchors, key, i, c)
    BY <2>1, RowsAre
  <2>3. x.id = c.id
    BY <2>2 DEF AnchorRow
  <2> QED
    BY <2>3 DEF ChunkIds
<1>5. CandidateK \in 0..CandidateK
  BY SearchRankingAssumption
<1> HIDE DEF best, lane
<1>6. RankedList(lane)
  BY <1>1, <1>3, <1>4, <1>5, TopIsRanked
<1> QED
  BY <1>6 DEF lane

-----------------------------------------------------------------------------
(* The fusion of the lexical lanes.                                        *)

LaneIds(l) == Ids(l.descriptive) \cup Ids(l.symbol) \cup Ids(l.path)
LexicalRecord(l, id) ==
  [id |-> id, descriptiveRank |-> Place(l.descriptive, id), symbolRank |-> Place(l.symbol, id), pathRank |-> Place(l.path, id)]
LexicalFound(l) == {LexicalRecord(l, id) : id \in LaneIds(l)}
LexicalKey(c) ==
  <<-LexicalScore(c), RankTie(c.symbolRank), RankTie(c.pathRank), RankTie(c.descriptiveRank),
    Chunk(c.id).path, Chunk(c.id).qualified.at, c.id>>
LexicalKeys(l) == [c \in LexicalFound(l) |-> LexicalKey(c)]
LanesRanked(l) == RankedList(l.descriptive) /\ RankedList(l.symbol) /\ RankedList(l.path)

LEMMA IdsAreChunks ==
  ASSUME NEW s, RankedList(s)
  PROVE  Ids(s) \subseteq ChunkIds
BY DEF RankedList, Ids

LEMMA LexicalKeyIs ==
  ASSUME NEW l, LanesRanked(l), NEW id \in ChunkIds
  PROVE  /\ LexicalKey(LexicalRecord(l, id)) \in Keys(7)
         /\ LexicalKey(LexicalRecord(l, id))[7] = id
<1> DEFINE c == LexicalRecord(l, id)
<1>1. /\ c.id = id /\ c.symbolRank = Place(l.symbol, id)
      /\ c.pathRank = Place(l.path, id) /\ c.descriptiveRank = Place(l.descriptive, id)
  BY DEF LexicalRecord
<1>2. /\ Place(l.symbol, id) \in 0..CandidateK
      /\ Place(l.path, id) \in 0..CandidateK
      /\ Place(l.descriptive, id) \in 0..CandidateK
  BY PlaceIs DEF LanesRanked
<1>3. CandidateK \in Nat
  BY SearchRankingAssumption
<1>4. \A r \in 0..CandidateK : RankTie(r) \in Int /\ RankTie(r) <= RankTie(r)
  BY <1>3 DEF RankTie
<1>5. \A r \in 0..CandidateK : Reciprocal(r) \in Nat
  BY <1>4, ReciprocalFalls
<1>6. LexicalScore(c) \in Nat
  BY <1>1, <1>2, <1>5 DEF LexicalScore
<1>7. Chunk(id).path \in Nat /\ Chunk(id).qualified.at \in Nat /\ id \in Nat
  BY ChunkOfId
<1>8. /\ -LexicalScore(c) \in Int /\ RankTie(c.symbolRank) \in Int /\ RankTie(c.pathRank) \in Int
      /\ RankTie(c.descriptiveRank) \in Int
  BY <1>1, <1>2, <1>4, <1>6
<1> HIDE DEF c
<1>9. LexicalKey(c) \in Keys(7) /\ LexicalKey(c)[7] = id
  BY <1>1, <1>7, <1>8 DEF LexicalKey, Keys
<1> QED
  BY <1>9 DEF c

(* The fused list is the head of the order of its keys.                    *)
LEMMA FusedTop ==
  ASSUME NEW l, LanesRanked(l)
  PROVE  /\ Keyed(LexicalFound(l), LexicalKeys(l), 7)
         /\ Top(FuseLanes(l), LexicalFound(l), LexicalKeys(l), CandidateK)
         /\ RankedList(FuseLanes(l))
<1> DEFINE found == LexicalFound(l)
           f == [id \in LaneIds(l) |-> LexicalRecord(l, id)]
<1>1. LaneIds(l) \subseteq ChunkIds
  BY IdsAreChunks DEF LaneIds, LanesRanked
<1>2. IsFiniteSet(found)
  <2> DEFINE I == LaneIds(l)
  <2>1. IsFiniteSet(I)
    BY <1>1, ChunkIdsFinite, FS_Subset
  <2>2. DOMAIN f = I /\ f = [id \in I |-> f[id]] /\ {f[id] : id \in I} = found
    BY DEF LexicalFound
  <2> HIDE DEF f, I, found
  <2>3. IsFiniteSet({f[id] : id \in I})
    BY <2>1, <2>2, Values
  <2> QED
    BY <2>2, <2>3
<1>3. ASSUME NEW c \in found
      PROVE  c.id \in ChunkIds /\ c = LexicalRecord(l, c.id)
               /\ LexicalKeys(l)[c] \in Keys(7) /\ LexicalKeys(l)[c][7] = c.id
  <2>1. PICK id \in LaneIds(l) : c = LexicalRecord(l, id)
    BY DEF LexicalFound
  <2>2. c.id = id
    BY <2>1 DEF LexicalRecord
  <2> QED
    BY <1>1, <2>1, <2>2, LexicalKeyIs DEF LexicalKeys
<1>4. Keyed(found, LexicalKeys(l), 7)
  <2>1. \A c, d \in found : LexicalKeys(l)[c] = LexicalKeys(l)[d] => c = d
    BY <1>3
  <2> QED
    BY <1>2, <1>3, <2>1 DEF Keyed
<1>5. CandidateK \in Nat /\ CandidateK \in 0..CandidateK
  BY SearchRankingAssumption
<1>6. FuseLanes(l) = UpTo(CandidateK, Ordered(found, LexicalKeys(l)))
  BY DEF FuseLanes, LexicalFound, LexicalRecord, LaneIds, LexicalKeys, LexicalKey
<1>7. Top(FuseLanes(l), found, LexicalKeys(l), CandidateK)
  BY <1>4, <1>5, <1>6, CutKeepsTop
<1>8. \A c, d \in found : c.id = d.id => c = d
  BY <1>3
<1>9. RankedList(FuseLanes(l))
  <2> HIDE DEF found
  <2> QED
    BY <1>3, <1>5, <1>7, <1>8, TopIsRanked
<1> QED
  BY <1>4, <1>7, <1>9

(* A chunk that no lane places behind one of the fused list is before it   *)
(* in that list.                                                           *)
LEMMA LexicalAgreement ==
  ASSUME NEW l, LanesRanked(l), NEW x \in ChunkIds, NEW y, x # y, y \in Ids(FuseLanes(l)),
         RankTie(Place(l.symbol, x)) <= RankTie(Place(l.symbol, y)),
         RankTie(Place(l.path, x)) <= RankTie(Place(l.path, y)),
         RankTie(Place(l.descriptive, x)) <= RankTie(Place(l.descriptive, y))
  PROVE  x \in Ids(FuseLanes(l)) /\ Place(FuseLanes(l), x) < Place(FuseLanes(l), y)
<1> DEFINE t == FuseLanes(l)
           found == LexicalFound(l)
           key == LexicalKeys(l)
           c == LexicalRecord(l, x)
           d == LexicalRecord(l, y)
           a == LexicalKey(c)
           b == LexicalKey(d)
<1>1. Keyed(found, key, 7) /\ Top(t, found, key, CandidateK) /\ RankedList(t)
  BY FusedTop
<1>2. CandidateK \in Nat
  BY SearchRankingAssumption
<1>3. PICK j \in 1..Len(t) : t[j].id = y
  BY <1>1 DEF RankedList, Ids
<1>4. t[j] \in found
  <2>1. t \in [1..Len(t) -> found]
    BY <1>1 DEF Top
  <2> QED
    BY <2>1
<1>5. y \in LaneIds(l) /\ t[j] = d
  BY <1>3, <1>4 DEF LexicalFound, LexicalRecord
<1>6. y \in ChunkIds
  BY <1>1, <1>3 DEF RankedList
<1>7. /\ y \in Ids(l.symbol) => x \in Ids(l.symbol) /\ RankTie(Place(l.symbol, x)) < RankTie(Place(l.symbol, y))
      /\ y \in Ids(l.path) => x \in Ids(l.path) /\ RankTie(Place(l.path, x)) < RankTie(Place(l.path, y))
      /\ y \in Ids(l.descriptive) =>
           x \in Ids(l.descriptive) /\ RankTie(Place(l.descriptive, x)) < RankTie(Place(l.descriptive, y))
  BY NotBehindIsBefore DEF LanesRanked
<1>8. c \in found /\ d \in found
  BY <1>5, <1>7 DEF LexicalFound, LaneIds
<1>9. /\ c.symbolRank = Place(l.symbol, x) /\ c.pathRank = Place(l.path, x)
      /\ c.descriptiveRank = Place(l.descriptive, x)
      /\ d.symbolRank = Place(l.symbol, y) /\ d.pathRank = Place(l.path, y)
      /\ d.descriptiveRank = Place(l.descriptive, y) /\ c.id = x
  BY DEF LexicalRecord
<1> HIDE DEF t, found, key, c, d
<1>10. a \in Keys(7) /\ b \in Keys(7) /\ key[c] = a /\ key[d] = b
  BY <1>6, <1>8, LexicalKeyIs DEF c, d, found, key, LexicalKeys
<1>11. LexicalScore(d) <= LexicalScore(c) /\ LexicalScore(d) \in Nat /\ LexicalScore(c) \in Nat
  <2>1. /\ Place(l.symbol, x) \in 0..CandidateK /\ Place(l.symbol, y) \in 0..CandidateK
        /\ Place(l.path, x) \in 0..CandidateK /\ Place(l.path, y) \in 0..CandidateK
        /\ Place(l.descriptive, x) \in 0..CandidateK /\ Place(l.descriptive, y) \in 0..CandidateK
    BY PlaceIs DEF LanesRanked
  <2>2. /\ Reciprocal(c.symbolRank) \in Nat /\ Reciprocal(d.symbolRank) \in Nat
        /\ Reciprocal(d.symbolRank) <= Reciprocal(c.symbolRank)
    BY <1>9, <2>1, ReciprocalFalls
  <2>3. /\ Reciprocal(c.pathRank) \in Nat /\ Reciprocal(d.pathRank) \in Nat
        /\ Reciprocal(d.pathRank) <= Reciprocal(c.pathRank)
    BY <1>9, <2>1, ReciprocalFalls
  <2>4. /\ Reciprocal(c.descriptiveRank) \in Nat /\ Reciprocal(d.descriptiveRank) \in Nat
        /\ Reciprocal(d.descriptiveRank) <= Reciprocal(c.descriptiveRank)
    BY <1>9, <2>1, ReciprocalFalls
  <2> QED
    BY <2>2, <2>3, <2>4 DEF LexicalScore
<1>12. /\ a[1] = -LexicalScore(c) /\ b[1] = -LexicalScore(d)
       /\ a[2] = RankTie(Place(l.symbol, x)) /\ b[2] = RankTie(Place(l.symbol, y))
       /\ a[3] = RankTie(Place(l.path, x)) /\ b[3] = RankTie(Place(l.path, y))
       /\ a[4] = RankTie(Place(l.descriptive, x)) /\ b[4] = RankTie(Place(l.descriptive, y))
  BY <1>9 DEF LexicalKey
<1> HIDE DEF a, b
<1>13. \A i \in 1..4 : a[i] <= b[i]
  <2>1. a[1] <= b[1]
    BY <1>11, <1>12
  <2>2. a[2] <= b[2] /\ a[3] <= b[3] /\ a[4] <= b[4]
    BY <1>12
  <2> QED
    BY <2>1, <2>2
<1>14. \E k \in 1..4 : a[k] < b[k]
  <2>1. a[2] < b[2] \/ a[3] < b[3] \/ a[4] < b[4]
    BY <1>5, <1>7, <1>12 DEF LaneIds
  <2> QED
    BY <2>1
<1>15. Lower(a, b)
  <2>1. PICK k \in 1..4 : a[k] < b[k]
    BY <1>14
  <2>2. 7 \in Nat /\ 4 \in 1..7
    OBVIOUS
  <2> QED
    BY <1>10, <1>13, <2>1, <2>2, LowerWhen
<1>16. PICK i \in 1..(j - 1) : t[i] = c
  <2>1. Lower(key[c], key[t[j]])
    BY <1>5, <1>10, <1>15
  <2> QED
    BY <1>1, <1>2, <1>8, <2>1, TopBefore
<1>17. Len(t) \in Nat /\ DOMAIN t = 1..Len(t)
  BY <1>1, <1>2 DEF RankedList
<1>18. i \in 1..Len(t) /\ t[i].id = x
  BY <1>9, <1>16, <1>17
<1>19. x \in Ids(t) /\ Place(t, x) = i /\ Place(t, y) = j
  <2>1. x \in Ids(t)
    BY <1>17, <1>18 DEF Ids
  <2> QED
    BY <2>1, <1>1, <1>3, <1>18, PlaceIs
<1> QED
  BY <1>16, <1>17, <1>19 DEF t

-----------------------------------------------------------------------------
(* The best segments.                                                      *)

SegmentScore(s, c, g) == [id |-> c.id, segment |-> g, score |-> s.vectors[g.input]]
Scored(s) == UNION {{SegmentScore(s, c, g) : g \in c.segments} : c \in SearchChunks}
Usable(s) == {v \in Scored(s) : v.score > 0}
BestSegments(s) == {v \in Usable(s) : \A w \in Usable(s) : w.id = v.id => w = v \/ Lower(VectorKey(v), VectorKey(w))}
VectorKeys(s) == [v \in BestSegments(s) |-> VectorKey(v)]

LEMMA ScoredFinite == ASSUME NEW s PROVE IsFiniteSet(Scored(s))
<1> DEFINE of(c) == {SegmentScore(s, c, g) : g \in c.segments}
           f == [c \in SearchChunks |-> of(c)]
<1>1. ASSUME NEW c \in SearchChunks PROVE IsFiniteSet(of(c))
  <2> DEFINE G == c.segments
             h == [g \in G |-> SegmentScore(s, c, g)]
  <2>1. IsFiniteSet(G)
    BY SearchRankingAssumption DEF ChunkAssumption
  <2>2. DOMAIN h = G /\ h = [g \in G |-> h[g]] /\ {h[g] : g \in G} = of(c)
    OBVIOUS
  <2> HIDE DEF h, G, of
  <2>3. IsFiniteSet({h[g] : g \in G})
    BY <2>1, <2>2, Values
  <2> QED
    BY <2>2, <2>3
<1>2. DOMAIN f = SearchChunks /\ f = [c \in SearchChunks |-> f[c]] /\ IsFiniteSet(SearchChunks)
  BY SearchRankingAssumption
<1>3. \A c \in SearchChunks : f[c] = of(c)
  OBVIOUS
<1>4. Scored(s) = UNION {of(c) : c \in SearchChunks}
  BY DEF Scored
<1> HIDE DEF f, of
<1>5. {of(c) : c \in SearchChunks} = {f[c] : c \in SearchChunks}
  BY <1>3
<1> DEFINE S == {f[c] : c \in SearchChunks}
<1>6. IsFiniteSet(S)
  BY <1>2, Values
<1>7. \A T \in S : IsFiniteSet(T)
  BY <1>1, <1>3
<1> HIDE DEF S
<1>8. IsFiniteSet(UNION S)
  BY <1>6, <1>7, FS_UNION
<1> QED
  BY <1>4, <1>5, <1>8 DEF S

(* The key of a scored segment tells it from every other.                  *)
LEMMA ScoredIs ==
  ASSUME NEW s \in Snapshots
  PROVE  /\ \A v \in Scored(s) : v.id \in ChunkIds /\ VectorKey(v) \in Keys(5)
         /\ \A v, w \in Scored(s) : VectorKey(v) = VectorKey(w) => v = w
<1>1. ASSUME NEW v \in Scored(s)
      PROVE  \E c \in SearchChunks : \E g \in c.segments :
               /\ v = SegmentScore(s, c, g) /\ Chunk(v.id) = c /\ v.id = c.id /\ v.segment = g
               /\ VectorKey(v) \in Keys(5) /\ VectorKey(v)[4] = c.id /\ VectorKey(v)[5] = g.id
  <2>1. PICK c \in SearchChunks : \E g \in c.segments : v = SegmentScore(s, c, g)
    BY DEF Scored
  <2>2. PICK g \in c.segments : v = SegmentScore(s, c, g)
    BY <2>1
  <2>3. v.id = c.id /\ v.segment = g /\ v.score = s.vectors[g.input] /\ Chunk(c.id) = c
    BY <2>2, ChunkIs DEF SegmentScore
  <2>4. c.path \in Nat /\ c.start \in Nat /\ c.id \in Nat /\ g.id \in Nat
    BY SearchRankingAssumption DEF ChunkAssumption
  <2>5. v.score \in Nat
    BY <2>3, SearchRankingAssumption
  <2>6. VectorKey(v) = <<-v.score, c.path, c.start, c.id, g.id>>
    BY <2>3 DEF VectorKey
  <2>7. VectorKey(v) \in Keys(5) /\ VectorKey(v)[4] = c.id /\ VectorKey(v)[5] = g.id
    BY <2>4, <2>5, <2>6 DEF Keys
  <2> QED
    BY <2>2, <2>3, <2>7
<1>2. ASSUME NEW v \in Scored(s) PROVE v.id \in ChunkIds /\ VectorKey(v) \in Keys(5)
  BY <1>1 DEF ChunkIds
<1>3. ASSUME NEW v \in Scored(s), NEW w \in Scored(s), VectorKey(v) = VectorKey(w) PROVE v = w
  <2>1. PICK c \in SearchChunks : \E g \in c.segments :
               v = SegmentScore(s, c, g) /\ VectorKey(v)[4] = c.id /\ VectorKey(v)[5] = g.id
    BY <1>1
  <2>2. PICK g \in c.segments : v = SegmentScore(s, c, g) /\ VectorKey(v)[4] = c.id /\ VectorKey(v)[5] = g.id
    BY <2>1
  <2>3. PICK d \in SearchChunks : \E h \in d.segments :
               w = SegmentScore(s, d, h) /\ VectorKey(w)[4] = d.id /\ VectorKey(w)[5] = h.id
    BY <1>1
  <2>4. PICK h \in d.segments : w = SegmentScore(s, d, h) /\ VectorKey(w)[4] = d.id /\ VectorKey(w)[5] = h.id
    BY <2>3
  <2>5. c = d
    BY <1>3, <2>2, <2>4, SearchRankingAssumption
  <2>6. g = h
    BY <1>3, <2>2, <2>4, <2>5, SearchRankingAssumption DEF ChunkAssumption
  <2> QED
    BY <2>2, <2>4, <2>5, <2>6
<1> QED
  BY <1>2, <1>3

(* A chunk has one best segment.                                           *)
LEMMA CollapsedTop ==
  ASSUME NEW s \in Snapshots
  PROVE  /\ Top(CollapseVectors(s), BestSegments(s), VectorKeys(s), CandidateK)
         /\ \A v, w \in BestSegments(s) : v.id = w.id => v = w
         /\ \A v \in BestSegments(s) : v.id \in ChunkIds
<1> DEFINE best == BestSegments(s)
           key == VectorKeys(s)
           t == CollapseVectors(s)
<1>1. best \in SUBSET Usable(s) /\ Usable(s) \in SUBSET Scored(s) /\ best \in SUBSET Scored(s)
  BY DEF BestSegments, Usable
<1>2. IsFiniteSet(best)
  BY <1>1, ScoredFinite, FS_Subset
<1>3. Keyed(best, key, 5)
  <2>1. \A v \in best : key[v] = VectorKey(v)
    BY DEF VectorKeys
  <2> HIDE DEF best, key
  <2> QED
    BY <1>1, <1>2, <2>1, ScoredIs DEF Keyed
<1>4. t = UpTo(CandidateK, Ordered(best, key))
  BY DEF CollapseVectors, Scored, SegmentScore, Usable, BestSegments, VectorKeys
<1>5. ASSUME NEW v \in best, NEW w \in best, v.id = w.id PROVE v = w
  <2>1. v \in Usable(s) /\ w \in Usable(s)
    BY <1>1
  <2>2. VectorKey(v) \in Keys(5) /\ VectorKey(w) \in Keys(5)
    BY <1>1, ScoredIs
  <2>3. v = w \/ (Lower(VectorKey(v), VectorKey(w)) /\ Lower(VectorKey(w), VectorKey(v)))
    BY <1>5, <2>1 DEF BestSegments
  <2>4. 5 \in Nat
    OBVIOUS
  <2> HIDE DEF best
  <2>5. ~(Lower(VectorKey(v), VectorKey(w)) /\ Lower(VectorKey(w), VectorKey(v)))
    BY <2>2, <2>4, LowerTransitive, LowerIrreflexive
  <2> QED
    BY <2>3, <2>5
<1>6. \A v \in best : v.id \in ChunkIds
  BY <1>1, ScoredIs
<1>7. CandidateK \in Nat /\ CandidateK \in 0..CandidateK
  BY SearchRankingAssumption
<1> HIDE DEF best, key, t
<1>8. Top(t, best, key, CandidateK)
  BY <1>3, <1>4, <1>7, CutKeepsTop
<1> QED
  BY <1>5, <1>6, <1>8 DEF best, key, t

LEMMA VectorRanked ==
  ASSUME NEW s \in Snapshots
  PROVE  RankedList(CollapseVectors(s))
<1>1. CandidateK \in 0..CandidateK
  BY SearchRankingAssumption
<1> QED
  BY <1>1, CollapsedTop, TopIsRanked

LEMMA NothingRanked == RankedList(<<>>)
<1>1. CandidateK \in Nat
  BY SearchRankingAssumption
<1> QED
  BY <1>1 DEF RankedList

-----------------------------------------------------------------------------
(* The fusion of both lists.                                               *)

SideRecord(lexical, vector, id) ==
  [id |-> id, lexicalRank |-> Place(lexical, id), vectorRank |-> Place(vector, id),
   segment |-> IF Place(vector, id) = 0 THEN {} ELSE {vector[Place(vector, id)].segment}]
FuseKey(x) ==
  <<-(Reciprocal(x.lexicalRank) + Reciprocal(x.vectorRank)), RankTie(x.lexicalRank), RankTie(x.vectorRank),
    Chunk(x.id).path, Chunk(x.id).start, x.id>>
FuseKeys(lexical, vector) == [x \in Both(lexical, vector) |-> FuseKey(x)]

(* What two lists say of their chunks.                                     *)
LEMMA BothIs ==
  ASSUME NEW lexical, NEW vector, RankedList(lexical), RankedList(vector)
  PROVE  /\ IsFiniteSet(Both(lexical, vector))
         /\ \A x \in Both(lexical, vector) :
              x.id \in Ids(lexical) \cup Ids(vector) /\ x.id \in ChunkIds /\ x = SideRecord(lexical, vector, x.id)
         /\ \A id \in Ids(lexical) \cup Ids(vector) :
              SideRecord(lexical, vector, id) \in Both(lexical, vector)
<1> DEFINE I == Ids(lexical) \cup Ids(vector)
           f == [id \in I |-> SideRecord(lexical, vector, id)]
           both == Both(lexical, vector)
<1>1. I \in SUBSET ChunkIds
  BY IdsAreChunks
<1>2. IsFiniteSet(I)
  BY <1>1, ChunkIdsFinite, FS_Subset
<1>3. both = {SideRecord(lexical, vector, id) : id \in I}
  BY DEF Both, SideRecord
<1>4. DOMAIN f = I /\ f = [id \in I |-> f[id]] /\ {f[id] : id \in I} = both
  BY <1>3
<1>5. IsFiniteSet({f[id] : id \in I})
  <2> HIDE DEF f, I
  <2> QED
    BY <1>2, <1>4, Values
<1>6. IsFiniteSet(both)
  BY <1>4, <1>5
<1>7. ASSUME NEW x \in both
      PROVE  x.id \in I /\ x.id \in ChunkIds /\ x = SideRecord(lexical, vector, x.id)
  <2>1. PICK id \in I : x = SideRecord(lexical, vector, id)
    BY <1>3
  <2>2. x.id = id
    BY <2>1 DEF SideRecord
  <2> QED
    BY <1>1, <2>1, <2>2
<1>8. \A id \in I : SideRecord(lexical, vector, id) \in both
  BY <1>3
<1> HIDE DEF both
<1>9. IsFiniteSet(both) /\ (\A x \in both : x.id \in I /\ x.id \in ChunkIds /\ x = SideRecord(lexical, vector, x.id))
        /\ \A id \in I : SideRecord(lexical, vector, id) \in both
  BY <1>6, <1>7, <1>8
<1> QED
  BY <1>9 DEF both

LEMMA FuseKeyIs ==
  ASSUME NEW lexical, NEW vector, RankedList(lexical), RankedList(vector), NEW id \in ChunkIds
  PROVE  /\ FuseKey(SideRecord(lexical, vector, id)) \in Keys(6)
         /\ FuseKey(SideRecord(lexical, vector, id))[6] = id
<1> DEFINE x == SideRecord(lexical, vector, id)
<1>1. x.id = id /\ x.lexicalRank = Place(lexical, id) /\ x.vectorRank = Place(vector, id)
  BY DEF SideRecord
<1>2. Place(lexical, id) \in 0..CandidateK /\ Place(vector, id) \in 0..CandidateK
  BY PlaceIs
<1>3. CandidateK \in Nat
  BY SearchRankingAssumption
<1>4. \A r \in 0..CandidateK : RankTie(r) \in Int /\ RankTie(r) <= RankTie(r)
  BY <1>3 DEF RankTie
<1>5. \A r \in 0..CandidateK : Reciprocal(r) \in Nat
  BY <1>4, ReciprocalFalls
<1>6. Chunk(id).path \in Nat /\ Chunk(id).start \in Nat /\ id \in Nat
  BY ChunkOfId
<1>7. /\ -(Reciprocal(x.lexicalRank) + Reciprocal(x.vectorRank)) \in Int
      /\ RankTie(x.lexicalRank) \in Int /\ RankTie(x.vectorRank) \in Int
  BY <1>1, <1>2, <1>4, <1>5
<1> HIDE DEF x
<1>8. FuseKey(x) \in Keys(6) /\ FuseKey(x)[6] = id
  BY <1>1, <1>6, <1>7 DEF FuseKey, Keys
<1> QED
  BY <1>8 DEF x

LEMMA FuseTop ==
  ASSUME NEW lexical, NEW vector, RankedList(lexical), RankedList(vector), NEW limit \in 0..CandidateK
  PROVE  /\ Keyed(Both(lexical, vector), FuseKeys(lexical, vector), 6)
         /\ Top(Fuse(lexical, vector, limit), Both(lexical, vector), FuseKeys(lexical, vector), limit)
         /\ RankedList(Fuse(lexical, vector, limit))
<1> DEFINE both == Both(lexical, vector)
           key == FuseKeys(lexical, vector)
           t == Fuse(lexical, vector, limit)
<1>1. IsFiniteSet(both) /\ \A x \in both : x.id \in ChunkIds /\ x = SideRecord(lexical, vector, x.id)
  BY BothIs
<1>2. ASSUME NEW x \in both PROVE key[x] \in Keys(6) /\ key[x][6] = x.id
  BY <1>1, FuseKeyIs DEF FuseKeys
<1>3. t = UpTo(limit, Ordered(both, key))
  BY DEF Fuse, FuseKeys, FuseKey
<1>4. CandidateK \in Nat /\ limit \in Nat
  BY SearchRankingAssumption
<1> HIDE DEF both, key, t
<1>5. \A x, y \in both : x.id = y.id => x = y
  BY <1>1
<1>6. Keyed(both, key, 6)
  BY <1>1, <1>2, <1>5 DEF Keyed
<1>7. Top(t, both, key, limit)
  BY <1>3, <1>4, <1>6, CutKeepsTop
<1>8. RankedList(t)
  BY <1>1, <1>5, <1>7, TopIsRanked
<1> QED
  BY <1>6, <1>7, <1>8 DEF both, key, t

(* A chunk neither list places behind one of the answer is before it there. *)
LEMMA FuseAgreement ==
  ASSUME NEW lexical, NEW vector, RankedList(lexical), RankedList(vector), NEW limit \in 0..CandidateK,
         NEW x \in ChunkIds, NEW y, x # y, y \in Ids(Fuse(lexical, vector, limit)),
         RankTie(Place(lexical, x)) <= RankTie(Place(lexical, y)),
         RankTie(Place(vector, x)) <= RankTie(Place(vector, y))
  PROVE  Place(Fuse(lexical, vector, limit), x) \in 1..(Place(Fuse(lexical, vector, limit), y) - 1)
<1> DEFINE t == Fuse(lexical, vector, limit)
           both == Both(lexical, vector)
           key == FuseKeys(lexical, vector)
           c == SideRecord(lexical, vector, x)
           d == SideRecord(lexical, vector, y)
           a == FuseKey(c)
           b == FuseKey(d)
<1>1. Keyed(both, key, 6) /\ Top(t, both, key, limit) /\ RankedList(t)
  BY FuseTop
<1>2. CandidateK \in Nat /\ limit \in Nat
  BY SearchRankingAssumption
<1>3. PICK j \in 1..Len(t) : t[j].id = y
  BY <1>1 DEF RankedList, Ids
<1>4. t[j] \in both
  <2>1. t \in [1..Len(t) -> both]
    BY <1>1 DEF Top
  <2> QED
    BY <2>1
<1>5. y \in Ids(lexical) \cup Ids(vector) /\ t[j] = d /\ y \in ChunkIds
  BY <1>3, <1>4, BothIs
<1>6. /\ y \in Ids(lexical) => x \in Ids(lexical) /\ RankTie(Place(lexical, x)) < RankTie(Place(lexical, y))
      /\ y \in Ids(vector) => x \in Ids(vector) /\ RankTie(Place(vector, x)) < RankTie(Place(vector, y))
  BY NotBehindIsBefore
<1>7. c \in both /\ d \in both
  BY <1>5, <1>6, BothIs
<1>8. /\ c.lexicalRank = Place(lexical, x) /\ c.vectorRank = Place(vector, x) /\ c.id = x
      /\ d.lexicalRank = Place(lexical, y) /\ d.vectorRank = Place(vector, y)
  BY DEF SideRecord
<1> HIDE DEF t, both, key, c, d
<1>9. a \in Keys(6) /\ b \in Keys(6) /\ key[c] = a /\ key[d] = b
  BY <1>5, <1>7, FuseKeyIs DEF c, d, both, key, FuseKeys
<1>10. /\ a[1] = -(Reciprocal(c.lexicalRank) + Reciprocal(c.vectorRank))
       /\ b[1] = -(Reciprocal(d.lexicalRank) + Reciprocal(d.vectorRank))
       /\ a[2] = RankTie(Place(lexical, x)) /\ b[2] = RankTie(Place(lexical, y))
       /\ a[3] = RankTie(Place(vector, x)) /\ b[3] = RankTie(Place(vector, y))
  BY <1>8 DEF FuseKey
<1> HIDE DEF a, b
<1>11. a[1] <= b[1]
  <2>1. /\ Place(lexical, x) \in 0..CandidateK /\ Place(lexical, y) \in 0..CandidateK
        /\ Place(vector, x) \in 0..CandidateK /\ Place(vector, y) \in 0..CandidateK
    BY PlaceIs
  <2>2. /\ Reciprocal(c.lexicalRank) \in Nat /\ Reciprocal(d.lexicalRank) \in Nat
        /\ Reciprocal(d.lexicalRank) <= Reciprocal(c.lexicalRank)
    BY <1>8, <2>1, ReciprocalFalls
  <2>3. /\ Reciprocal(c.vectorRank) \in Nat /\ Reciprocal(d.vectorRank) \in Nat
        /\ Reciprocal(d.vectorRank) <= Reciprocal(c.vectorRank)
    BY <1>8, <2>1, ReciprocalFalls
  <2> QED
    BY <1>10, <2>2, <2>3
<1>12. \A i \in 1..3 : a[i] <= b[i]
  <2>1. a[2] <= b[2] /\ a[3] <= b[3]
    BY <1>10
  <2> QED
    BY <1>11, <2>1
<1>13. Lower(a, b)
  <2>1. a[2] < b[2] \/ a[3] < b[3]
    BY <1>5, <1>6, <1>10
  <2>2. PICK k \in 1..3 : a[k] < b[k]
    BY <2>1
  <2>3. 6 \in Nat /\ 3 \in 1..6
    OBVIOUS
  <2> QED
    BY <1>9, <1>12, <2>2, <2>3, LowerWhen
<1>14. PICK i \in 1..(j - 1) : t[i] = c
  <2>1. Lower(key[c], key[t[j]])
    BY <1>5, <1>9, <1>13
  <2> QED
    BY <1>1, <1>2, <1>7, <2>1, TopBefore
<1>15. Len(t) \in Nat /\ DOMAIN t = 1..Len(t)
  BY <1>1, <1>2 DEF RankedList
<1>16. i \in 1..Len(t) /\ t[i].id = x
  BY <1>8, <1>14, <1>15
<1>17. Place(t, x) = i /\ Place(t, y) = j
  BY <1>1, <1>3, <1>16, PlaceIs
<1> QED
  BY <1>14, <1>15, <1>17 DEF t

-----------------------------------------------------------------------------
(* Bodies.                                                                 *)

(* What a ranked chunk needs to be given a body.                           *)
Hit(x) ==
  /\ x.id \in ChunkIds
  /\ x.segment # {} => SegmentBytes(x) \in Nat \ {0}

(* One body fits what is left, or does not because nothing fits.           *)
LEMMA SelectBodyFits ==
  ASSUME NEW x, Hit(x), NEW r \in Nat
  PROVE  /\ SelectBody(x, r).bytes \in 0..r
         /\ SelectBody(x, r).of # "parent" => Chunk(x.id).size > r
         /\ SelectBody(x, r).bytes = 0 /\ x.segment # {} => SegmentBytes(x) > r
<1> DEFINE size == Chunk(x.id).size
           passage == SegmentBytes(x)
<1>1. size \in Nat \ {0}
  BY ChunkOfId, SearchRankingAssumption DEF Hit, ChunkAssumption
<1>2. x.segment # {} => passage \in Nat \ {0}
  BY DEF Hit
<1>3. CASE size <= r
  <2>1. SelectBody(x, r) = Parent(size)
    BY <1>3 DEF SelectBody
  <2>2. SelectBody(x, r).bytes = size /\ SelectBody(x, r).of = "parent"
    BY <2>1 DEF Parent
  <2> HIDE DEF size
  <2> QED
    BY <1>1, <1>3, <2>2
<1>4. CASE ~(size <= r) /\ x.segment = {}
  <2>1. SelectBody(x, r) = Omitted("NO_FITTING_INDEXED_BODY")
    BY <1>4 DEF SelectBody
  <2>2. SelectBody(x, r).bytes = 0
    BY <2>1 DEF Omitted
  <2> HIDE DEF size
  <2>3. size > r
    BY <1>1, <1>4
  <2> QED
    BY <1>4, <2>2, <2>3 DEF size
<1>5. CASE ~(size <= r) /\ x.segment # {} /\ passage > r
  <2>1. SelectBody(x, r) = Omitted("INLINE_BUDGET_EXCEEDED")
    BY <1>5 DEF SelectBody
  <2>2. SelectBody(x, r).bytes = 0
    BY <2>1 DEF Omitted
  <2> HIDE DEF size
  <2>3. size > r
    BY <1>1, <1>5
  <2> QED
    BY <1>5, <2>2, <2>3 DEF size
<1>6. CASE ~(size <= r) /\ x.segment # {} /\ ~(passage > r)
  <2>1. SelectBody(x, r) = Segment(passage)
    BY <1>6 DEF SelectBody
  <2>2. SelectBody(x, r).bytes = passage
    BY <2>1 DEF Segment
  <2> HIDE DEF size, passage
  <2>3. size > r
    BY <1>1, <1>6
  <2>4. passage \in Nat \ {0} /\ passage <= r
    BY <1>2, <1>6
  <2> QED
    BY <2>2, <2>3, <2>4 DEF size
<1> QED
  BY <1>3, <1>4, <1>5, <1>6

(* What is left of the budget before the i-th body.                        *)
LeftOf(hits, budget, f) ==
  [i \in 0..Len(hits) |-> IF i = 0 THEN budget ELSE f[i - 1] - SelectBody(hits[i], f[i - 1]).bytes]
Left(hits, budget) == CHOOSE f : f = LeftOf(hits, budget, f)

(* What is left never is below nothing.                                    *)
LEMMA LeftIs ==
  ASSUME NEW hits, Len(hits) \in Nat, \A i \in 1..Len(hits) : Hit(hits[i]), NEW budget \in Nat
  PROVE  /\ Left(hits, budget) \in [0..Len(hits) -> Nat]
         /\ Left(hits, budget)[0] = budget
         /\ \A i \in 1..Len(hits) :
              Left(hits, budget)[i] = Left(hits, budget)[i - 1] - SelectBody(hits[i], Left(hits, budget)[i - 1]).bytes
<1> DEFINE n == Len(hits)
           next == [p \in (1..n) \X Nat |-> p[2] - SelectBody(hits[p[1]], p[2]).bytes]
           left == Left(hits, budget)
<1>1. ASSUME NEW i \in 1..n, NEW r \in Nat
      PROVE  r - SelectBody(hits[i], r).bytes \in Nat
  <2>1. SelectBody(hits[i], r).bytes \in 0..r
    BY SelectBodyFits
  <2> QED
    BY <2>1
<1> HIDE DEF n
<1>2. next \in Steps(Nat, n)
  <2>1. \A p \in (1..n) \X Nat : p[2] - SelectBody(hits[p[1]], p[2]).bytes \in Nat
    <3> TAKE p \in (1..n) \X Nat
    <3>1. p[1] \in 1..n /\ p[2] \in Nat
      OBVIOUS
    <3> QED
      BY <1>1, <3>1
  <2> QED
    BY <2>1 DEF Steps
<1>3. \A i \in 1..n, r \in Nat : next[<<i, r>>] = r - SelectBody(hits[i], r).bytes
  OBVIOUS
<1> HIDE DEF next
<1>4. n \in Nat
  BY DEF n
<1>5. PICK f : Solves(f, Nat, budget, n, next)
  BY <1>2, <1>4, Recursion
<1>6. f \in [0..n -> Nat] /\ f[0] = budget /\ \A i \in 1..n : f[i] = f[i - 1] - SelectBody(hits[i], f[i - 1]).bytes
  <2>1. f \in [0..n -> Nat] /\ f[0] = budget /\ \A i \in 1..n : f[i] = next[<<i, f[i - 1]>>]
    BY <1>5 DEF Solves
  <2>2. \A i \in 1..n : f[i - 1] \in Nat
    BY <1>4, <2>1
  <2> QED
    BY <1>3, <2>1, <2>2
<1>7. f = LeftOf(hits, budget, f)
  <2> DEFINE g == LeftOf(hits, budget, f)
  <2>1. g = [i \in 0..n |-> g[i]] /\ \A i \in 0..n : g[i] = IF i = 0 THEN budget ELSE f[i - 1] - SelectBody(hits[i], f[i - 1]).bytes
    BY DEF LeftOf, n
  <2> HIDE DEF g
  <2>2. \A i \in 0..n : g[i] = f[i]
    BY <1>4, <1>6, <2>1
  <2>3. g = f
    BY <1>6, <2>1, <2>2
  <2> QED
    BY <2>3 DEF g
<1>8. left = LeftOf(hits, budget, left)
  BY <1>7 DEF Left
<1> HIDE DEF left
<1>9. /\ left = [i \in 0..n |-> left[i]] /\ left[0] = budget
      /\ \A i \in 1..n : left[i] = left[i - 1] - SelectBody(hits[i], left[i - 1]).bytes
  BY <1>4, <1>8 DEF LeftOf, n
<1> DEFINE S == {k \in Nat : k <= n => left[k] \in Nat}
<1>10. 0 \in S
  BY <1>9
<1>11. ASSUME NEW k \in Nat, k \in S PROVE k + 1 \in S
  <2> SUFFICES ASSUME k + 1 <= n PROVE left[k + 1] \in Nat
    OBVIOUS
  <2>1. left[k] \in Nat /\ k + 1 \in 1..n /\ (k + 1) - 1 = k
    BY <1>4, <1>11
  <2>2. left[k + 1] = left[k] - SelectBody(hits[k + 1], left[k]).bytes
    BY <1>9, <2>1
  <2> QED
    BY <1>1, <2>1, <2>2
<1>12. \A k \in 0..n : left[k] \in Nat
  <2>1. Nat \subseteq S
    <3> HIDE DEF S
    <3> QED
      BY <1>10, <1>11, Climb
  <2> QED
    BY <1>4, <2>1
<1>13. left \in [0..n -> Nat]
  BY <1>9, <1>12
<1> QED
  BY <1>9, <1>13 DEF left, n

(* It only falls.                                                          *)
LEMMA LeftFalls ==
  ASSUME NEW hits, Len(hits) \in Nat, \A i \in 1..Len(hits) : Hit(hits[i]), NEW budget \in Nat,
         NEW j \in 0..Len(hits)
  PROVE  Left(hits, budget)[Len(hits)] <= Left(hits, budget)[j]
<1> DEFINE n == Len(hits)
           left == Left(hits, budget)
           S == {k \in Nat : j + k <= n => left[j + k] <= left[j]}
<1>1. /\ left \in [0..n -> Nat] /\ n \in Nat
      /\ \A i \in 1..n : left[i] = left[i - 1] - SelectBody(hits[i], left[i - 1]).bytes
  BY SMTT(30), LeftIs
<1>2. j \in 0..n /\ \A i \in 1..n : Hit(hits[i])
  OBVIOUS
<1> HIDE DEF n, left
<1>3. \A i \in 1..n : left[i] <= left[i - 1]
  <2> TAKE i \in 1..n
  <2>1. i - 1 \in 0..n
    BY <1>1
  <2>2. left[i - 1] \in Nat
    BY <1>1, <2>1
  <2>3. SelectBody(hits[i], left[i - 1]).bytes \in 0..left[i - 1]
    BY <1>2, <2>2, SelectBodyFits
  <2> QED
    BY <1>1, <2>2, <2>3
<1>4. 0 \in S
  BY <1>1, <1>2
<1>5. ASSUME NEW k \in Nat, k \in S PROVE k + 1 \in S
  <2> SUFFICES ASSUME j + (k + 1) <= n PROVE left[j + (k + 1)] <= left[j]
    OBVIOUS
  <2>1. j + (k + 1) \in 1..n /\ (j + (k + 1)) - 1 = j + k /\ j + k \in 0..n
    BY <1>1, <1>2
  <2>2. left[j + k] <= left[j]
    BY <1>5, <2>1
  <2>3. left[j + (k + 1)] <= left[j + k]
    BY <1>3, <2>1
  <2>4. left[j] \in Nat /\ left[j + k] \in Nat /\ left[j + (k + 1)] \in Nat
    BY <1>1, <1>2, <2>1
  <2> QED
    BY <2>2, <2>3, <2>4
<1>6. n - j \in S
  <2>1. n - j \in Nat
    BY <1>1, <1>2
  <2> HIDE DEF S
  <2> QED
    BY <1>4, <1>5, <2>1, Climb
<1>7. left[n] <= left[j]
  <2>1. j + (n - j) = n
    BY <1>1, <1>2
  <2> QED
    BY <1>1, <1>6, <2>1
<1> QED
  BY <1>7 DEF n, left

SpentOf(bodies, f) == [i \in 0..Len(bodies) |-> IF i = 0 THEN 0 ELSE f[i - 1] + bodies[i].bytes]

(* What was spent is what is not left.                                     *)
LEMMA SpentIs ==
  ASSUME NEW bodies, NEW n \in Nat, Len(bodies) = n, NEW left \in [0..n -> Nat],
         \A i \in 1..n : bodies[i].bytes \in Nat /\ left[i] = left[i - 1] - bodies[i].bytes
  PROVE  Spent(bodies) = left[0] - left[n]
<1> DEFINE good == [i \in 0..n |-> left[0] - left[i]]
           spent == CHOOSE f : f = SpentOf(bodies, f)
           S == {k \in Nat : k <= n => spent[k] = left[0] - left[k]}
<1>1. good = SpentOf(bodies, good)
  <2> DEFINE g == SpentOf(bodies, good)
  <2>1. g = [i \in 0..n |-> g[i]] /\ \A i \in 0..n : g[i] = IF i = 0 THEN 0 ELSE good[i - 1] + bodies[i].bytes
    BY DEF SpentOf
  <2>2. \A i \in 1..n : good[i - 1] = left[0] - left[i - 1]
    OBVIOUS
  <2> HIDE DEF g
  <2>3. \A i \in 0..n : g[i] = good[i]
    <3> TAKE i \in 0..n
    <3>1. CASE i = 0
      <4>1. 0 \in 0..n /\ left[0] \in Nat
        OBVIOUS
      <4>2. good[0] = left[0] - left[0]
        BY <4>1
      <4>3. g[0] = 0
        BY <2>1, <4>1
      <4> QED
        BY <3>1, <4>1, <4>2, <4>3
    <3>2. CASE i # 0
      <4>1. i \in 1..n /\ left[i] \in Nat /\ left[i - 1] \in Nat /\ left[0] \in Nat
        BY <3>2
      <4>2. g[i] = (left[0] - left[i - 1]) + bodies[i].bytes /\ good[i] = left[0] - left[i]
        BY <2>1, <2>2, <3>2, <4>1
      <4>3. bodies[i].bytes \in Nat /\ left[i] = left[i - 1] - bodies[i].bytes
        BY <4>1
      <4> QED
        BY <4>1, <4>2, <4>3
    <3> QED
      BY <3>1, <3>2
  <2>4. g = good
    BY <2>1, <2>3
  <2> QED
    BY <2>4 DEF g
<1> HIDE DEF good
<1>2. spent = SpentOf(bodies, spent)
  BY <1>1
<1>3. Spent(bodies) = spent[n]
  BY DEF Spent, SpentOf
<1> HIDE DEF spent
<1>4. spent[0] = 0 /\ \A i \in 1..n : spent[i] = spent[i - 1] + bodies[i].bytes
  BY <1>2 DEF SpentOf
<1>5. 0 \in S
  BY <1>4
<1>6. ASSUME NEW k \in Nat, k \in S PROVE k + 1 \in S
  <2> SUFFICES ASSUME k + 1 <= n PROVE spent[k + 1] = left[0] - left[k + 1]
    OBVIOUS
  <2>1. k + 1 \in 1..n /\ (k + 1) - 1 = k /\ spent[k] = left[0] - left[k]
    BY <1>6
  <2>2. spent[k + 1] = spent[k] + bodies[k + 1].bytes
    BY <1>4, <2>1
  <2>3. bodies[k + 1].bytes \in Nat /\ left[k + 1] = left[k] - bodies[k + 1].bytes
    BY <2>1
  <2>4. left[0] \in Nat /\ left[k] \in Nat
    BY <2>1
  <2> QED
    BY <2>1, <2>2, <2>3, <2>4
<1>7. n \in S
  <2> HIDE DEF S
  <2> QED
    BY <1>5, <1>6, Climb
<1> QED
  BY <1>3, <1>7

(* The bodies keep to the budget, and what is left fits none of those that *)
(* were left out.                                                          *)
LEMMA BodiesFit ==
  ASSUME NEW hits, Len(hits) \in Nat, DOMAIN hits = 1..Len(hits),
         \A i \in 1..Len(hits) : Hit(hits[i]), NEW budget \in Nat
  PROVE  LET bodies == Bodies(hits, budget)
             left == budget - Spent(bodies)
         IN /\ DOMAIN bodies = 1..Len(hits)
            /\ Spent(bodies) \in 0..budget
            /\ \A i \in 1..Len(hits) :
                 /\ bodies[i].of # "parent" => Chunk(hits[i].id).size > left
                 /\ bodies[i].bytes = 0 /\ hits[i].segment # {} => SegmentBytes(hits[i]) > left
<1> DEFINE n == Len(hits)
           left == Left(hits, budget)
           bodies == Bodies(hits, budget)
<1>1. /\ left \in [0..n -> Nat] /\ n \in Nat /\ left[0] = budget
      /\ \A i \in 1..n : left[i] = left[i - 1] - SelectBody(hits[i], left[i - 1]).bytes
  BY ZenonT(60), LeftIs
<1>2. \A j \in 0..n : left[n] <= left[j]
  BY LeftFalls
<1>3. bodies = [i \in 1..n |-> SelectBody(hits[i], left[i - 1])]
  BY DEF Bodies, Left, LeftOf
<1>4. ASSUME NEW i \in 1..n
      PROVE  /\ left[i - 1] \in Nat
             /\ bodies[i] = SelectBody(hits[i], left[i - 1])
             /\ bodies[i].bytes \in Nat
             /\ bodies[i].of # "parent" => Chunk(hits[i].id).size > left[i - 1]
             /\ bodies[i].bytes = 0 /\ hits[i].segment # {} => SegmentBytes(hits[i]) > left[i - 1]
  <2>1. left[i - 1] \in Nat
    BY <1>1
  <2>2. bodies[i] = SelectBody(hits[i], left[i - 1])
    BY <1>3
  <2> HIDE DEF left, bodies
  <2>3. Hit(hits[i])
    OBVIOUS
  <2>4. /\ SelectBody(hits[i], left[i - 1]).bytes \in 0..left[i - 1]
        /\ SelectBody(hits[i], left[i - 1]).of # "parent" => Chunk(hits[i].id).size > left[i - 1]
        /\ SelectBody(hits[i], left[i - 1]).bytes = 0 /\ hits[i].segment # {} => SegmentBytes(hits[i]) > left[i - 1]
    BY <2>1, <2>3, SelectBodyFits
  <2> QED
    BY <2>1, <2>2, <2>4
<1>5. bodies = [i \in 1..n |-> bodies[i]]
  BY <1>3
<1> HIDE DEF left, bodies
<1>6. Len(bodies) = n /\ DOMAIN bodies = 1..n
  BY <1>1, <1>5, LenIs
<1>7. Spent(bodies) = left[0] - left[n]
  <2>1. \A i \in 1..n : bodies[i].bytes \in Nat /\ left[i] = left[i - 1] - bodies[i].bytes
    BY <1>1, <1>4
  <2> HIDE DEF n
  <2> QED
    BY <1>1, <1>6, <2>1, SpentIs
<1>8. left[n] \in Nat /\ left[n] <= budget /\ budget - Spent(bodies) = left[n] /\ Spent(bodies) \in 0..budget
  <2> HIDE DEF n
  <2> QED
    BY <1>1, <1>2, <1>7
<1>9. ASSUME NEW i \in 1..n
      PROVE  /\ bodies[i].of # "parent" => Chunk(hits[i].id).size > left[n]
             /\ bodies[i].bytes = 0 /\ hits[i].segment # {} => SegmentBytes(hits[i]) > left[n]
  <2>1. left[n] <= left[i - 1] /\ left[i - 1] \in Nat
    BY <1>1, <1>2, <1>4
  <2>2. Chunk(hits[i].id).size \in Nat /\ (hits[i].segment # {} => SegmentBytes(hits[i]) \in Nat)
    BY ChunkOfId, SearchRankingAssumption DEF Hit, ChunkAssumption
  <2> HIDE DEF n
  <2> QED
    BY SMTT(30), <1>4, <1>8, <2>1, <2>2
<1> QED
  BY <1>6, <1>8, <1>9 DEF bodies

-----------------------------------------------------------------------------
(* The anchors of a query.                                                 *)

LEMMA PickedDomain ==
  ASSUME NEW s, NEW I, IsFiniteSet(I)
  PROVE  Cardinality(I) \in Nat /\ DOMAIN Picked(s, I) = 1..Cardinality(I)
BY FS_CardinalityType DEF Picked

Numbered(s) == \E n \in Nat : DOMAIN s = 1..n

LEMMA PickedNumbered ==
  ASSUME NEW s, NEW t, Numbered(s), NEW I \in SUBSET DOMAIN s
  PROVE  Numbered(Picked(t, I))
<1>1. PICK n \in Nat : DOMAIN s = 1..n
  BY DEF Numbered
<1>2. IsFiniteSet(1..n)
  BY <1>1, FS_Interval
<1>3. IsFiniteSet(I)
  BY <1>1, <1>2, FS_Subset
<1> QED
  BY <1>3, PickedDomain DEF Numbered

LEMMA DeduplicatedNumbered ==
  ASSUME NEW s, Numbered(s)
  PROVE  Numbered(DeduplicateAnchors(s))
<1> DEFINE same(a, b) == a.raw = b.raw /\ a.norm = b.norm
           first(i) == \A j \in 1..(i - 1) : ~same(s[i], s[j])
           merged == [i \in DOMAIN s |-> [s[i] EXCEPT !.high = \E j \in DOMAIN s : same(s[i], s[j]) /\ s[j].high]]
           I == {i \in DOMAIN s : first(i)}
<1>1. DeduplicateAnchors(s) = Picked(merged, I)
  BY DEF DeduplicateAnchors
<1>2. I \in SUBSET DOMAIN s
  OBVIOUS
<1> HIDE DEF merged, I
<1>3. Numbered(Picked(merged, I))
  BY <1>2, PickedNumbered
<1> QED
  BY <1>1, <1>3

LEMMA AnchorsNumbered ==
  ASSUME NEW r \in Requests
  PROVE  Numbered(BuildQuery(r.query).symbols) /\ Numbered(BuildQuery(r.query).paths)
<1> DEFINE q == r.query.fragments
<1>1. Numbered(q)
  <2>1. q \in Seq(ToSet(q))
    BY SearchRankingAssumption
  <2> DEFINE V == ToSet(q)
  <2> HIDE DEF q, V
  <2>2. Len(q) \in Nat /\ DOMAIN q = 1..Len(q)
    BY <2>1, LenProperties
  <2> QED
    BY <2>2 DEF Numbered
<1> HIDE DEF q
<1>2. ASSUME NEW styles PROVE Numbered(Fragments(q, styles))
  <2> DEFINE I == {i \in DOMAIN q : Style(q[i]) \in styles}
  <2>1. I \in SUBSET DOMAIN q
    OBVIOUS
  <2> HIDE DEF I
  <2>2. Numbered(Picked(q, I))
    BY <1>1, <2>1, PickedNumbered
  <2> QED
    BY <2>2 DEF Fragments, I
<1>3. ASSUME NEW s, Numbered(s) PROVE Numbered(Anchors(s))
  BY <1>3 DEF Anchors, Numbered
<1>4. Numbered(IdentifierCandidates(q)) /\ Numbered(PathCandidates(q))
  BY <1>1, <1>2, <1>3 DEF IdentifierCandidates, PathCandidates
<1>5. Numbered(DeduplicateAnchors(IdentifierCandidates(q))) /\ Numbered(DeduplicateAnchors(PathCandidates(q)))
  BY <1>4, DeduplicatedNumbered
<1>6. /\ BuildQuery(r.query).symbols = DeduplicateAnchors(IdentifierCandidates(q))
      /\ BuildQuery(r.query).paths = DeduplicateAnchors(PathCandidates(q))
  BY DEF BuildQuery, q
<1> QED
  BY <1>5, <1>6

(* The rows of both kinds of anchors have keys.                            *)
LEMMA RowsHaveKeys ==
  ASSUME NEW anchors, NEW n \in Nat, DOMAIN anchors = 1..n
  PROVE  RowKeys(SymbolRows(anchors), n) /\ RowKeys(PathRows(anchors), n)
<1>1. ASSUME NEW c \in SearchChunks
      PROVE  c.id \in Nat /\ c.path \in Nat /\ c.start \in Nat /\ c.qualified.at \in Nat
  BY SearchRankingAssumption DEF ChunkAssumption
<1>2. ASSUME NEW c, NEW a PROVE SymbolTier(c, a) \in Nat /\ PathTier(c, a) \in Nat
  BY DEF SymbolTier, PathTier
<1>3. ASSUME NEW i \in 1..n, NEW c \in SearchChunks
      PROVE  /\ SymbolRows(anchors)[i][c] = <<SymbolTier(c, anchors[i]), c.path, c.qualified.at, c.start, c.id>>
             /\ PathRows(anchors)[i][c] = <<PathTier(c, anchors[i]), c.path, c.start, c.qualified.at, c.id>>
  BY DEF SymbolRows, PathRows
<1>4. DOMAIN SymbolRows(anchors) = 1..n /\ DOMAIN PathRows(anchors) = 1..n
  BY DEF SymbolRows, PathRows
<1>5. ASSUME NEW t \in Nat, NEW a \in Nat, NEW b \in Nat, NEW c \in Nat, NEW d \in Nat
      PROVE  <<t, a, b, c, d>> \in Keys(5) /\ <<t, a, b, c, d>>[1] >= 0 /\ <<t, a, b, c, d>>[5] = d
  BY DEF Keys
<1>6. ASSUME NEW i \in 1..n, NEW c \in SearchChunks
      PROVE  /\ SymbolRows(anchors)[i][c] \in Keys(5) /\ SymbolRows(anchors)[i][c][1] >= 0 /\ SymbolRows(anchors)[i][c][5] = c.id
             /\ PathRows(anchors)[i][c] \in Keys(5) /\ PathRows(anchors)[i][c][1] >= 0 /\ PathRows(anchors)[i][c][5] = c.id
  <2> DEFINE s == SymbolTier(c, anchors[i])
             p == PathTier(c, anchors[i])
             a == <<s, c.path, c.qualified.at, c.start, c.id>>
             b == <<p, c.path, c.start, c.qualified.at, c.id>>
  <2>1. s \in Nat /\ p \in Nat
    BY <1>2
  <2>2. SymbolRows(anchors)[i][c] = a /\ PathRows(anchors)[i][c] = b
    BY <1>3
  <2> HIDE DEF s, p
  <2>3. a \in Keys(5) /\ a[1] >= 0 /\ a[5] = c.id
    BY <1>1, <1>5, <2>1
  <2>4. b \in Keys(5) /\ b[1] >= 0 /\ b[5] = c.id
    BY <1>1, <1>5, <2>1
  <2> HIDE DEF a, b
  <2> QED
    BY <2>2, <2>3, <2>4
<1> QED
  BY <1>4, <1>6 DEF RowKeys

(* The lanes of a plan keep the best and list a chunk once.                *)
LEMMA PlanLanes ==
  ASSUME NEW r \in Requests
  PROVE  LET plan == BuildQuery(r.query)
         IN /\ RankedList(SymbolLane(plan)) /\ KeepsTheBest(SymbolLane(plan), SymbolRows(plan.symbols))
            /\ RankedList(PathLane(plan)) /\ KeepsTheBest(PathLane(plan), PathRows(plan.paths))
<1> DEFINE plan == BuildQuery(r.query)
<1>1. PICK n \in Nat : DOMAIN plan.symbols = 1..n
  BY AnchorsNumbered DEF Numbered
<1>2. PICK m \in Nat : DOMAIN plan.paths = 1..m
  BY AnchorsNumbered DEF Numbered
<1> HIDE DEF plan
<1>3. RowKeys(SymbolRows(plan.symbols), n) /\ RowKeys(PathRows(plan.paths), m)
  BY <1>1, <1>2, RowsHaveKeys
<1>4. RankedList(SymbolLane(plan)) /\ KeepsTheBest(SymbolLane(plan), SymbolRows(plan.symbols))
  BY <1>1, <1>3, LaneRanked, LaneKeepsTheBest DEF SymbolLane
<1>5. RankedList(PathLane(plan)) /\ KeepsTheBest(PathLane(plan), PathRows(plan.paths))
  BY <1>2, <1>3, LaneRanked, LaneKeepsTheBest DEF PathLane
<1> QED
  BY <1>4, <1>5 DEF plan

-----------------------------------------------------------------------------
(* The ranking of a snapshot.  The lanes and the ranked list are those of  *)
(* the request and the snapshot from the time they are loaded on, and an   *)
(* answer packages that list.                                              *)

LoadedLanes(r, s) ==
  LET plan == BuildQuery(r.query)
      loaded == [NoLanes EXCEPT !.descriptive = DescriptiveLane(plan, s),
                                !.symbol = SymbolLane(plan), !.path = PathLane(plan)]
  IN [loaded EXCEPT !.lexical = FuseLanes(loaded), !.vector = CollapseVectors(s)]

Accepted(r) == RequestError(r) = ""
Answered == phase = "done" /\ response.error = ""

Packaged(r) ==
  LET bodies == Bodies(ranked, r.budget)
  IN /\ response.hits = PackageBodies(ranked, bodies)
     /\ response.used = Spent(bodies)
     /\ response.limited = \E i \in DOMAIN bodies : bodies[i].of # "parent"

RankingInv ==
  /\ request \in Requests /\ snapshot \in Snapshots
  /\ phase \in {"idle", "loaded", "ranked", "evaluated", "done"}
  /\ phase \in {"loaded", "ranked"} \/ Answered =>
       Accepted(request) /\ lanes = LoadedLanes(request, snapshot)
  /\ phase = "ranked" \/ Answered =>
       ranked = Fuse(lanes.lexical, VectorsUsed(request), Limit(request))
  /\ Answered => Packaged(request)

(* Each lane of a loaded snapshot.                                         *)
LEMMA LoadedLanesAre ==
  ASSUME NEW r, NEW s
  PROVE  LET plan == BuildQuery(r.query)
             l == LoadedLanes(r, s)
         IN /\ l.descriptive = DescriptiveLane(plan, s)
            /\ l.symbol = SymbolLane(plan) /\ l.path = PathLane(plan)
            /\ l.lexical = FuseLanes(l)
            /\ l.vector = CollapseVectors(s)
<1> DEFINE plan == BuildQuery(r.query)
           d == DescriptiveLane(plan, s)
           y == SymbolLane(plan)
           p == PathLane(plan)
           v == CollapseVectors(s)
           first == [NoLanes EXCEPT !.descriptive = d, !.symbol = y, !.path = p]
           x == FuseLanes(first)
           l == LoadedLanes(r, s)
<1>1. l = [first EXCEPT !.lexical = x, !.vector = v]
  BY DEF LoadedLanes
<1>2. first = [descriptive |-> d, symbol |-> y, path |-> p, lexical |-> <<>>, vector |-> <<>>]
  <2> HIDE DEF d, y, p
  <2> DEFINE a == [NoLanes EXCEPT !.descriptive = d]
             b == [a EXCEPT !.symbol = y]
             c == [b EXCEPT !.path = p]
  <2>1. first = c
    OBVIOUS
  <2> HIDE DEF first
  <2>2. a = [descriptive |-> d, symbol |-> <<>>, path |-> <<>>, lexical |-> <<>>, vector |-> <<>>]
    BY DEF NoLanes
  <2> HIDE DEF a
  <2>3. b = [descriptive |-> d, symbol |-> y, path |-> <<>>, lexical |-> <<>>, vector |-> <<>>]
    BY <2>2
  <2> HIDE DEF b
  <2>4. c = [descriptive |-> d, symbol |-> y, path |-> p, lexical |-> <<>>, vector |-> <<>>]
    BY <2>3
  <2> QED
    BY <2>1, <2>4
<1> HIDE DEF plan, x, v, l
<1>3. l = [descriptive |-> d, symbol |-> y, path |-> p, lexical |-> x, vector |-> v]
  <2> HIDE DEF d, y, p, first
  <2> QED
    BY <1>1, <1>2
<1>4. l.descriptive = d /\ l.symbol = y /\ l.path = p /\ l.lexical = x /\ l.vector = v
  <2> HIDE DEF d, y, p
  <2> QED
    BY <1>3
<1>5. first.descriptive = d /\ first.symbol = y /\ first.path = p
  <2> HIDE DEF d, y, p, first
  <2> QED
    BY <1>2
<1>6. FuseLanes(l) = FuseLanes(first)
  <2>1. l.descriptive = first.descriptive /\ l.symbol = first.symbol /\ l.path = first.path
    <3> HIDE DEF first, d, y, p
    <3> QED
      BY <1>4, <1>5
  <2> HIDE DEF first
  <2> QED
    BY <2>1 DEF FuseLanes
<1> QED
  BY <1>4, <1>6 DEF l, x, v, plan

(* They list a chunk once.                                                 *)
LEMMA LoadedLanesRanked ==
  ASSUME NEW r \in Requests, NEW s \in Snapshots
  PROVE  LET l == LoadedLanes(r, s)
         IN LanesRanked(l) /\ RankedList(l.lexical) /\ RankedList(l.vector)
<1> DEFINE plan == BuildQuery(r.query)
           l == LoadedLanes(r, s)
<1>1. RankedList(DescriptiveLane(plan, s))
  BY DescriptiveRanked
<1>2. RankedList(SymbolLane(plan)) /\ RankedList(PathLane(plan))
  BY PlanLanes
<1>3. RankedList(CollapseVectors(s))
  BY VectorRanked
<1>4. /\ l.descriptive = DescriptiveLane(plan, s) /\ l.symbol = SymbolLane(plan) /\ l.path = PathLane(plan)
      /\ l.lexical = FuseLanes(l) /\ l.vector = CollapseVectors(s)
  BY LoadedLanesAre
<1> HIDE DEF l, plan
<1>5. LanesRanked(l)
  BY <1>1, <1>2, <1>4 DEF LanesRanked
<1>6. RankedList(l.lexical) /\ RankedList(l.vector)
  BY <1>3, <1>4, <1>5, FusedTop
<1> QED
  BY <1>5, <1>6 DEF l

(* A ranking starts with it.                                               *)
LEMMA RankingBegins == RankingInit => RankingInv
  BY DEF RankingInit, RankingInv, Answered

(* Every step of a ranking keeps to its request and snapshot.              *)
LEMMA RankingKept == RankingInv /\ [RankingNext]_rankingVars => RankingInv'
  <2> SUFFICES ASSUME RankingInv, [RankingNext]_rankingVars PROVE RankingInv'
    OBVIOUS
  <2>1. ASSUME Refuse PROVE RankingInv'
    <3>1. response'.error = RequestError(request) /\ RequestError(request) # ""
      BY <2>1 DEF Refuse, Refused, NoResponse
    <3> QED
      BY <2>1, <3>1 DEF Refuse, RankingInv, Answered
  <2>2. ASSUME LoadSnapshot PROVE RankingInv'
    <3>1. CASE IndexCorrupt(snapshot)
      <4>1. response' = Refused("index corrupt") /\ phase' = "done" /\ UNCHANGED <<request, snapshot>>
        BY <2>2, <3>1 DEF LoadSnapshot
      <4>2. response'.error # ""
        BY <4>1 DEF Refused, NoResponse
      <4> QED
        BY <4>1, <4>2 DEF RankingInv, Answered
    <3>2. CASE ~IndexCorrupt(snapshot)
      <4>1. lanes' = LoadedLanes(request, snapshot) /\ phase' = "loaded" /\ UNCHANGED <<request, snapshot, response>>
              /\ RequestError(request) = ""
        BY <2>2, <3>2 DEF LoadSnapshot, LoadedLanes
      <4> QED
        BY <4>1 DEF RankingInv, Answered, Accepted
    <3> QED
      BY <3>1, <3>2
  <2>3. ASSUME Rank PROVE RankingInv'
    BY <2>3 DEF Rank, RankingInv, VectorsUsed, Answered
  <2>4. ASSUME Package PROVE RankingInv'
    <3>1. /\ phase = "ranked" /\ phase' = "done" /\ UNCHANGED <<request, snapshot, lanes, ranked>>
          /\ response'.hits = PackageBodies(ranked, Bodies(ranked, request.budget))
          /\ response'.used = Spent(Bodies(ranked, request.budget))
          /\ response'.limited = \E i \in DOMAIN Bodies(ranked, request.budget) :
                                   Bodies(ranked, request.budget)[i].of # "parent"
      BY <2>4 DEF Package
    <3>2. Packaged(request)'
      BY <3>1 DEF Packaged
    <3> QED
      BY <3>1, <3>2 DEF RankingInv, VectorsUsed, Answered
  <2>5. ASSUME Evaluate PROVE RankingInv'
    <3>1. phase' = "evaluated" \/ (phase' = "done" /\ response'.error = "MATERIALIZATION_REQUIRED")
      BY <2>5 DEF Evaluate, Refused, NoResponse
    <3> QED
      BY <2>5, <3>1 DEF Evaluate, RankingInv, Answered
  <2>6. ASSUME AskAgain PROVE RankingInv'
    BY <2>6 DEF AskAgain, RankingInv, Answered
  <2>7. ASSUME UNCHANGED rankingVars PROVE RankingInv'
    BY <2>7 DEF rankingVars, RankingInv, Packaged, VectorsUsed, Answered
  <2> QED
    BY <2>1, <2>2, <2>3, <2>4, <2>5, <2>6, <2>7 DEF RankingNext

(* Between the steps of a search its lanes, its list and its answer belong *)
(* to the one request and the one snapshot it started with.                *)
THEOREM RankingInvHolds == RankingSpec => []RankingInv
  BY RankingBegins, RankingKept, PTL DEF RankingSpec

(* What the lanes of a ranking are says so.                                *)
LEMMA RankingKeepsTheBest == RankingInv => LanesKeepTheBest
  <2> SUFFICES ASSUME RankingInv, phase = "loaded" PROVE LanesKeepTheBest
    BY DEF LanesKeepTheBest
  <2>1. request \in Requests /\ lanes = LoadedLanes(request, snapshot)
    BY DEF RankingInv
  <2>2. lanes.symbol = SymbolLane(BuildQuery(request.query)) /\ lanes.path = PathLane(BuildQuery(request.query))
    BY <2>1, LoadedLanesAre
  <2> QED
    BY <2>1, <2>2, PlanLanes DEF LanesKeepTheBest

(* Neither the limit of the query of an anchor nor the limit of the lane   *)
(* loses a better match.  CandidateK rows of a tier or better kept a row   *)
(* out of the query; each has a best row of its chunk, no two share one,   *)
(* and those rows fill the lane.                                           *)
THEOREM LanesKeepTheBestHolds == RankingSpec => []LanesKeepTheBest
<1>1. RankingInv => LanesKeepTheBest
  BY RankingKeepsTheBest
<1> QED
  BY <1>1, RankingInvHolds, PTL

LEMMA RankedDomain ==
  ASSUME NEW s, RankedList(s)
  PROVE  Len(s) \in Nat /\ DOMAIN s = 1..Len(s)
<1>1. CandidateK \in Nat
  BY SearchRankingAssumption
<1> QED
  BY <1>1 DEF RankedList

LEMMA LimitIs ==
  ASSUME NEW r \in Requests, Accepted(r)
  PROVE  Limit(r) \in 0..CandidateK /\ r.budget \in Nat
<1> DEFINE k == r.k
           b == r.budget
<1>1. k \in Nat /\ b \in Int /\ CandidateK \in Nat /\ ReturnK \in 1..CandidateK
  BY SearchRankingAssumption
<1>2. ~(k > CandidateK) /\ ~(b < 0)
  BY DEF Accepted, RequestError
<1>3. Limit(r) = IF k = 0 THEN ReturnK ELSE k
  BY DEF Limit
<1> HIDE DEF k, b
<1>4. k \in 0..CandidateK /\ b \in Nat /\ ReturnK \in 0..CandidateK
  BY <1>1, <1>2
<1> QED
  BY <1>3, <1>4 DEF b

LEMMA VectorsUsedIs ==
  ASSUME RankingInv, lanes = LoadedLanes(request, snapshot)
  PROVE  RankedList(VectorsUsed(request)) /\ (VectorsUsed(request) = <<>> \/ VectorsUsed(request) = CollapseVectors(snapshot))
<1>1. request \in Requests /\ snapshot \in Snapshots
  BY DEF RankingInv
<1>2. lanes.vector = CollapseVectors(snapshot)
  BY <1>1, LoadedLanesAre
<1> QED
  BY <1>1, <1>2, VectorRanked, NothingRanked DEF VectorsUsed

(* What the list of a ranking is says so.                                  *)
LEMMA RankingKeepsAgreement == RankingInv => AgreementKept
  <2> SUFFICES ASSUME RankingInv, phase = "ranked",
                      NEW y \in Ids(ranked), NEW x \in {c.id : c \in SearchChunks},
                      NowhereBehind(x, y), Places(x) # Places(y)
               PROVE  Place(ranked, x) \in 1..(Place(ranked, y) - 1)
    BY DEF AgreementKept
  <2> DEFINE nearest == VectorsUsed(request)
             limit == Limit(request)
             l == lanes
  <2>1. /\ request \in Requests /\ snapshot \in Snapshots /\ Accepted(request)
        /\ lanes = LoadedLanes(request, snapshot) /\ ranked = Fuse(lanes.lexical, nearest, limit)
    BY DEF RankingInv
  <2>2. LanesRanked(l) /\ RankedList(l.lexical)
    BY <2>1, LoadedLanesRanked
  <2>3. l.lexical = FuseLanes(l)
    BY <2>1, LoadedLanesAre
  <2>4. RankedList(nearest)
    BY <2>1, VectorsUsedIs
  <2>5. limit \in 0..CandidateK
    BY <2>1, LimitIs
  <2>6. x \in ChunkIds /\ x # y
    BY DEF ChunkIds
  <2>7. /\ RankTie(Place(l.symbol, x)) <= RankTie(Place(l.symbol, y))
        /\ RankTie(Place(l.path, x)) <= RankTie(Place(l.path, y))
        /\ RankTie(Place(l.descriptive, x)) <= RankTie(Place(l.descriptive, y))
        /\ RankTie(Place(nearest, x)) <= RankTie(Place(nearest, y))
    <3>1. /\ Places(x)[1] <= Places(y)[1] /\ Places(x)[2] <= Places(y)[2]
          /\ Places(x)[3] <= Places(y)[3] /\ Places(x)[4] <= Places(y)[4]
      BY DEF NowhereBehind
    <3> QED
      BY <3>1 DEF Places
  <2> HIDE DEF nearest, limit, l
  <2>8. RankTie(Place(l.lexical, x)) <= RankTie(Place(l.lexical, y))
    <3>1. CandidateK \in Nat
      BY SearchRankingAssumption
    <3>2. CASE y \in Ids(l.lexical)
      <4>1. x \in Ids(l.lexical) /\ Place(l.lexical, x) < Place(l.lexical, y)
        BY <2>2, <2>3, <2>6, <2>7, <3>2, LexicalAgreement
      <4>2. RankTie(Place(l.lexical, x)) = Place(l.lexical, x) /\ RankTie(Place(l.lexical, y)) = Place(l.lexical, y)
        BY <2>2, <3>2, <4>1, RankTieIs
      <4>3. Place(l.lexical, x) \in 0..CandidateK /\ Place(l.lexical, y) \in 0..CandidateK
        BY <2>2, PlaceIs
      <4> QED
        BY <3>1, <4>1, <4>2, <4>3
    <3>3. CASE y \notin Ids(l.lexical)
      <4>1. RankTie(Place(l.lexical, x)) \in 1..(CandidateK + 1) /\ RankTie(Place(l.lexical, y)) \in 1..(CandidateK + 1)
              /\ ~(RankTie(Place(l.lexical, y)) <= CandidateK)
        BY <2>2, <3>3, RankTieIs
      <4> QED
        BY <3>1, <4>1
    <3> QED
      BY <3>2, <3>3
  <2>9. ranked = Fuse(l.lexical, nearest, limit)
    BY <2>1 DEF l
  <2> QED
    BY <2>2, <2>4, <2>5, <2>6, <2>7, <2>8, <2>9, FuseAgreement

(* What all lanes agree on survives both fusions and the cut between them. *)
(* The key of a fused list begins with a score no lane lowers and goes on  *)
(* with the places, one of which is strictly before.                       *)
THEOREM AgreementKeptHolds == RankingSpec => []AgreementKept
<1>1. RankingInv => AgreementKept
  BY RankingKeepsAgreement
<1> QED
  BY <1>1, RankingInvHolds, PTL

(* The chunks of an answer and their segments are not empty.               *)
LEMMA RankedAreHits ==
  ASSUME NEW s \in Snapshots, NEW lexical, RankedList(lexical), NEW nearest,
         nearest = <<>> \/ nearest = CollapseVectors(s),
         NEW limit \in 0..CandidateK, NEW i \in 1..Len(Fuse(lexical, nearest, limit))
  PROVE  Hit(Fuse(lexical, nearest, limit)[i])
<1> DEFINE t == Fuse(lexical, nearest, limit)
           x == t[i]
<1>1. RankedList(nearest)
  BY VectorRanked, NothingRanked
<1>2. Top(t, Both(lexical, nearest), FuseKeys(lexical, nearest), limit)
  BY <1>1, FuseTop
<1>3. x \in Both(lexical, nearest)
  <2>1. t \in [1..Len(t) -> Both(lexical, nearest)]
    BY <1>2 DEF Top
  <2> QED
    BY <2>1
<1> HIDE DEF x
<1>4. x.id \in ChunkIds /\ x = SideRecord(lexical, nearest, x.id)
  BY <1>1, <1>3, BothIs
<1>5. ASSUME x.segment # {} PROVE SegmentBytes(x) \in Nat \ {0}
  <2> DEFINE k == Place(nearest, x.id)
  <2>1. x.segment = IF k = 0 THEN {} ELSE {nearest[k].segment}
    BY <1>4 DEF SideRecord
  <2>2. k # 0 /\ x.segment = {nearest[k].segment}
    BY <1>5, <2>1
  <2>3. k \in 1..Len(nearest)
    <3>1. k \in 0..CandidateK /\ CandidateK \in Nat
      BY <1>1, PlaceIs, SearchRankingAssumption
    <3> QED
      BY <1>1, <2>2, <3>1, PlaceIs
  <2> HIDE DEF k
  <2>4. nearest = CollapseVectors(s)
    BY <2>3
  <2>5. nearest[k] \in Scored(s)
    <3>1. CandidateK \in Nat
      BY SearchRankingAssumption
    <3>2. nearest \in [1..Len(nearest) -> BestSegments(s)]
      BY <2>4, CollapsedTop DEF Top
    <3> QED
      BY <2>3, <3>2 DEF BestSegments, Usable
  <2>6. PICK c \in SearchChunks : \E g \in c.segments : nearest[k] = SegmentScore(s, c, g)
    BY <2>5 DEF Scored
  <2>7. PICK g \in c.segments : nearest[k] = SegmentScore(s, c, g)
    BY <2>6
  <2>8. x.segment = {g}
    BY <2>2, <2>7 DEF SegmentScore
  <2>9. g.from \in Nat /\ g.to \in Nat /\ g.from < g.to
    BY SearchRankingAssumption DEF ChunkAssumption
  <2>10. SegmentBytes(x) = g.to - g.from
    BY <2>8 DEF SegmentBytes
  <2> QED
    BY <2>9, <2>10
<1> QED
  BY <1>4, <1>5 DEF Hit, x

(* What the bodies of a ranking are says so.                               *)
LEMMA RankingKeepsToBudget == RankingInv => BudgetKeptAndUsed
  <2> SUFFICES ASSUME RankingInv, Answered PROVE BudgetKeptAndUsed
    BY DEF BudgetKeptAndUsed, Answered
  <2> DEFINE nearest == VectorsUsed(request)
             limit == Limit(request)
             lexical == lanes.lexical
             budget == request.budget
             bodies == Bodies(ranked, budget)
  <2>1. /\ request \in Requests /\ snapshot \in Snapshots /\ Accepted(request)
        /\ lanes = LoadedLanes(request, snapshot) /\ ranked = Fuse(lexical, nearest, limit)
        /\ Packaged(request)
    BY DEF RankingInv
  <2>2. limit \in 0..CandidateK /\ budget \in Nat
    BY <2>1, LimitIs
  <2>3. RankedList(lexical)
    BY <2>1, LoadedLanesRanked
  <2>4. RankedList(nearest) /\ (nearest = <<>> \/ nearest = CollapseVectors(snapshot))
    BY <2>1, VectorsUsedIs
  <2>5. /\ response.hits = PackageBodies(ranked, bodies) /\ response.used = Spent(bodies)
        /\ response.limited = \E i \in DOMAIN bodies : bodies[i].of # "parent"
    BY <2>1 DEF Packaged
  <2> HIDE DEF nearest, limit, lexical, budget, bodies
  <2>6. RankedList(ranked)
    BY <2>1, <2>2, <2>3, <2>4, FuseTop
  <2>7. Len(ranked) \in Nat /\ DOMAIN ranked = 1..Len(ranked)
    BY <2>6, RankedDomain
  <2>8. \A i \in 1..Len(ranked) : Hit(ranked[i])
    BY <2>1, <2>2, <2>3, <2>4, RankedAreHits
  <2>9. /\ DOMAIN bodies = 1..Len(ranked)
        /\ Spent(bodies) \in 0..budget
        /\ \A i \in 1..Len(ranked) :
             /\ bodies[i].of # "parent" => Chunk(ranked[i].id).size > budget - Spent(bodies)
             /\ bodies[i].bytes = 0 /\ ranked[i].segment # {} => SegmentBytes(ranked[i]) > budget - Spent(bodies)
    BY <2>2, <2>7, <2>8, BodiesFit DEF bodies
  <2>10. /\ response.hits = [i \in 1..Len(ranked) |-> response.hits[i]]
         /\ \A i \in 1..Len(ranked) : response.hits[i].id = ranked[i].id /\ response.hits[i].body = bodies[i]
    <3> DEFINE hits == response.hits
    <3>1. hits = [i \in 1..Len(ranked) |-> [id |-> ranked[i].id, source |-> ScoreSource(ranked[i]), body |-> bodies[i]]]
      BY <2>5, <2>7 DEF PackageBodies
    <3> HIDE DEF hits
    <3>2. \A i \in 1..Len(ranked) : hits[i].id = ranked[i].id /\ hits[i].body = bodies[i]
      BY <3>1
    <3>3. hits = [i \in 1..Len(ranked) |-> hits[i]]
      BY <3>1
    <3> QED
      BY <3>2, <3>3 DEF hits
  <2>11. Len(response.hits) = Len(ranked)
    <3> DEFINE hits == response.hits
               m == Len(ranked)
    <3>1. m \in Nat /\ hits = [i \in 1..m |-> hits[i]]
      BY <2>7, <2>10
    <3> HIDE DEF hits, m
    <3>2. Len(hits) = m
      BY <3>1, LenIs
    <3> QED
      BY <3>2 DEF hits, m
  <2>12. response.used <= budget
    <3> DEFINE spent == Spent(bodies)
    <3>1. spent \in 0..budget
      BY <2>9
    <3> HIDE DEF spent
    <3>2. spent <= budget
      BY <2>2, <3>1
    <3> QED
      BY <2>5, <3>2 DEF spent
  <2>13. ASSUME NEW i \in 1..Len(ranked)
         PROVE  /\ response.hits[i].id = ranked[i].id
                /\ response.hits[i].body.of # "parent" =>
                     response.limited /\ Chunk(ranked[i].id).size > budget - response.used
                /\ response.hits[i].body.bytes = 0 /\ ranked[i].segment # {} =>
                     SegmentBytes(ranked[i]) > budget - response.used
    <3>1. response.hits[i].id = ranked[i].id /\ response.hits[i].body = bodies[i] /\ i \in DOMAIN bodies
      BY <2>9, <2>10
    <3>2. bodies[i].of # "parent" => response.limited
      BY <2>5, <3>1
    <3> QED
      BY <2>5, <2>9, <3>1, <3>2
  <2> QED
    BY <2>7, <2>11, <2>12, <2>13 DEF BudgetKeptAndUsed, budget

(* The bodies keep to the budget together, and nothing left out of the     *)
(* answer would fit in what is left: the rest only falls.                  *)
THEOREM BudgetKeptAndUsedHolds == RankingSpec => []BudgetKeptAndUsed
<1>1. RankingInv => BudgetKeptAndUsed
  BY RankingKeepsToBudget
<1> QED
  BY <1>1, RankingInvHolds, PTL

-----------------------------------------------------------------------------
(* The server: a behaviour exercises one of the three.                     *)
SearchRests == step = "idle" /\ answer = NoAnswer
LanesRest == phase = "idle"

ServerInv ==
  \/ part = "search" /\ IInv /\ LanesRest /\ call = "idle"
  \/ part = "ranking" /\ SearchRests /\ RankingInv /\ call = "idle"
  \/ part = "tools" /\ SearchRests /\ LanesRest /\ ToolInv

(* The server starts with one of them, the others at rest.                 *)
LEMMA ServerBegins == ServerInit => ServerInv
<1>1. ASSUME part = "search", HybridInit, RankingRests, ToolsRest PROVE ServerInv
  BY <1>1, Initially DEF ServerInv, RankingRests, LanesRest, ToolsRest
<1>2. ASSUME part = "ranking", HybridRests, RankingInit, ToolsRest PROVE ServerInv
  BY <1>2, RankingBegins DEF ServerInv, HybridRests, SearchRests, ToolsRest
<1>3. ASSUME part = "tools", HybridRests, RankingRests, ToolInit PROVE ServerInv
  BY <1>3, ToolInitially DEF ServerInv, HybridRests, SearchRests, RankingRests, LanesRest
<1> QED
  BY <1>1, <1>2, <1>3 DEF ServerInit

(* A step of one leaves the others at rest.                                *)
LEMMA ServerKept ==
  ASSUME ServerInv, [ServerNext]_serverVars
  PROVE  ServerInv'
<1>1. UNCHANGED hybridOnly => (SearchRests => SearchRests')
  BY DEF hybridOnly, searchVars, SearchRests
<1>2. UNCHANGED rankingVars => (LanesRest => LanesRest')
  BY DEF rankingVars, LanesRest
<1>3. UNCHANGED toolOnly => call' = call
  BY DEF toolOnly, toolVars
<1>4. CASE part = "search" /\ HybridNext /\ UNCHANGED <<rankingVars, toolOnly, part>>
  <2>1. IInv' /\ LanesRest' /\ call' = "idle" /\ part' = "search"
    BY <1>2, <1>3, <1>4, Inductive DEF ServerInv
  <2> QED
    BY <2>1 DEF ServerInv
<1>5. CASE part = "ranking" /\ RankingNext /\ UNCHANGED <<catalogVars, hybridOnly, toolOnly, part>>
  <2>1. SearchRests' /\ RankingInv' /\ call' = "idle" /\ part' = "ranking"
    BY <1>1, <1>3, <1>5, RankingKept DEF ServerInv
  <2> QED
    BY <2>1 DEF ServerInv
<1>6. CASE part = "tools" /\ ToolNext /\ UNCHANGED <<hybridOnly, rankingVars, part>>
  <2>1. SearchRests' /\ LanesRest' /\ ToolInv' /\ part' = "tools"
    BY <1>1, <1>2, <1>6, ToolInductive DEF ServerInv
  <2> QED
    BY <2>1 DEF ServerInv
<1>7. CASE UNCHANGED serverVars
  <2>1. UNCHANGED <<catalogVars, hybridOnly, rankingVars, toolOnly, part>>
    BY <1>7 DEF serverVars
  <2>2. UNCHANGED hybridVars /\ UNCHANGED <<catalogVars, toolVars>>
    BY <2>1 DEF hybridVars, hybridOnly, toolOnly
  <2>3. IInv => IInv'
    BY <2>2, Inductive
  <2>4. RankingInv => RankingInv'
    BY <2>1, RankingKept
  <2>5. ToolInv => ToolInv'
    BY <2>2, ToolInductive
  <2> QED
    BY <1>1, <1>2, <1>3, <2>1, <2>3, <2>4, <2>5 DEF ServerInv
<1> QED
  BY <1>4, <1>5, <1>6, <1>7 DEF ServerNext

(* Every behaviour of the server keeps the invariant of what it does.      *)
THEOREM ServerInvariance == ServerSpec => []ServerInv
  BY ServerBegins, ServerKept, PTL DEF ServerSpec

(* A server keeps to the spaces of its queries, raises no false alarm, and *)
(* its rankings keep agreement, best matches and budget.                   *)
THEOREM ServerIsSound ==
  ServerSpec => [](SameSpace /\ NoFalseAlarm /\ AgreementKept /\ LanesKeepTheBest /\ BudgetKeptAndUsed)
<1>1. IInv \/ SearchRests => SameSpace /\ NoFalseAlarm
  <2>1. IInv => SameSpace /\ NoFalseAlarm
    BY DEF IInv, OwnQuery, NoFalseAlarm
  <2>2. SearchRests => answer.used = {} /\ answer.reason # "VECTOR_SNAPSHOT_INVALID"
    <3>1. NoAnswer.used = {} /\ NoAnswer.reason = ""
      BY Zenon DEF NoAnswer
    <3> QED
      BY <3>1 DEF SearchRests
  <2> QED
    BY <2>1, <2>2 DEF SameSpace, NoFalseAlarm
<1>2. RankingInv \/ LanesRest => AgreementKept /\ LanesKeepTheBest /\ BudgetKeptAndUsed
  BY RankingKeepsAgreement, RankingKeepsTheBest, RankingKeepsToBudget
  DEF LanesRest, AgreementKept, LanesKeepTheBest, BudgetKeptAndUsed
<1>3. ServerInv => SameSpace /\ NoFalseAlarm /\ AgreementKept /\ LanesKeepTheBest /\ BudgetKeptAndUsed
  BY <1>1, <1>2 DEF ServerInv
<1> QED
  BY <1>3, ServerInvariance, PTL

(* Nor does it drop a query it paid for but for a newer generation, or     *)
(* call a status clean that is not.                                        *)
THEOREM ServerActsSoundly == ServerSpec => PaidQueryUsed /\ CleanStatusIsTrue
<1>1. ASSUME ServerInv, [ServerNext]_serverVars
      PROVE  [step = "hybrid" /\ answer'.reason # "" => answer'.generation > seen.generation]_hybridVars
  <2>1. CASE part = "search"
    <3>1. IInv
      BY <1>1, <2>1 DEF ServerInv
    <3>2. [HybridNext]_hybridVars
      BY <1>1, <2>1 DEF ServerNext, serverVars, hybridVars, hybridOnly
    <3> QED
      BY <3>1, <3>2, PaidQueryStep
  <2>2. CASE part # "search"
    BY <1>1, <2>2 DEF ServerInv, SearchRests
  <2> QED
    BY <2>1, <2>2
<1>2. ASSUME ServerInv, [ServerNext]_serverVars
      PROVE  [reply'.tool = "status" /\ call # "idle" /\ reply'.clean /\ ~reply'.changed =>
                /\ reply'.manifest = meta.manifest
                /\ \A p \in Enabled[server.index] : <<p, files[p]>> \in witnessed]_<<catalogVars, toolVars>>
  <2>1. CASE part = "tools"
    <3>1. ToolInv
      BY <1>2, <2>1 DEF ServerInv
    <3>2. [ToolNext]_<<catalogVars, toolVars>>
      BY <1>2, <2>1 DEF ServerNext, serverVars, toolOnly
    <3> QED
      BY <3>1, <3>2, CleanStatusStep
  <2>2. CASE part # "tools"
    BY <1>2, <2>2 DEF ServerInv
  <2> QED
    BY <2>1, <2>2
<1> QED
  BY <1>1, <1>2, ServerInvariance, PTL DEF ServerSpec, PaidQueryUsed, CleanStatusIsTrue
=============================================================================
