# cidx: a TLA+ verification project

`cidx` is a local code-search server. It indexes a worktree into SQLite, buys
document embeddings when the user approves, and answers `search`, `status`,
`read_span` and `reindex` over MCP. This directory models the parts of it where
order, concurrency and partial failure decide whether the result is right, checks
them with TLC on small instances, and proves the central facts with TLAPS for
every instance. Paths below are relative to `src/internal/`.

Contents: 1 the system, 2 the modules, 3 the runs, 4 fairness, 5 the proofs,
6 what is not modelled, 7 findings, 8 what could follow.

## 1. The system

| component | state it keeps | operations | hard parts | correct when |
|---|---|---|---|---|
| index service (`index/service.go`, `lock.go`) | `index.lock`; local variables of a run | `Plan`, `Execute` | three reads of the store and one of each file in one run; editors move the worktree meanwhile; early returns | a publication equals a rebuild, installs only contents of this run, is refused only for cause; the lock comes back |
| production store (`store/`) | `meta`, `files`, `chunks`, `embedding_segments`, `vector_cache`, `embedding_failures`, `embedding_runs` | `PublishIndexGeneration`, `PlanLegacyServingVectorRekeys`, `PublishEmbeddedVector`, `StartEmbeddingRun`, `FinishEmbeddingRun`, `PublishMaterializedVectors`, snapshots | incremental writes under three independent profiles; checks that roll a transaction back | rows, manifest and profiles of one generation belong together; vectors keep the source they were paid under |
| profiles (`config/impact.go`, `legacy_profile.go`) | none | `PlanImpact`, `LegacyServingProfileEquivalent` | which change requires what | as above |
| embedding (`app/embed.go`, `embedlock/`) | `embed.lock`, the approved plan, a run | `PlanWithOptions`, `Apply` | provider, source bank and database share no transaction; the index moves during a run; processes die | no answer is paid twice or without approval; every vector has its bank row; the run ledger accepts and means what it says |
| executor (`embed/executor.go`, `plan.go`) | two channels, a worker pool | `Execute`, `Group` | stop-and-drain against workers in flight; retries and cancellation | each group accounted for once; attempts counted exactly; it returns |
| source bank (`sourcebank/`) | `document_source_embeddings` | `ExistingKeys`, `PutDocumentSources` | immutable rows written by several processes | a row never changes |
| search (`search/`, `store/hybrid_snapshot.go`, `symbol/query_tokens.go`) | none between requests | `Search`, `ClassifyQuery`, `FuseLanes`, `fuse`, `packageBodies` | two reads of the store with a paid call between them; four lanes with their own limits, ties and two fusions; one byte budget for all bodies | the query vector is compared only with vectors of its space; a paid query is used; no limit or fusion loses what every lane prefers; the budget is kept and used |
| vector materialisation (`store/vector_build.go`, `devapp/materialize.go`) | a staged build | `Activate`, `PublishMaterializedVectors` | replaces all vectors from an older snapshot | as above |
| MCP server (`mcp/server.go`) | id table, queue, lifecycle, writer | `Serve` | reader and workers share the table but not one critical section; pipelining, cancellation, reused ids, shutdown | every accepted request is answered once; the table is exact; `Serve` returns |
| init (`app/bootstrap.go`) | `.cidx`, the staged configuration, the database, `config.json` | `Initialize`, its cleanup | several calls at once, failures half way and in the cleanup, crashes | `config.json` means a complete database; cleanup takes its own files, all it can remove, and no others; one call wins |
| tool handlers (`mcp/handlers.go`, `app/status.go`, `readspan.go`, `commands.go`) | none | `status`, `search`, `read_span`, `reindex` | reads of the store around a walk over files that change, and of single files after a search | a clean status is true of the index there is when it answers |
| schema and migrations (`store/schema.go`, `production.go`, `sqlite.go`) | `user_version`, tables, the legacy path | `OpenProduction`, four migrations | each migration checks and writes in different transactions; processes migrate at once, die between two | what a transaction leaves can be opened; somebody gets in; rows survive |
| relation review (`relationdiag/review.go`, `devlab/relation_review.go`) | the files of a review | `prepare-emissions`, `prepare`, `prepare-adoption`, `freeze`, `select` | a dozen files written by commands and people in any order, by commands that may die half way | a selection rests on one chain of files; frozen labels can be evaluated; every conflict can be settled |
| relation diagnostics (`relationdiag/evaluate.go`, `completion.go`, `packaging.go`) | none: reports | `Evaluate`, `Complete`, `Package` | rankings under ten policies, caps, reservations, budgets and ties; labels come in last | no graph makes it fail; caps keep what matters; what is reported is exact |
| chunkers, canonical text, enumeration, quantisation | none | pure functions | data | abstracted |
| graph builder, lab, evaluation of datasets, CLI, packaging | reports | development tools | | not modelled |

Interactions. Index runs, embedding runs, vector builds and searches are
processes (CLI, Git hook, server, developer tools) that meet only in the
database. `index.lock` excludes index runs from each other and `embed.lock`
embedding runs and builds from each other; neither excludes the other kind, and
searches take no lock. What holds the system together is that each writer proves
again, inside its transaction, that the generation it worked from is the active
one. `Apply` runs the executor, which calls Apply's success handler serially.
The MCP server's handlers call the search, status, span and index services.
The relation laboratory reads the product's files and meets it nowhere else.

`PROJECT.json` lists every component with its status, and under `hazards` each
place where this goes wrong in a way a unit test would hardly reach.

## 2. The modules

```
IndexContents        pure: segments, keys, manifests, profile changes
 |- ProductionStore    the database: publication, checks, legacy vectors
 |   `- IndexService     Plan and Execute by several processes
 `- Catalog            what readers may rely on: generations installed whole
     |- EmbedService     paid embedding over the catalog
     |- HybridSearch     one search, builds, other writers
     `- ToolServices     status, search, spans, reindexing, edited files
SearchQuery            pure: what a query is read as
 `- SearchRanking        one snapshot, ranked, cut and packaged
SearchServer           HybridSearch, SearchRanking, ToolServices
Execution              what a caller may rely on of embed.Execute
 `- Executor             embed.Execute: coordinator, workers, channels
McpServer              Server.Serve
Initialize  cidx init            DatabaseOpen  opening and migrating
Startup                Initialize and DatabaseOpen
RelationRanking        pure: tiers, statistics, orders
 `- RelationSelection    Evaluate of a query: anchors to labels
     `- RelationCompletion   ranking, endpoints, closures, hints
         `- RelationPackaging    arms, cells, the decision
Review                 the review protocol
RelationLab            Review and RelationPackaging
```

Instances for TLC are `MCIndexService`, `MCEmbedService`, `MCSearchServer`,
`MCMcpServer`, `MCStartup`, `MCReview`, `MCRelationPackaging` and `MCRelationLab`. Theorems are
in modules of their own, each of which extends what it is about:
`IndexServiceProofs`, `EmbedServiceProofs`, `ExecutorProofs`, `McpServerProofs`,
`StartupProofs` (about `Initialize` and `DatabaseOpen`, and about both in
`Startup`), `SearchServerProofs` (about `HybridSearch`, `ToolServices` and
`SearchRanking`, and about the three in `SearchServer`) and `RelationLabProofs`
(about `Review` and the four modules of the diagnostics, and about both in
`RelationLab`). `DataTheorems` has the lemmas about numbers, finite sets, sums and
strict linear orders that `ExecutorProofs` and the last two need.

**Catalog is the hinge.** `IndexService` refines it: `Abstract == INSTANCE Catalog
WITH meta <- meta, files <- files, segments <- segments` hides the plans, the
lock, the vectors and every step but publication, and `ImplementsCatalog` is
checked by TLC and proved. `EmbedService`, `HybridSearch` and `ToolServices` are
composed with `Catalog` instead of with the pipeline, and what they establish
holds over the pipeline.

`SearchServer`, `Startup` and `RelationLab` put parts side by side that share a
database, a directory or a set of files but cannot disturb each other (each says
why): a behaviour exercises one of them.

**IndexContents.** A path's content is a model value; `Chunks` gives the segment
bodies a content is cut into under an index profile. The key of a segment
(`CanonicalInput`) depends on path, body and canonical-text profile. A
configuration is four profile fingerprints: index, canonical text, source and
storage. `Desired` are configurations of this release, `Retired` those only an
older one wrote.

**ProductionStore.** `PublishIndexGeneration` is one action, as it is one
transaction: drop rows of deleted and changed files, insert prepared ones, move
the others, copy legacy vectors, replace `meta`; `PublishAccepted` is the
conjunction of the checks that roll it back.

**IndexService.** One action per step of `Execute` at which another process can
get in: `Call`, `AcquireLock`, `PlanRun`, `TakeBase`, `ReadFile` (one per
candidate), `PreparePublication`, `ReturnUnchanged` (dry run, nothing to do),
`Publish`, and `Abandon` (an error, a cancellation or a crash at any step).
Around it `EditFile` and `EmbedInput`. `onDisk` is a history variable.

**EmbedService.** `Approve` is the plan the user sees; `AcquireState`,
`CheckPlan`, `ReturnStale`, `StartEmbeddingRun` are the prologue of `Apply`;
`PublishSourceInput` settles inputs the bank already has; `SendGroup`, `Answer`,
`Collect` are the executor as Apply sees it; `PutDocumentSource` and
`PublishAnswer` are the success handler, per input; `StopAndDrain`,
`RecordFailure`, `FinishEmbeddingRun` and `Abandon` are the ways out. `Crash`
drops the lock and leaves the run row. `paid` is a history variable.

**Executor.** The coordinator's `select` (`Send`, `Receive`, `SeeCancel`), the
handler (`Handle`, `HandlerFails`), `Drain`, the return, and per worker
`Attempt`, `Retry`, `Deliver`, `Exit`. `Capacity` is that of `completed`.
`Execution` is what `Apply` may rely on whatever these do, and the form in which
`EmbedService` takes it: groups leave a queue, a bounded number is at the
provider, each comes back as one outcome, outcomes are collected and handled one
at a time, and what is at the provider after a stop comes back cancelled before
Execute returns. `Implements` says that the first refines the second.

**McpServer.** The reader (`ReadRequest`, `ReadDuplicate`, `ReadCancelled`,
`ReadInitialized`, the three ways out of the enqueueing `select`, end of input,
return) and the workers (`Take`, `Dispatch`, `Check`, `Write`, `Release`,
`Exit`). Writing the response and deleting the id are separate steps, as they
are in the code.

**HybridSearch.** `Preflight`, `QueryEmbedding`, `HybridSearch`,
`LexicalSearch`, against `Reindex`, `EmbedInput`, `StartBuild` and
`PublishMaterializedVectors`. A vector carries the source profile its row names
and, as history, the one it was `paid` under. `resolved` never changes: a server
resolves its configuration when it starts.

**SearchQuery, SearchRanking.** A query is a sequence of fragments, each with the
features `queryFragmentStyle` looks at; `BuildQuery` gives tokens and anchors or
a refusal. `LoadSnapshot` fills the symbol, path and descriptive lanes with the
orders of their SQL and their comparison functions, `FuseLanes` and `Fuse` are
the two fusions, `CollapseVectors` the best segment of a chunk, `Package` the
hits and the bodies. Scores are exact fractions over a common denominator.

**ToolServices.** A tool call takes the steps at which files or the index can
change under it: `StatusSnapshot`, `Enumerate`, one `VisitFile` per path,
`CompareGeneration`; `SearchFinds` and `ObserveSource`; `IndexedCandidate` and
`ReadSpan`; `ReindexTool`. `witnessed` is the history of contents seen during
the call.

**DatabaseOpen.** One action per system call or transaction of
`OpenProduction`: the two looks and the rename of the legacy path, the owner
file, the version, the table count, creation, each check, each migration, the
meta row. A database is its `user_version`, the version its meta table was made
for, the columns a check or a migration looks at, and its rows. A check and the
transaction after it are separate steps; the checks inside one `require` are one.

**Initialize.** One action per system call of `Initialize` and of `cleanup`:
each `Lstat`, `MkdirAll`, exclusive create, link and remove. A file's value is
the call that created it, so "whose file is this" can be stated. Every step can
fail. Errors inside `cleanup` are ignored there, and so they are here
(`IgnoredError`): a removal that fails leaves its file and the cleanup goes on,
and a database that cannot be statted counts as another call's. `StatFails` is
the database that is created and then cannot be statted, so that nobody claims
it. The history variable `unremoved` notes what a call so left behind.

**Review.** `files` is the directory: each file holds what was written, or
`NoFile`. Every subcommand is one `Start` and then one step per file it writes;
its checks are made on what it read when it started, and `Killed` ends it between
two writes. `Grade`, `Adjudicate`, `Adopt` are what people hand in - anything the
format allows -, `EditSource` and `ClearSelection` what they change. Digests are
identities of contents.

**RelationRanking to RelationPackaging.** Pure definitions, a step per phase of
`Evaluate` for one query (`SelectAnchors`, `Reach`, `Select...`, `Package`,
`Label`), then `Complete` and `Replay`. Keys are sequences of components that
say which way they go, as the ranking tuples of the code are. Labels are chosen
in the last step: nothing before it can depend on them.

## 3. The runs

All run with two TLC workers within five minutes. Operators named as bugs in the
modules ("A bug this project can tell") are the mutants of `PROJECT.json`: with
one put in place of a definition, the property it is listed with fails.

| run | instance | shows |
|---|---|---|
| IndexTwoWriters | two indexers, two paths, three contents (one oversize), two configurations (other segments, other languages), one generation | `ManifestNamesFiles`; `NoSpuriousRefusal`: no check of the publication refuses what a run prepared; `IncrementalEqualsRebuild` |
| IndexProfiles | one indexer, a retired configuration, its equivalent, one with another canonical text and one with another source, two generations, a vector, a content no chunker accepts | `ImplementsCatalog`; `PublishesFreshContents`; `VectorLineage`; `LegacyVectorsCarried`: moving to the equivalent loses no paid vector; `LockReleased` |
| EmbedConcurrent | two appliers, two serving dimensions, crashes, an index run | `NoRepeatPayment`; `BoughtAsApproved`: nothing is bought that was not approved, and nothing of it is thrown away by a changed approval; `LockFreed` |
| EmbedSequence | one applier, two runs, every fault | `PublishedFromBank`; `RunRecordTrue`: the ledger accepts what a run says, and a success covers all its inputs |
| Executor | three groups, two workers, one retry | `GroupsAccounted` (`EachGroupOnce` at every moment, `ReturnAccounts` with the attempts charged at the end); `Implements`; `Terminates` |
| McpServer | three ids, two workers, four frames | `TableExact`; `AnsweredOnce` (with the handshake) |
| McpLiveness | two ids, two workers, three frames | `EveryRequestAnswered`; `ServeReturns` |
| SearchServer | two paths, three vector spaces (two share a source), three generations; four chunks of two files, seven queries, limits and budgets at their edges, all small vector snapshots; one server and another process over two paths and two contents | `SameSpace`; `NoFalseAlarm`; `PaidQueryUsed`; `AgreementKept`; `LanesKeepTheBest`; `BudgetKeptAndUsed`; `CleanStatusIsTrue` |
| Startup | three calls of init, I/O errors (the cleanup's own included), crashes, a user's `config.json`; three openers of a database of any version, at the old or the new path, with faults and deaths | `ConfigMeansDatabase`; `ClaimIsKept`; `FailureLeavesUnremovable`: what stays behind is what its own call could not remove; `OneWins`; `AlwaysOpens`; `SomeoneOpens`; `RowsSurvive` |
| RelationLab | a review of one query with a parent and two identities of one body, two drafts, nine events; twelve relations of which up to two or five make a graph, ten policies of three kinds, labels, artifacts, units | `SelectionRestsOnOneChain`; `FrozenLabelsEvaluate`; `EitherSideSettles`; `EvaluationNeverFails`; `CapsKeepBridgesAndBest`; `ReportExact` |
| EmbedGroupFirst, EmbedCaptured | one applier, one group of two inputs | violations: see 7 |

Why the bounds are enough to be interesting:

- two paths: one is changed or deleted while the other is carried over, which is
  what the incremental case is about; content `a` is cut differently by the two
  index profiles, `b` into two segments, and profile `i2` drops a language
  (`IndexTwoWriters`); a key changes without its body where only the canonical
  text does (`IndexProfiles`);
- two generations after the first: a row can survive one publication and be
  moved by the next. `IndexTwoWriters` needs one only: the race is to publish it;
- `MaxPaid` bounds answers per input at what the run asks about; two embedding
  runs are what repetition needs, the second has the first's bank and failures;
- the executor needs more groups than workers, so that one group waits while
  others are in flight, and one retry to tell attempts apart;
- with four frames and three ids the client can fill the queue so that a request
  is answered busy, or send a request, cancel it and use its id again; for
  liveness two ids and three frames keep both workers and the queue in use;
- three generations let an index move during a search and again before a build;
- three calls of init: one can clean up between two others; three openers: one
  sleeps in a migration while two go on, one of which dies;
- a lane limit of three with four chunks, so that a limit cuts; budgets from
  nothing to everything; requests at, above and below the limits. `RRFK = 7`
  keeps exact fractions and the code's floating-point sums of up to three
  reciprocals in the same order, which no choice guarantees in general;
- nine events are the shortest way to a selection and one more after it; two
  drafts of one text differ in what counts as required, so that a packet, labels
  and emissions of the one can be mixed with the other's;
- a bucket of the frontier holds two edges, as in the code, so five relations
  fill one and leave a bridge without a place; graphs of three and four
  relations are left out for time, those of none, one, two and five kept.

`MaxGeneration`, `LastGeneration`, `MaxVectors`, `MaxRuns`, `MaxPaid`, `MaxFrames`
and `MaxSteps` are guards of the model and not of the code. Symmetry is used only in runs without temporal
properties, among calls, openers or processes the code treats alike. Deadlock is checked everywhere but in `Startup` and
`RelationLab`, whose calls and commands all end; in the others a system at rest has an explicit stuttering action.

## 4. Fairness

- A process inside `Execute` or `Apply` keeps running (`WF` of `Proceed`). Both
  locks are polled and promise nobody a turn, so no fairness is assumed of
  acquiring one: `LockReleased` and `LockFreed` say that a holder lets go.
- Goroutines that can run are scheduled (`Executor`, `McpServer`); every attempt
  ends because it has a timeout; tool handlers return. The caller need not
  cancel, and the client owes nothing. Only when the root context is done is the
  end of input fair: the command closes the input then.
- A provider answers or times out (`Answer` is part of `Proceed`).

## 5. The proofs

**`IndexServiceProofs`**, for every set of paths, contents, indexers and
configurations satisfying the `ASSUME`s of `IndexContents`, `ProductionStore`
and `IndexService` (TLC evaluates these on every run). The properties are not
inductive: that a publication leaves what a rebuild would depends on a plan made
several steps earlier being about the same database. `IInv` therefore adds, per
indexer, what holds at each step of its run (`RunInv`): inside a run it holds
the lock; from the second snapshot on its plan, then its base, then its prepared
rows and vectors agree with the database (`Planned`, `Based`, `Prepared`). The
step that matters is `PublishStep`, which rests on lemmas about the rows alone:
`RowsOfRebuilt`, `KeptRowRekeyed` (changing a row's key and profiles is what
cutting its file again would give), `PublishedIsRebuilt`, `ManifestOfPublished`,
`PreparedIsAccepted`. Every other step leaves the database alone
(`OthersUndisturbed`) or is its owner's (`OwnStep`).

From `Invariance` follow `TypeCorrect`, `IncrementalIsRebuild`, `ManifestIsExact`,
`NeverSpuriouslyRefused` and `LineageKept`; `PipelineImplementsCatalog` maps
every step to an installation or a stutter; `FreshContentsPublished` needs a
second invariant about the history variable (`FreshInductive`).
`LegacyVectorsKept` needs a third (`CarryInductive`): the list of legacy vectors
a run drew up still has every one worth copying when it publishes, because
nobody else publishes meanwhile and embedding never adds a vector of a legacy
profile - the one place where `LegacyAssumption` is used.

**`EmbedServiceProofs`**, for any appliers, configurations, contents and faults.
`IInv` says what being inside `Apply` means: one holds the lock, and only the
holder writes the bank; the plan was made before anybody could write it, or again
under the lock; a group is in one place and shares no input with another; and
while the generation is active, nothing the run has left to settle was dropped
from the index or got a vector (`Worth`). From it follow `ServedOnlyFromBank`,
`NothingPaidTwice` and `ApprovedIsBought`. `LedgerIsTrue` needs a second invariant
(`LedgerInductive`): what a run has not settled shrinks by one with every success
or failure it counts, so that counts and rest make up what it was started for,
and while nothing failed an active input has a vector or is among the rest. The
counting rests on `FiniteAssumption`: finitely many files of finitely many segments.

**`ExecutorProofs`**, for any number of groups, any pool, any retries. A group in
hand has one holder - a worker, the channel or the results -, the holders are
counted, and what was charged for a group is what its holder says
(`OneHolder`, `Count`, `Charged`): `NoGroupLost`, `ReturnIsComplete` and both as
`GroupsAreAccounted`. `ExecuteImplementsExecution` is the refinement. The workers,
the channel and the coordinator's hands are read as the sets of `Execution`
(`Flying`, `Arrived`, ...); what `IInv` lacks for it is that an attempt is counted
before its group comes back (`Tried`) and that the pool is stopped exactly when
there is a result (`Ended`), so `EInv == IInv /\ Tried /\ Ended`. Each step of
`Executor` is then one step of `Execution` or none: taking a group is `Send`,
having its last answer `Answer`, and the delivery through the channel nothing.

**`McpServerProofs`**, for any ids, workers and frames. A request in flight is in
one place - offered by the reader, in the queue, or with a worker (`OnePlace`) -
so that a worker's delete, which is by id, removes its own entry only:
`TableIsExact`, `AnsweredAtMostOnce`.

**`SearchServerProofs`**, in four parts. A search: a storage profile has one
source profile, no writer takes away a generation's last active vector, and what
a search has seen stands as long as the generation it saw (`SeenStands`). Hence
`ComparedInOneSpace`, `NeverFalselyAlarmed` and, as an action property,
`PaidQueryIsUsed`. A status: while it has counted nothing, each path it is done
with had its row's content, and each path it found no file at was without one, at
some moment of the call (`Witnesses`); the snapshot it compares with is the
index as long as the generation is the same: `CleanIsTrue`, an action property.

A ranking: `RankingInv` says that lanes, list and answer are those of the one
request and snapshot the search began with, whatever was asked before; the rest
is about what the operators compute, for any chunks, anchors, scores and limits.
`LanesKeepTheBestHolds`: each order by which a lane is sorted is linear on its
rows (keys that differ are told apart by their last component), a list sorted by
places has every row at one place, so a row that the limit cuts is behind every
row it keeps. `AgreementKeptHolds` needs it of both fusions: a chunk that no lane
places behind another has at least its sum of reciprocals, and the ties go the
way of the lanes. `BudgetKeptAndUsedHolds` is an induction over the ranked list:
what the bodies chosen so far spend is within the budget, and what was passed
over did not fit then and does not fit later.

The server: `ServerInv` is the invariant of the part a behaviour exercises, with
the other two at rest. A step of one leaves the others as they are, so it is
inductive, and what was proved of each part holds of `ServerSpec`, which the run
checks: `ServerIsSound` for the invariants, `ServerActsSoundly` for the action
properties.

**`DataTheorems`.** The library's induction theorems take operators, which the
provers cannot instantiate. Here induction is over sets of numbers and
recursion gives functions: `LeastNumber` (a non-empty set of naturals has a
least element), `Climb` (a set with 0 and, with n, n + 1 has all), `Recursion`
(the function that a recursive definition over an interval names exists and
satisfies it), `Values` (the values it stays in). `PlacesDiffer` and
`PlacesTaken`: in a strict linear order of a finite set, counting the elements
before one gives every element a place of its own and every place an element
(`Listed`: putting it in order lists each element once). `SumExists` and `OneSum`: a
sum over a finite set is the one function its fold defines, so sums can be taken
apart (`SumAdds`, `SumGrows`).

**`StartupProofs`**, in three parts. `Initialize`, for any set of calls (at least
one). `Holding` says which files a call owns at each of its steps, the steps of its cleanup included, and
`Committed` what a linked configuration implies; together they are inductive
(`Ownership`): `ConfigurationCommits`, `ClaimsAreKept`. Two more parts
(`NothingAbandoned`) give the rest: what is on the disk belongs to a call that
will still remove it, or that failed to remove it or to know it for its own
(`Left`: `FailuresCleanUp`), and before the configuration is
linked no call that staged its own can lose, nor any lose before one has (`Race`:
`RaceHasOneWinner`).

`DatabaseOpen`, for any set of openers (at least one). `Level(d)` is what
every transaction leaves: the tables a database has follow from its version. A
migration that wakes up late may take version 5 back to 4 and never further, so
`Reached(v)` is what a process that once saw version v may rely on. `NextOneOpens`
and `NoRowLost` follow; `OneOpens` because without a fault some process always
leads.

Together: a step of one of them leaves the other's variables alone, so a
behaviour of `Startup` is one of each (`StartupIsBoth`) and keeps all seven
invariants (`StartupIsSound`).

**`RelationLabProofs`**, in four parts. The review, for any series, request, bodies,
grades and number of commands. Files may change or go at any time, so the
invariant is about contents: whatever is in a file, or on its way into one, was
made by a command whose checks held (`Contents`). `EvaluationRestsOnOneChain`
reads it off; `ConflictsCanBeSettled` is that taking one reviewer's side keeps
relations subordinate to their parents. `LabelsEvaluate` is that no equation of the
evaluation fails for labels that were validly frozen. Outcomes sum up to what they
classify (`CountByKind`), what is complete is what the protected primaries cover plus what
is new (`CompleteIsCoveredAndNew`), a protected primary's groups are its own query's
(`OwnGroups`, for which the invariant keeps labels within the groups of their query),
and the global scope counts every row of a cell (`GlobalAgrees`). `ReviewAssumption`
is used here: a series lists finitely many rows and the contract names a query (40
in `review.go`). The theorem has one hypothesis, `ProtectedBodiesDiffer`, because
without it the property is false: candidates are told apart by their bodies, both
`prepare` commands accept a query whose protected parents share one, and only
`select` refuses it (`review.go:1647`). TLC checks that the requests of the run
satisfy it.

The diagnostics, for any graphs, queries, rankings and limits of which
`RankingAssumption` and `SelectionAssumption` hold: graphs are finite and satisfy
the checks of the schema of relations.db, a bucket holds at least two edges, the
frontier sixteen buckets (2 and 32 in `model.go`). Four steps lead to
`NeverFails` and `CapsLoseNothing`.

1. *One order.* Components of a key are weakly ordered, fractions too, which the
   code compares crosswise (`Fractions`). Under every policy a candidate's tuple
   is an opening, what the policy weighs and a closing, each of one shape, and the
   closing tells any two candidates apart (`CandidatesKeyed`). So `CandidateLess`
   is a strict linear order and the first difference has a name
   (`DifferencesNamed`): a tie is never without one.
2. *Room.* Anchor place, direction and tier determine a bridge, and are its bucket:
   no two bridges share one (`CandidatesFramed`). A full bucket from which a
   bridge is missing therefore holds an edge to give up that is neither a bridge
   nor the first of all candidates (`SomethingToGive`).
3. *Reservations.* One after the other, they keep the sizes, the first of all
   candidates and every bridge already in place (`ReserveKeeps`); by recursion over
   their order all bridges end in place (`ReservationsKeep`, `Assigned`). There are
   sixteen buckets (`BucketsFew`), so the frontier is not exceeded (`TraceIs`).
4. *The winner.* Within a tier Pareto dominance is a strict partial order, so every
   candidate is dominated by a survivor (`SurvivorsAbove`), and a lone survivor
   dominates all the others (`GraphOnlyIs`).

`DiagnosticsInv` adds to the two properties what ties a selection to its input:
group and facts are what follows from graph, query and hits.

The reports, for any artifacts, units and contracts besides: `ReportsAreExact`. Its
invariant `ReportInv` says that evidence was completed from one artifact and a replay
made from such evidence; the rest is about what the operators compute.

1. *Ties.* The rows of an artifact are in one strict order, of which each parent has
   one first row (`BestRow`, `OneWinner`); so places of the collapse and parents
   correspond, and the tie of a place runs from behind the parents ahead of its score
   to the last that is level with it (`TieIs`). A status is exact just when that
   interval does not straddle the boundary (`StatusIsExact`).
2. *Misses.* Siblings are emitted in one order (`SiblingsOrdered`), and under a budget
   of as many bodies and bytes as there are the recursion emits each of them
   (`NextFits`, `AllAreEmitted`): what some budget can mend is what shares a file with
   a primary parent (`SomeBudgetPackagesAll`, `MissesTold`).
3. *Charges.* `Ledger` relates the rows so far to the pairs already counted: each
   name is charged once and counted once, charges are consecutive, and a row's bytes
   are the sum of the bodies charged up to it. Every further row keeps it
   (`LedgerKept`), whatever reason it was given (`OmissionIs`).

`PackagingAssumption` is used here: parents are finitely many and every row of an
artifact is about a parent with a body, which `Complete` checks before it ranks
(`completion.go:714`). The laboratory: either part keeps its invariant while the other
stays as it is (`LabInvariance`), so all six invariants of the run hold of it
(`LabIsSound`, under `ProtectedBodiesDiffer`).

**Assumptions.** The theorems hold under the `ASSUME`s of the modules they are about,
which TLC evaluates on every run: profiles determine one another as the code's hashes
do, a legacy profile is never a current one, sets of files and segments are finite, so
are a series of completions and the graphs of relations.db, markers (`Absent`, `Nobody`,
`NoGroup`, `NoFile`) are not values, there is at least one process, bounds are numbers.
No bound that is a guard of the model has a value in any proof.

**Only model-checked:** all liveness (`LockReleased`, `LockFreed`, `Terminates`,
`EveryRequestAnswered`, `ServeReturns`): this prover does not reach it. Every
invariant and every action property that a passing run checks is a theorem.

## 6. What is not modelled, and why

- *Enumeration is atomic.* `PlanRun` and `Enumerate` see the worktree at one
  moment; the files are then read one by one while it changes. Git and ignore
  rules are data.
- *Text, SQL and numbers.* Chunk bodies, vectors and BM25 values are data; the
  property of a vector that counts is where it was paid, of a text how it
  matches. Full-text rows are deleted by recomputing what was inserted, from
  columns the model does not keep. Quantisation and normalisation transform one
  value. The code adds floating-point reciprocals in the order of its lanes, so
  two chunks with equal exact sums may come out unequal (`lexical/rank.go`).
- *Migrations:* a migration's SQL is what it does to columns and rows; the check
  after one migration and the same check before the next are one step.
- *Status:* vector counts are left out. A `reindex` reply takes its generation
  from the run and the rest from a later status (`mcp/handlers.go:61`).
- *Search:* the path lane's SQL orders by place before name while the merged
  lane does the reverse (`store/hybrid_snapshot.go:540`); both are modelled, and
  the model shows no better tier is lost by it. `search/evaluation.go` only as
  far as it evaluates the service; sampling and reports are left out.
- *Init:* a process other than cidx that swaps the database between the ownership
  check and the removal is left out. The three companions of the database are one
  file: some of them removed and others not is the removal that failed.
- *Embedding:* a request cancelled in flight may still be charged by the provider
  and its answer is lost; nobody can prevent that. `paid` counts the answers
  that arrived. An input recorded as terminally failed stays failed although the
  bank has its source, and a killed run's row stays `running`: by design.
- *MCP:* a pipelined `notifications/initialized` read before a worker
  dispatched `initialize` is ignored; the model has it and claims nothing of it.
- *GarbageCollectInactiveVectors* is called by no command.
- *Review:* `FreezeReview` writes `frozen.json` before the owner's adoption, and
  `SelectReview` its checksums last into a directory it found empty: both are
  modelled. Left out: the rotation of attachments in the second packet (relations
  are not rotated), validation of paths, and a protected primary parent that a
  request lists twice, which `prepare` accepts and only `select` refuses
  (`relationdiag/review.go:1647`; two of one body are the hypothesis of
  `LabelsEvaluate`). An adjudication of an attachment that is not
  contested is validated and ignored, in the model as in the code.
- *Diagnostics:* one query at a time - aggregates over queries are sums -; the
  artifacts' reading, writing and checksums are left out, and so is a dataset
  that changes between the three times it is read. `BRIDGE_CAP_OVERFLOW`,
  `SELF_CYCLE` and `SIBLING_ALREADY_EMITTED` cannot be reached. Endpoint rows of
  unobserved parents follow map iteration order (`completion.go:980`); rows are a
  set in the model. `relationFirstLoss` uses 0 both for "no group yet" and for the
  first stage (`evaluate.go:2782`), so an unreachable group that is followed by a
  better one is not reported: modelled as it is, with no claim about it.
- *The graph builder* resolves names of two languages by tree-sitter traversal
  and writes one artifact; *lab, dataset evaluation and retrieval artifacts,
  CLI, packaging*: single processes that read and report.

## 7. Findings

Two rules of `docs/implementation/08-raw-embedding-lab.md` do not hold of the
code as written. Both are about the order of durability and publication inside
one response group; neither leads to a double payment for what the bank has.

- `EmbedGroupFirst`: a whole response group is to be durable in the bank before
  anything of it is published; the handler alternates bank row and vector, per input.
- `EmbedCaptured`: when the generation changes during collection, results of
  captured inputs are to be preserved; the first refused publication stops the
  handler, and the rest of its group and the drained answers are not banked.

## 8. What could follow

- Proofs about what no run asks yet: hints, clusters and the decision of a replay.
- The legacy import of the source bank, the lab's collector, the retrieval
  artifacts of `devlab` and `eval`.
