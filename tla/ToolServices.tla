---------------------------- MODULE ToolServices ----------------------------
(***************************************************************************)
(* What one tool call of the MCP server does (internal/mcp/handlers.go,    *)
(* internal/app/status.go, readspan.go, commands.go) while the user edits  *)
(* the worktree and other processes index.  status reads the index (its    *)
(* vector counts are left out), walks the files, asks for the generation;  *)
(* reindex reports with a status taken afterwards; a span is read from the *)
(* file as it is now, for a locator that an earlier search returned.       *)
(***************************************************************************)
EXTENDS Catalog

CONSTANTS
  LongContents,   \* contents with spans over hard_max_inline_bytes
  NoLocator,      \* the client has searched nothing yet
  ToolConfigs,    \* bound: the configurations of the server and of other index runs
  LastGeneration  \* bound on generations installed

ASSUME ToolAssumption ==
  LastGeneration \in Nat /\ LongContents \subseteq Contents /\ ToolConfigs \subseteq Desired

VARIABLES
  worktree,   \* the files as they are
  server,     \* the configuration the server resolved when it started
  call,       \* the step the tool call is at
  view,       \* what the call has collected
  locator,    \* [path, content] the last search returned
  reply,
  witnessed   \* history: <<path, content>> the worktree held since the status began

toolVars == <<worktree, server, call, view, locator, reply, witnessed>>

NoView == [generation |-> 0, manifest |-> NoManifest, files |-> [p \in Paths |-> Absent],
           todo |-> {}, live |-> {},
           stale |-> 0, unindexed |-> 0, errors |-> 0, activated |-> 0, reindex |-> FALSE]
NoReply == [tool |-> "none", code |-> "", clean |-> FALSE, changed |-> FALSE, state |-> "",
            activated |-> 0, manifest |-> NoManifest]
Answer(tool) == [NoReply EXCEPT !.tool = tool]
Failed(tool, code) == [Answer(tool) EXCEPT !.code = code]

Candidates(cfg) == {p \in Enabled[cfg.index] : worktree[p] # Absent}
OnDisk == {<<p, worktree[p]>> : p \in Paths}

ToolInit ==
  /\ CatalogInit /\ meta.profiles \in ToolConfigs
  /\ worktree \in FileTables
  /\ server \in ToolConfigs
  /\ call = "idle" /\ view = NoView /\ locator = NoLocator /\ reply = NoReply
  /\ witnessed = {}

-----------------------------------------------------------------------------
(* callTool: a request with wrong arguments, or for no tool, is refused.   *)

FirstStep == [status |-> "status", search |-> "search", read_span |-> "candidate", reindex |-> "reindex"]

CallTool ==
  /\ call = "idle"
  /\ \/ \E tool \in DOMAIN FirstStep :
          /\ tool = "read_span" => locator # NoLocator
          /\ call' = FirstStep[tool]
          /\ reply' = NoReply
          /\ locator' = IF tool = "read_span" THEN locator ELSE NoLocator
          /\ witnessed' = IF tool = "status" THEN OnDisk ELSE {}
     \/ reply' = Failed("unknown", "invalidParams") /\ UNCHANGED <<call, locator, witnessed>>
  /\ UNCHANGED <<catalogVars, worktree, server, view>>

(* A call ends with its reply and forgets what it collected.               *)
Reply(r) == reply' = r /\ call' = "idle" /\ view' = NoView /\ witnessed' = {}
Step(next) == call' = next /\ UNCHANGED <<reply, witnessed>>
World == <<catalogVars, worktree, server>>

-----------------------------------------------------------------------------
(* status *)

StatusSnapshot ==
  /\ call = "status"
  /\ view' = [view EXCEPT !.generation = meta.generation, !.manifest = meta.manifest, !.files = files]
  /\ Step("enumerate")
  /\ UNCHANGED <<World, locator>>

Enumerate ==
  /\ call = "enumerate"
  /\ view' = [view EXCEPT !.todo = Candidates(server), !.live = Candidates(server)]
  /\ Step("walk")
  /\ UNCHANGED <<World, locator>>

(* One file of the walk: it may be gone, or another one, by now.           *)
VisitFile ==
  /\ call = "walk"
  /\ \E p \in view.todo :
       view' = [view EXCEPT !.todo = @ \ {p},
                  !.unindexed = IF view.files[p] = Absent THEN @ + 1 ELSE @,
                  !.errors = IF view.files[p] # Absent /\ worktree[p] = Absent THEN @ + 1 ELSE @,
                  !.stale = IF Absent \notin {view.files[p], worktree[p]} /\ worktree[p] # view.files[p]
                            THEN @ + 1 ELSE @]
  /\ Step("walk")
  /\ UNCHANGED <<World, locator>>

Deleted == {p \in Paths : view.files[p] # Absent /\ p \notin view.live}
Clean == view.stale + view.unindexed + view.errors + Cardinality(Deleted) = 0

(* A bug this project can tell: the second read is left out.               *)
NeverChanged == FALSE

GenerationChanged == meta.generation # view.generation

CompareGeneration ==
  /\ call = "walk" /\ view.todo = {}
  /\ IF view.reindex
     THEN Reply([Answer("reindex") EXCEPT !.activated = view.activated, !.manifest = view.manifest])
     ELSE Reply([Answer("status") EXCEPT !.manifest = view.manifest, !.clean = Clean,
                                   !.changed = GenerationChanged])
  /\ UNCHANGED <<World, locator>>

-----------------------------------------------------------------------------
(* search, as the client sees it: a locator, and the state of its file.    *)

SearchFinds ==
  /\ call = "search"
  /\ \/ \E p \in {q \in Paths : files[q] # Absent} :
          locator' = [path |-> p, content |-> files[p]] /\ Step("source") /\ UNCHANGED view
     \/ Reply(Answer("search")) /\ UNCHANGED locator
  /\ UNCHANGED World

SourceState ==
  IF worktree[locator.path] = Absent THEN "deleted"
  ELSE IF worktree[locator.path] = locator.content THEN "current" ELSE "stale"

ObserveSource ==
  /\ call = "source"
  /\ Reply([Answer("search") EXCEPT !.state = SourceState])
  /\ UNCHANGED <<World, locator>>

(* read_span: the listing, then one read of the file itself.               *)
IndexedCandidate ==
  /\ call = "candidate"
  /\ IF locator.path \in Candidates(server)
     THEN Step("span") /\ UNCHANGED view
     ELSE Reply(Failed("read_span", "FILE_NOT_FOUND"))
  /\ UNCHANGED <<World, locator>>

ReadSpanCode ==
  LET live == worktree[locator.path]
  IN IF live = Absent THEN "FILE_NOT_FOUND"
     ELSE IF live # locator.content THEN "FILE_STALE"
     ELSE IF live \in LongContents THEN "SPAN_TOO_LARGE" ELSE ""

ReadSpan ==
  /\ call = "span"
  /\ Reply(Failed("read_span", ReadSpanCode))
  /\ UNCHANGED <<World, locator>>

-----------------------------------------------------------------------------
(* reindex: a run of the index service, seen as one step, then a status.   *)

Live(cfg) == [p \in Paths |-> IF p \in Enabled[cfg.index] THEN worktree[p] ELSE Absent]
UpToDate(cfg) == meta.profiles = cfg /\ files = Live(cfg) /\ meta.generation > 0

ReindexTool ==
  /\ call = "reindex"
  /\ \/ Reply(Answer("reindex")) /\ UNCHANGED catalogVars    \* a dry run, or a refusal
     \/ /\ UpToDate(server) /\ UNCHANGED catalogVars
        /\ view' = [view EXCEPT !.reindex = TRUE]
        /\ Step("status")
     \/ /\ ~UpToDate(server) /\ meta.generation < LastGeneration
        /\ InstallAs(server, Live(server))
        /\ view' = [view EXCEPT !.reindex = TRUE, !.activated = meta.generation + 1]
        /\ Step("status")
  /\ UNCHANGED <<worktree, server, locator>>

(* A call that fails or is cancelled ends with an error.                   *)
CallFails ==
  /\ call # "idle"
  /\ Reply(Failed("any", "APPLICATION_ERROR"))
  /\ UNCHANGED <<World, locator>>

-----------------------------------------------------------------------------
(* The others.                                                             *)

Calls == <<server, call, view, locator, reply>>

Edit ==
  /\ \E p \in Paths, c \in Contents \cup {Absent} :
       /\ worktree[p] # c
       /\ worktree' = [worktree EXCEPT ![p] = c]
       /\ witnessed' = IF witnessed = {} THEN {} ELSE witnessed \cup {<<p, c>>}
  /\ UNCHANGED <<catalogVars, Calls>>

IndexElsewhere ==
  /\ meta.generation < LastGeneration
  /\ \E cfg \in ToolConfigs : ~UpToDate(cfg) /\ InstallAs(cfg, Live(cfg))
  /\ UNCHANGED <<worktree, witnessed, Calls>>

ToolNext ==
  \/ CallTool \/ StatusSnapshot \/ Enumerate \/ VisitFile \/ CompareGeneration
  \/ SearchFinds \/ ObserveSource \/ IndexedCandidate \/ ReadSpan \/ ReindexTool \/ CallFails
  \/ Edit \/ IndexElsewhere

ToolSpec == ToolInit /\ [][ToolNext]_<<catalogVars, toolVars>>

-----------------------------------------------------------------------------
(***************************************************************************)
(* A status that counts nothing stale, unindexed, deleted or unreadable    *)
(* and saw no other generation is true of the index there is when it       *)
(* answers: that index has the manifest it reports, every indexed file had *)
(* its content at some moment of the call, and a path without a row was    *)
(* without a file.                                                         *)
(***************************************************************************)
CleanStatusIsTrue ==
  [][reply'.tool = "status" /\ call # "idle" /\ reply'.clean /\ ~reply'.changed =>
       /\ reply'.manifest = meta.manifest
       /\ \A p \in Enabled[server.index] : <<p, files[p]>> \in witnessed]_<<catalogVars, toolVars>>
=============================================================================
