---------------------------- MODULE EmbedService ----------------------------
(***************************************************************************)
(* Paid document embedding: PublicEmbedding.Plan and Apply, run by several *)
(* processes while the index moves to new generations under them.          *)
(*                                                                         *)
(* Apply spans three parties that share no transaction: the provider       *)
(* (charged per answer), the source bank embeddings.db (immutable f32 of   *)
(* every answer) and the production database (serving vectors, failures,   *)
(* run ledger).  embed.lock keeps a second Apply out; nothing keeps the    *)
(* index out, so each write proves again that its generation is current.   *)
(* The index is the abstract Catalog: all Apply may rely on.               *)
(***************************************************************************)
EXTENDS Catalog, Functions

CONSTANTS
  Appliers,        \* processes that may run Apply
  Nobody,          \* value of embed.lock when it is free
  NoPlan,          \* an applier has no approved plan
  MaxInputs,       \* inputs in one provider request
  MaxConcurrency,  \* provider requests in flight
  Faults,          \* which of "crash", "cancel", "database", "transform" happen
  MaxGeneration,   \* bound on generations installed
  MaxRuns,         \* bound on embedding runs started
  MaxPaid          \* bound on answers paid for one input

ASSUME EmbedAssumption ==
  /\ Nobody \notin Appliers
  /\ MaxInputs \in Nat \ {0} /\ MaxConcurrency \in Nat \ {0}
  /\ Faults \subseteq {"crash", "cancel", "database", "transform"}
  /\ MaxGeneration \in Nat /\ MaxRuns \in Nat /\ MaxPaid \in Nat

VARIABLES
  vectors,    \* vector_cache: [serving, source, input, raw]
  failures,   \* latest row of embedding_failures per key: [source, input, class]
  bank,       \* document_source_embeddings: [source, input, raw]
  runs,       \* embedding_runs
  embedLock,  \* holder of embed.lock
  pc,         \* step of Apply each applier is at
  approved,   \* the plan the user approved
  job,        \* local variables of Apply and Execute
  paid        \* history: answers charged, per <<source, input>>

ledger == <<vectors, failures, runs>>
embedVars == <<catalogVars, ledger, bank, embedLock, pc, approved, job, paid>>

Steps == {"idle", "locking", "checking", "starting", "sourcing", "executing",
          "storing", "publishing", "draining", "aborting", "recording", "finishing"}

(***************************************************************************)
(* queue, flying and arrived are the groups not sent, at the provider, and *)
(* answered but not collected by Execute's loop; outcomes are collected.   *)
(* todo are the inputs the current loop still has to settle, storing the   *)
(* one between its bank row and its publication.                           *)
(***************************************************************************)
NoJob == [run |-> 0, todo |-> {}, answer |-> NoPlan, current |-> NoPlan,
          queue |-> {}, flying |-> {}, arrived |-> {}, outcomes |-> {},
          succeeded |-> 0, failed |-> 0, discarded |-> 0, error |-> "none"]

EmbedInit ==
  /\ CatalogInit
  /\ vectors = {} /\ failures = {} /\ bank = {} /\ runs = << >>
  /\ embedLock = Nobody
  /\ pc = [x \in Appliers |-> "idle"]
  /\ approved = [x \in Appliers |-> NoPlan]
  /\ job = [x \in Appliers |-> NoJob]
  /\ paid = << >>

-----------------------------------------------------------------------------
(* Planning: one snapshot of the production store, one look at the bank.   *)

Ready(input, serving) == \E v \in vectors : v.serving = serving /\ v.input = input

Banked(source, input) == \E r \in bank : r.source = source /\ r.input = input

Terminal(source, input) == [source |-> source, input |-> input, class |-> "terminal"] \in failures

(* Bugs this project can tell: a vector of another profile counts as ready, *)
(* or the bank is not consulted.                                           *)
ReadyUnderAnyProfile(inputs) == { i \in inputs : \E v \in vectors : v.input = i }
NoBankHits(inputs) == {}

ReadyInputs(inputs) == { i \in inputs : Ready(i, meta.serving) }

(* ExistingKeys *)
BankHits(inputs) == { i \in inputs : Banked(meta.profiles.source, i) }

CurrentPlan(retry) ==
  LET source  == meta.profiles.source
      active  == ActiveInputs(segments, meta.serving)
      ready   == ReadyInputs(active)
      skipped == { i \in active \ ready : Terminal(source, i) /\ ~retry }
      wanted  == active \ (ready \cup skipped)
  IN [generation |-> meta.generation, manifest |-> meta.manifest, retry |-> retry,
      source |-> source, storage |-> meta.serving,
      distinct |-> Cardinality(active), ready |-> Cardinality(ready),
      skipped |-> skipped,
      fromBank |-> BankHits(wanted),
      fromProvider |-> wanted \ BankHits(wanted)]

Payable(plan) == plan.distinct - plan.ready - Cardinality(plan.skipped)

(* What every write of a run proves again inside its own transaction.      *)
Current(x) ==
  /\ meta.generation = approved[x].generation
  /\ meta.manifest = approved[x].manifest
  /\ meta.profiles.source = approved[x].source
  /\ meta.serving = approved[x].storage

Active(x, input) == input \in ActiveInputs(segments, approved[x].storage)

-----------------------------------------------------------------------------
(* Transactions of the production store.                                   *)

PublishEmbeddedVector(x, input, raw) ==
  /\ Current(x) /\ Active(x, input)
  /\ vectors' = { v \in vectors : ~(v.serving = approved[x].storage /\ v.input = input) }
                \cup {[serving |-> approved[x].storage, source |-> approved[x].source,
                       input |-> input, raw |-> raw]}
  /\ failures' = { f \in failures : ~(f.source = approved[x].source /\ f.input = input) }

RecordCurrentEmbeddingFailure(x, input, class) ==
  /\ Current(x) /\ Active(x, input) /\ ~Ready(input, approved[x].storage)
  /\ failures' = { f \in failures : ~(f.source = approved[x].source /\ f.input = input) }
                 \cup {[source |-> approved[x].source, input |-> input, class |-> class]}
  /\ UNCHANGED vectors

FinishAllowed(plan, j, status) ==
  /\ j.succeeded + j.failed + j.discarded <= Payable(plan)
  /\ status = "succeeded" => j.succeeded = Payable(plan)
  /\ status = "partially_succeeded" => j.succeeded # 0
  /\ status = "failed" => j.succeeded = 0

StatusOfError(j) ==  \* a bug: groups that failed are not seen
  IF j.error = "none" THEN "succeeded"
  ELSE IF j.succeeded > 0 THEN "partially_succeeded"
  ELSE IF j.error = "cancelled" THEN "cancelled"
  ELSE "failed"

FinalStatus(j) ==
  IF j.error = "none" /\ j.failed + j.discarded = 0 THEN "succeeded"
  ELSE IF j.succeeded > 0 THEN "partially_succeeded"
  ELSE IF j.error = "cancelled" THEN "cancelled"
  ELSE "failed"

-----------------------------------------------------------------------------
(* Steps of Apply.                                                         *)

Goto(x, step) == pc' = [pc EXCEPT ![x] = step]

Return(x) ==
  /\ Goto(x, "idle")
  /\ embedLock' = IF embedLock = x THEN Nobody ELSE embedLock
  /\ approved' = [approved EXCEPT ![x] = NoPlan]
  /\ job' = [job EXCEPT ![x] = NoJob]

(* PlanWithOptions and the user's approval: an unlocked preview.           *)
Approve(x) ==
  /\ pc[x] = "idle"
  /\ Len(runs) < MaxRuns
  /\ meta.manifest # NoManifest
  /\ \E retry \in BOOLEAN : approved' = [approved EXCEPT ![x] = CurrentPlan(retry)]
  /\ Goto(x, "locking")
  /\ UNCHANGED <<catalogVars, ledger, bank, embedLock, job, paid>>

AcquireState(x) ==
  /\ pc[x] = "locking"
  /\ embedLock = Nobody
  /\ embedLock' = x
  /\ Goto(x, "checking")
  /\ UNCHANGED <<catalogVars, ledger, bank, approved, job, paid>>

(* A bug this project can tell: the generation alone is compared.           *)
SameGeneration(x) == meta.generation = approved[x].generation

(* A fresh plan under the lock has to be exactly the approved one.         *)
SameApprovedPlan(x) == CurrentPlan(approved[x].retry) = approved[x]

CheckPlan(x) ==
  /\ pc[x] = "checking"
  /\ SameApprovedPlan(x)
  /\ Goto(x, "starting")
  /\ UNCHANGED <<catalogVars, ledger, bank, embedLock, approved, job, paid>>

(* A bug this project can tell: the stale return forgets the lock.          *)
ReturnStaleLocked(x) ==
  /\ pc[x] = "checking" /\ ~SameApprovedPlan(x)
  /\ Goto(x, "idle")
  /\ UNCHANGED <<catalogVars, ledger, bank, embedLock, approved, job, paid>>

ReturnStale(x) ==
  /\ \/ pc[x] = "checking" /\ ~SameApprovedPlan(x)
     \/ pc[x] = "starting" /\ ~Current(x)
  /\ Return(x)
  /\ UNCHANGED <<catalogVars, ledger, bank, paid>>

StartEmbeddingRun(x) ==
  /\ pc[x] = "starting"
  /\ Current(x)
  /\ runs' = Append(runs, [generation |-> meta.generation, status |-> "running",
                           skipped |-> approved[x].skipped])
  /\ job' = [job EXCEPT ![x].run = Len(runs'), ![x].todo = approved[x].fromBank]
  /\ Goto(x, "sourcing")
  /\ UNCHANGED <<catalogVars, vectors, failures, bank, embedLock, approved, paid>>

(* One input with a vector in hand: publish it, or find its segment gone   *)
(* or the vector untransformable.  Counted, and taken off the todo list.   *)
Settle(x, input, raw) ==
  \/ /\ PublishEmbeddedVector(x, input, raw)
     /\ job' = [job EXCEPT ![x].succeeded = @ + 1, ![x].todo = @ \ {input}]
  \/ /\ "transform" \in Faults
     /\ RecordCurrentEmbeddingFailure(x, input, "terminal")
     /\ job' = [job EXCEPT ![x].failed = @ + 1, ![x].todo = @ \ {input}]
  \/ /\ Current(x) /\ ~Active(x, input)
     /\ job' = [job EXCEPT ![x].discarded = @ + 1, ![x].todo = @ \ {input}]
     /\ UNCHANGED <<vectors, failures>>

(* publishSourceInputs: vectors already paid for, without the provider.    *)
PublishSourceInput(x) ==
  /\ pc[x] = "sourcing"
  /\ \E i \in job[x].todo : \E r \in bank :
       /\ r.source = approved[x].source /\ r.input = i
       /\ Settle(x, i, r.raw)
  /\ UNCHANGED <<catalogVars, bank, runs, embedLock, pc, approved, paid>>

(* A write was refused: the index moved on, the database failed, or the    *)
(* context the write runs under was cancelled.                             *)
WriteFails(x) ==
  \/ /\ ~Current(x) \/ "database" \in Faults
     /\ job' = [job EXCEPT ![x].error = "error"]
  \/ /\ "cancel" \in Faults
     /\ job' = [job EXCEPT ![x].error = "cancelled"]

SourceInputFails(x) ==
  /\ pc[x] = "sourcing"
  /\ job[x].todo # {}
  /\ WriteFails(x)
  /\ Goto(x, "finishing")
  /\ UNCHANGED <<catalogVars, ledger, bank, embedLock, approved, paid>>

(* Group: consecutive inputs, up to a number of inputs and of bytes.        *)
Groupings(inputs) ==
  { P \in SUBSET ((SUBSET inputs) \ {{}}) :
      /\ UNION P = inputs
      /\ \A g, h \in P : g # h => g \cap h = {}
      /\ \A g \in P : Cardinality(g) <= MaxInputs }

BeginExecute(x) ==
  /\ pc[x] = "sourcing"
  /\ job[x].todo = {}
  /\ \E groups \in Groupings(approved[x].fromProvider) :
       job' = [job EXCEPT ![x].queue = groups]
  /\ Goto(x, "executing")
  /\ UNCHANGED <<catalogVars, ledger, bank, embedLock, approved, paid>>

-----------------------------------------------------------------------------
(* Execute: concurrent requests, answers handled one at a time.            *)

SendGroup(x) ==
  /\ pc[x] = "executing"
  /\ Cardinality(job[x].flying) < MaxConcurrency
  /\ \E g \in job[x].queue :
       job' = [job EXCEPT ![x].queue = @ \ {g}, ![x].flying = @ \cup {g}]
  /\ UNCHANGED <<catalogVars, ledger, bank, embedLock, pc, approved, paid>>

Paid(source, input) == IF <<source, input>> \in DOMAIN paid THEN paid[<<source, input>>] ELSE 0

(* A worker finished a group: every attempt made, the answer validated.    *)
Answer(x) ==
  /\ pc[x] \in {"executing", "storing", "publishing"}
  /\ \E g \in job[x].flying, verdict \in {"valid", "retryable", "terminal"} :
       LET keys == { <<approved[x].source, i>> : i \in g }
           raw  == [i \in g |-> Paid(approved[x].source, i) + 1]
       IN /\ verdict = "valid" => \A i \in g : raw[i] <= MaxPaid
          /\ job' = [job EXCEPT ![x].flying = @ \ {g},
                                ![x].arrived = @ \cup {[group |-> g, verdict |-> verdict,
                                                        raw |-> raw]}]
          /\ paid' = IF verdict = "valid"
                     THEN [k \in keys \cup DOMAIN paid |->
                             IF k \in keys THEN raw[k[2]] ELSE paid[k]]
                     ELSE paid
  /\ UNCHANGED <<catalogVars, ledger, bank, embedLock, pc, approved>>

Collect(x) ==
  /\ pc[x] = "executing"
  /\ \E o \in job[x].arrived :
       IF o.verdict = "valid"
       THEN /\ job' = [job EXCEPT ![x].arrived = @ \ {o}, ![x].outcomes = @ \cup {o},
                                  ![x].answer = o, ![x].todo = o.group]
            /\ Goto(x, "storing")
       ELSE /\ job' = [job EXCEPT ![x].arrived = @ \ {o}, ![x].outcomes = @ \cup {o}]
            /\ UNCHANGED pc
  /\ UNCHANGED <<catalogVars, ledger, bank, embedLock, approved, paid>>

(* A bug this project can tell: the bank insert is best effort.             *)
PutBestEffort(x) ==
  /\ pc[x] = "storing"
  /\ \E i \in job[x].todo : job' = [job EXCEPT ![x].current = i]
  /\ Goto(x, "publishing")
  /\ UNCHANGED <<catalogVars, ledger, bank, embedLock, approved, paid>>

(* The success handler, per input of the group: first the bank row, which  *)
(* is immutable (INSERT OR IGNORE, then compared), then the vector.        *)
PutDocumentSource(x) ==
  /\ pc[x] = "storing"
  /\ \E i \in job[x].todo :
       LET row == [source |-> approved[x].source, input |-> i,
                   raw |-> job[x].answer.raw[i]]
       IN /\ Banked(row.source, i) => row \in bank
          /\ bank' = bank \cup {row}
          /\ job' = [job EXCEPT ![x].current = i]
  /\ Goto(x, "publishing")
  /\ UNCHANGED <<catalogVars, ledger, embedLock, approved, paid>>

PublishAnswer(x) ==
  /\ pc[x] = "publishing"
  /\ Settle(x, job[x].current, job[x].answer.raw[job[x].current])
  /\ Goto(x, IF job'[x].todo = {} THEN "executing" ELSE "storing")
  /\ UNCHANGED <<catalogVars, runs, bank, embedLock, approved, paid>>

(* HandlerError: the bank holds other bytes, or a write was refused.       *)
BankRefuses(x) ==
  /\ \/ /\ \E i \in job[x].todo :
             \E r \in bank : /\ r.source = approved[x].source /\ r.input = i
                             /\ r.raw # job[x].answer.raw[i]
        /\ job' = [job EXCEPT ![x].error = "error"]
     \/ /\ "database" \in Faults
        /\ job' = [job EXCEPT ![x].error = "error"]
     \/ /\ "cancel" \in Faults
        /\ job' = [job EXCEPT ![x].error = "cancelled"]

HandlerFails(x) ==
  /\ \/ pc[x] = "storing" /\ BankRefuses(x)
     \/ pc[x] = "publishing" /\ WriteFails(x)
  /\ Goto(x, "aborting")
  /\ UNCHANGED <<catalogVars, ledger, bank, embedLock, approved, paid>>

(* Only Execute watches the context, and it runs only with inputs to send. *)
Cancel(x) ==
  /\ "cancel" \in Faults
  /\ pc[x] = "executing"
  /\ approved[x].fromProvider # {}
  /\ job' = [job EXCEPT ![x].error = "cancelled"]
  /\ Goto(x, "draining")
  /\ UNCHANGED <<catalogVars, ledger, bank, embedLock, approved, paid>>

Failed(outcomes) == UNION { o.group : o \in {p \in outcomes : p.verdict # "valid"} }

(* stopAndDrain: requests in flight are cancelled, answers waiting to be   *)
(* collected are counted but not handled.  After a handler error nothing   *)
(* more is written but the run row.                                        *)
StopAndDrain(x) ==
  /\ pc[x] \in {"draining", "aborting"}
  /\ LET all == job[x].outcomes \cup job[x].arrived
                \cup { [group |-> g, verdict |-> "cancelled", raw |-> << >>] :
                       g \in job[x].flying }
     IN job' = [job EXCEPT ![x].outcomes = all, ![x].arrived = {}, ![x].flying = {},
                           ![x].todo = Failed(all)]
  /\ Goto(x, IF pc[x] = "draining" THEN "recording" ELSE "finishing")
  /\ UNCHANGED <<catalogVars, ledger, bank, embedLock, approved, paid>>

AllReceived(x) ==
  /\ pc[x] = "executing"
  /\ job[x].queue = {} /\ job[x].flying = {} /\ job[x].arrived = {}
  /\ job' = [job EXCEPT ![x].todo = Failed(job[x].outcomes)]
  /\ Goto(x, "recording")
  /\ UNCHANGED <<catalogVars, ledger, bank, embedLock, approved, paid>>

Class(x, input) ==
  LET o == CHOOSE p \in job[x].outcomes : input \in p.group
  IN IF o.verdict = "terminal" THEN "terminal" ELSE "retryable"

(* The failures of a run, recorded even when the run was cancelled.        *)
RecordFailure(x) ==
  /\ pc[x] = "recording"
  /\ \E i \in job[x].todo :
       \/ /\ RecordCurrentEmbeddingFailure(x, i, Class(x, i))
          /\ job' = [job EXCEPT ![x].failed = @ + 1, ![x].todo = @ \ {i}]
       \/ /\ Current(x) /\ (~Active(x, i) \/ Ready(i, approved[x].storage))
          /\ job' = [job EXCEPT ![x].discarded = @ + 1, ![x].todo = @ \ {i}]
          /\ UNCHANGED <<vectors, failures>>
       \/ /\ ~Current(x) \/ "database" \in Faults
          /\ job' = [job EXCEPT ![x].todo = @ \ {i},
                                ![x].error = IF @ = "none" THEN "error" ELSE @]
          /\ UNCHANGED <<vectors, failures>>
  /\ UNCHANGED <<catalogVars, runs, bank, embedLock, pc, approved, paid>>

AllRecorded(x) ==
  /\ pc[x] = "recording"
  /\ job[x].todo = {}
  /\ Goto(x, "finishing")
  /\ UNCHANGED <<catalogVars, ledger, bank, embedLock, approved, job, paid>>

(* The deferred FinishEmbeddingRun; a refusal leaves the row running.      *)
FinishEmbeddingRun(x) ==
  /\ pc[x] = "finishing"
  /\ LET status == FinalStatus(job[x])
     IN runs' = IF FinishAllowed(approved[x], job[x], status)
                THEN [runs EXCEPT ![job[x].run].status = status]
                ELSE runs
  /\ Return(x)
  /\ UNCHANGED <<catalogVars, vectors, failures, bank, paid>>

(* Before the run row exists any error or cancellation just returns.        *)
Abandon(x) ==
  /\ Faults \cap {"cancel", "database"} # {}
  /\ pc[x] \in {"locking", "checking", "starting"}
  /\ Return(x)
  /\ UNCHANGED <<catalogVars, ledger, bank, paid>>

(* The process dies: the kernel drops the lock, the run row stays.         *)
Crash(x) ==
  /\ "crash" \in Faults
  /\ pc[x] # "idle"
  /\ Return(x)
  /\ UNCHANGED <<catalogVars, ledger, bank, paid>>

Proceed(x) ==
  \/ CheckPlan(x) \/ ReturnStale(x) \/ StartEmbeddingRun(x)
  \/ PublishSourceInput(x) \/ SourceInputFails(x) \/ BeginExecute(x)
  \/ SendGroup(x) \/ Answer(x) \/ Collect(x)
  \/ PutDocumentSource(x) \/ PublishAnswer(x) \/ HandlerFails(x)
  \/ StopAndDrain(x) \/ AllReceived(x)
  \/ RecordFailure(x) \/ AllRecorded(x) \/ FinishEmbeddingRun(x)

Reindex ==
  /\ meta.generation < MaxGeneration
  /\ Install
  /\ UNCHANGED <<ledger, bank, embedLock, pc, approved, job, paid>>

(* Nothing left to do within the bounds.                                   *)
Rest ==
  /\ Len(runs) >= MaxRuns /\ meta.generation = MaxGeneration
  /\ \A x \in Appliers : pc[x] = "idle"
  /\ UNCHANGED embedVars

EmbedNext ==
  \/ Rest
  \/ \E x \in Appliers :
       Approve(x) \/ AcquireState(x) \/ Proceed(x) \/ Cancel(x) \/ Abandon(x) \/ Crash(x)
  \/ Reindex

EmbedSpec == EmbedInit /\ [][EmbedNext]_embedVars

(***************************************************************************)
(* A process that is inside Apply keeps running, and a provider answers or *)
(* times out.  The lock is polled: acquiring it has no fairness.           *)
(***************************************************************************)
FairEmbedSpec == EmbedSpec /\ \A x \in Appliers : WF_embedVars(Proceed(x))

-----------------------------------------------------------------------------
(***************************************************************************)
(* Every serving vector is derived from a bank row that was there first    *)
(* and never changed since, whichever process paid for it, and whatever    *)
(* crashed or was reindexed in between.                                    *)
(***************************************************************************)
PublishedFromBank ==
  \A v \in vectors : [source |-> v.source, input |-> v.input, raw |-> v.raw] \in bank

(***************************************************************************)
(* No input whose answer is in the bank is sent to the provider again: not *)
(* by a second process, a retry, a new generation or a run after a crash.  *)
(***************************************************************************)
NoRepeatPayment ==
  \A x \in Appliers : \A g \in job[x].queue \cup job[x].flying :
    \A i \in g : ~Banked(approved[x].source, i)

(***************************************************************************)
(* What was approved is what is bought: a request in flight holds only     *)
(* inputs of the approved plan, and when its run began that plan was still *)
(* the exact work of the active generation.  Nothing bought is then        *)
(* discarded as unwanted.                                                  *)
(***************************************************************************)
BoughtAsApproved ==
  \A x \in Appliers :
    /\ \A g \in job[x].queue \cup job[x].flying : g \subseteq approved[x].fromProvider
    /\ pc[x] = "starting" /\ Current(x) => CurrentPlan(approved[x].retry) = approved[x]
    /\ job[x].discarded = 0

(***************************************************************************)
(* What a run records is true.  No mix of failed groups, refused writes,   *)
(* cancellation and discards makes counts the ledger rejects; and while    *)
(* the generation of a run recorded as succeeded is active, every active   *)
(* input has a vector, but for the known failures it was not asked to      *)
(* retry.                                                                  *)
(***************************************************************************)
FinishAccepted ==
  \A x \in Appliers :
    pc[x] = "finishing" => FinishAllowed(approved[x], job[x], FinalStatus(job[x]))

SucceededCovers ==
  \A r \in Range(runs) :
    r.status = "succeeded" /\ r.generation = meta.generation
      => \A i \in ActiveInputs(segments, meta.serving) \ r.skipped :
           Ready(i, meta.serving)

RunRecordTrue == FinishAccepted /\ SucceededCovers

(* No Apply keeps embed.lock for ever.                                     *)
LockFreed == \A x \in Appliers : embedLock = x ~> embedLock # x

(***************************************************************************)
(* 08-raw-embedding-lab.md, checklist 10: every validated response group   *)
(* is durable in the bank before any serving target of it is published.    *)
(***************************************************************************)
GroupBankedFirst ==
  \A x \in Appliers : \A o \in job[x].outcomes :
    o.verdict = "valid" /\ (\E i \in o.group : \E v \in vectors :
                             /\ v.serving = approved[x].storage
                             /\ v.input = i /\ v.raw = o.raw[i])
      => \A i \in o.group : Banked(approved[x].source, i)

(***************************************************************************)
(* 08-raw-embedding-lab.md, concurrency: when the generation changes during*)
(* collection, the source results of captured inputs are preserved.        *)
(***************************************************************************)
CapturedResultsPreserved ==
  \A x \in Appliers : pc[x] = "finishing" =>
    \A o \in job[x].outcomes :
      o.verdict = "valid" => \A i \in o.group : Banked(approved[x].source, i)

=============================================================================
