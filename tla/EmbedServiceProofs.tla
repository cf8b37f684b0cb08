------------------------- MODULE EmbedServiceProofs -------------------------
(***************************************************************************)
(* For any appliers, configurations, contents and faults: a serving vector *)
(* always comes from a bank row, nothing in the bank is sent to the        *)
(* provider again, only what was approved is bought, and what the ledger   *)
(* says of a run is true.                                                  *)
(*                                                                         *)
(* The plan was made when nobody could write the bank, or it was made anew *)
(* under embed.lock; from then on only the holder writes it, and the       *)
(* groups of a run are disjoint, so a row it writes is of no group that    *)
(* is still to be sent or at the provider.                                 *)
(***************************************************************************)
EXTENDS EmbedService, FiniteSetTheorems, TLAPS

JobFields == {"run", "todo", "answer", "current", "queue", "flying", "arrived", "outcomes",
              "succeeded", "failed", "discarded", "error"}

Shape ==
  /\ meta.generation \in Nat
  /\ pc \in [Appliers -> Steps]
  /\ DOMAIN approved = Appliers /\ DOMAIN job = Appliers
  /\ \A x \in Appliers : DOMAIN job[x] = JobFields
  /\ \A r \in bank : r = [source |-> r.source, input |-> r.input, raw |-> r.raw]

(* Who is inside Apply holds the lock; groups exist once Execute began.    *)
Outside == {"idle", "locking"}
Before == Outside \cup {"checking", "starting", "sourcing"}

Holds(x) == pc[x] \notin Outside => embedLock = x

NoGroups(x) ==
  pc[x] \in Before =>
    /\ job[x].queue = {} /\ job[x].flying = {}
    /\ job[x].arrived = {} /\ job[x].outcomes = {}

(* What the plan wants bought is not in the bank until its groups are.     *)
PlanFresh(x) ==
  pc[x] \in {"starting", "sourcing"} =>
    \A i \in approved[x].fromProvider : ~Banked(approved[x].source, i)

(* Groups to send and at the provider are not empty and not in the bank;   *)
(* no two groups of a run, wherever they are, share an input.              *)
Unsent(x) == job[x].queue \cup job[x].flying
Answered(x) == job[x].arrived \cup job[x].outcomes

Unpaid(x) == \A g \in Unsent(x) : \A i \in g : ~Banked(approved[x].source, i)

Disjoint(x) ==
  /\ \A g \in Unsent(x) : g # {}
  /\ \A g, h \in Unsent(x) : g # h => g \cap h = {}
  /\ \A g \in job[x].queue : g \notin job[x].flying
  /\ \A g \in Unsent(x), o \in Answered(x) : g \cap o.group = {}
  /\ \A o, p \in Answered(x) : o # p => o.group \cap p.group = {}
  /\ \A o \in job[x].arrived : o \notin job[x].outcomes

Storing(x) ==
  pc[x] \in {"storing", "publishing"} =>
    /\ job[x].answer \in job[x].outcomes /\ job[x].answer.verdict = "valid"
    /\ job[x].todo \subseteq job[x].answer.group

(* The vector about to be published has its bank row.                      *)
Stored(x) ==
  pc[x] = "publishing" =>
    /\ job[x].current \in job[x].todo
    /\ [source |-> approved[x].source, input |-> job[x].current,
        raw |-> job[x].answer.raw[job[x].current]] \in bank

Keeping(x) ==
  Holds(x) /\ NoGroups(x) /\ PlanFresh(x) /\ Unpaid(x) /\ Disjoint(x) /\ Storing(x) /\ Stored(x)

(* Groups are of the approved plan, which is no newer than the index.      *)
Unchecked == Outside \cup {"checking"}

AsApproved(x) == \A g \in Unsent(x) : g \subseteq approved[x].fromProvider

Recent(x) ==
  pc[x] \notin Unchecked =>
    approved[x].generation \in Nat /\ approved[x].generation <= meta.generation

(* While its generation is active: until the run starts the plan is what   *)
(* planning again would give, and from then on no input the run still has  *)
(* to settle was dropped from the index or got a vector.                   *)
StillCurrent(x) == meta.generation = approved[x].generation

StillPlan(x) ==
  pc[x] = "starting" /\ StillCurrent(x) => CurrentPlan(approved[x].retry) = approved[x]

LeftOf(unsent, arrived, outcomes) ==
  (UNION unsent) \cup (UNION { o.group : o \in arrived }) \cup Failed(outcomes)

Left(x) == LeftOf(Unsent(x), job[x].arrived, job[x].outcomes)

Unsettled(x) ==
  Left(x)
    \cup (IF pc[x] \in {"sourcing", "storing", "publishing", "recording"} THEN job[x].todo ELSE {})
    \cup (IF pc[x] = "sourcing" THEN approved[x].fromProvider ELSE {})

Worth(x) ==
  pc[x] \notin Unchecked \cup {"starting"} /\ StillCurrent(x) =>
    /\ \A i \in Unsettled(x) : Active(x, i) /\ ~Ready(i, approved[x].storage)
    /\ pc[x] = "sourcing" => job[x].todo \cap approved[x].fromProvider = {}

Buying(x) ==
  AsApproved(x) /\ Recent(x) /\ StillPlan(x) /\ Worth(x) /\ job[x].discarded = 0

IInv ==
  Shape /\ (\A x \in Appliers : Keeping(x) /\ Buying(x)) /\ PublishedFromBank

-----------------------------------------------------------------------------
(* A step of one applier: the state of the others is theirs, and what they *)
(* share is the lock and what its holder may write.                        *)
Mine(x) ==
  /\ pc' \in [Appliers -> Steps]
  /\ DOMAIN approved' = Appliers /\ DOMAIN job' = Appliers
  /\ DOMAIN job'[x] = JobFields
  /\ \A y \in Appliers \ {x} :
       pc'[y] = pc[y] /\ approved'[y] = approved[y] /\ job'[y] = job[y]

Shared(x) ==
  /\ embedLock' = embedLock \/ embedLock \in {Nobody, x}
  /\ UNCHANGED <<bank, vectors, failures>> \/ embedLock = x
  /\ UNCHANGED <<meta, segments>>

LEMMA SamePlan ==
  ASSUME UNCHANGED <<bank, vectors, failures, meta, segments>>, NEW retry
  PROVE  CurrentPlan(retry)' = CurrentPlan(retry)
  BY DEF CurrentPlan, ReadyInputs, BankHits, Ready, Banked, Terminal

LEMMA OthersKeep ==
  ASSUME IInv, NEW x \in Appliers, Mine(x), Shared(x), NEW y \in Appliers \ {x}
  PROVE  Keeping(y)' /\ Buying(y)'
<1>1. /\ Keeping(y) /\ Buying(y)
      /\ pc'[y] = pc[y] /\ approved'[y] = approved[y] /\ job'[y] = job[y]
  BY DEF IInv, Mine
<1>2. CASE embedLock' = embedLock /\ UNCHANGED <<bank, vectors, failures>>
  <2>1. Keeping(y)'
    BY <1>1, <1>2 DEF Keeping, Holds, NoGroups, PlanFresh, Unpaid, Unsent, Disjoint, Answered,
                      Storing, Stored, Banked
  <2>2. StillPlan(y)'
    BY <1>1, <1>2, SamePlan DEF Buying, StillPlan, StillCurrent, Shared
  <2>3. Worth(y)'
    BY <1>1, <1>2 DEF Buying, Worth, StillCurrent, Unsettled, Left, LeftOf, Unsent, Failed, Active, Ready,
                     Shared
  <2>4. AsApproved(y)' /\ Recent(y)' /\ job'[y].discarded = 0
    BY <1>1 DEF Buying, AsApproved, Recent, Unsent, Shared
  <2> QED
    BY <2>1, <2>2, <2>3, <2>4 DEF Buying
<1>3. CASE embedLock \in {Nobody, x}
  <2>1. pc[y] \in Outside
    BY <1>1, <1>3, EmbedAssumption DEF Keeping, Holds
  <2>2. /\ job[y].queue = {} /\ job[y].flying = {} /\ job[y].arrived = {}
        /\ job[y].outcomes = {}
    BY <1>1, <2>1 DEF Keeping, NoGroups, Before
  <2>3. Keeping(y)'
    BY <1>1, <2>1, <2>2 DEF Keeping, Holds, NoGroups, PlanFresh, Unpaid, Unsent, Disjoint,
                            Answered, Storing, Stored, Outside
  <2>4. Buying(y)'
    BY <1>1, <2>1, <2>2 DEF Buying, AsApproved, Unsent, Recent, StillPlan, Worth, Unchecked,
                            Outside
  <2> QED
    BY <2>3, <2>4
<1> QED
  BY <1>2, <1>3 DEF Shared

(* What is left to show of a step of x.                                    *)
Kept(x) ==
  /\ Mine(x) /\ Shared(x) /\ Keeping(x)' /\ Buying(x)'
  /\ \A r \in bank' : r = [source |-> r.source, input |-> r.input, raw |-> r.raw]
  /\ PublishedFromBank'

LEMMA KeptIsEnough ==
  ASSUME IInv, NEW x \in Appliers, Kept(x)
  PROVE  IInv'
<1>1. \A y \in Appliers : Keeping(y)' /\ Buying(y)'
  BY OthersKeep DEF Kept
<1>2. Shape'
  BY DEF Kept, Mine, Shared, IInv, Shape
<1> QED
  BY <1>1, <1>2 DEF Kept, IInv

(* Rows and vectors untouched.                                             *)
Unwritten == UNCHANGED <<meta, segments, bank, vectors, failures>>

LEMMA SameRows ==
  ASSUME IInv, Unwritten
  PROVE  /\ \A r \in bank' : r = [source |-> r.source, input |-> r.input, raw |-> r.raw]
         /\ PublishedFromBank'
  BY DEF IInv, Shape, PublishedFromBank, Unwritten

LEMMA GotoEffect ==
  ASSUME Shape, NEW x \in Appliers, NEW s \in Steps, Goto(x, s)
  PROVE  /\ pc' \in [Appliers -> Steps] /\ pc'[x] = s
         /\ \A y \in Appliers \ {x} : pc'[y] = pc[y]
  BY DEF Shape, Goto

(* An applier with no groups that is not yet past the check.               *)
LEMMA IdleKeeps ==
  ASSUME NEW x \in Appliers, pc'[x] \in Unchecked, pc'[x] = "checking" => embedLock' = x,
         job'[x].queue = {}, job'[x].flying = {}, job'[x].arrived = {}, job'[x].outcomes = {},
         job'[x].discarded = 0
  PROVE  Keeping(x)' /\ Buying(x)'
<1>1. Keeping(x)'
  BY DEF Keeping, Holds, NoGroups, PlanFresh, Unpaid, Unsent, Disjoint, Answered, Storing,
         Stored, Unchecked, Outside
<1>2. Buying(x)'
  BY DEF Buying, AsApproved, Unsent, Recent, StillPlan, Worth, Unchecked, Outside
<1> QED
  BY <1>1, <1>2

(* Back to idle, however Apply ended.                                      *)
LEMMA ReturnKeeps ==
  ASSUME IInv, NEW x \in Appliers, Return(x), Unwritten
  PROVE  Kept(x)
<1>1. /\ pc' \in [Appliers -> Steps] /\ pc'[x] = "idle"
      /\ \A y \in Appliers \ {x} : pc'[y] = pc[y]
  BY GotoEffect DEF Return, IInv, Steps
<1>2. job'[x] = NoJob /\ DOMAIN job' = Appliers /\ DOMAIN approved' = Appliers
      /\ \A y \in Appliers \ {x} : approved'[y] = approved[y] /\ job'[y] = job[y]
  BY DEF Return, IInv, Shape
<1>3. Mine(x)
  BY <1>1, <1>2 DEF Mine, NoJob, JobFields
<1>4. Shared(x)
  BY DEF Shared, Return, Unwritten
<1>5. Keeping(x)' /\ Buying(x)'
  BY <1>1, <1>2, IdleKeeps DEF NoJob, Unchecked, Outside
<1> QED
  BY <1>3, <1>4, <1>5, SameRows DEF Kept

LEMMA ReturnStaleStep ==
  ASSUME IInv, NEW x \in Appliers, ReturnStale(x)
  PROVE  Kept(x)
  BY ReturnKeeps DEF ReturnStale, ledger, catalogVars, Unwritten

LEMMA AbandonStep ==
  ASSUME IInv, NEW x \in Appliers, Abandon(x)
  PROVE  Kept(x)
  BY ReturnKeeps DEF Abandon, ledger, catalogVars, Unwritten

LEMMA CrashStep ==
  ASSUME IInv, NEW x \in Appliers, Crash(x)
  PROVE  Kept(x)
  BY ReturnKeeps DEF Crash, ledger, catalogVars, Unwritten

LEMMA FinishStep ==
  ASSUME IInv, NEW x \in Appliers, FinishEmbeddingRun(x)
  PROVE  Kept(x)
  BY ReturnKeeps DEF FinishEmbeddingRun, catalogVars, Unwritten

(* Up to the start of the run.                                             *)
LEMMA ApproveStep ==
  ASSUME IInv, NEW x \in Appliers, Approve(x)
  PROVE  Kept(x)
<1>1. /\ pc' \in [Appliers -> Steps] /\ pc'[x] = "locking"
      /\ \A y \in Appliers \ {x} : pc'[y] = pc[y]
  BY GotoEffect DEF Approve, IInv, Steps
<1>2. /\ pc[x] = "idle" /\ Unwritten
      /\ UNCHANGED <<embedLock, job>>
      /\ \A y \in Appliers \ {x} : approved'[y] = approved[y]
      /\ DOMAIN approved' = Appliers
  BY DEF Approve, ledger, catalogVars, Unwritten, IInv, Shape
<1>3. Mine(x) /\ Shared(x)
  BY <1>1, <1>2 DEF Mine, Shared, Unwritten, IInv, Shape
<1>4. Keeping(x)' /\ Buying(x)'
  BY <1>1, <1>2, IdleKeeps DEF IInv, Keeping, NoGroups, Buying, Unchecked, Outside, Before
<1> QED
  BY <1>2, <1>3, <1>4, SameRows DEF Kept

LEMMA AcquireStep ==
  ASSUME IInv, NEW x \in Appliers, AcquireState(x)
  PROVE  Kept(x)
<1>1. /\ pc' \in [Appliers -> Steps] /\ pc'[x] = "checking"
      /\ \A y \in Appliers \ {x} : pc'[y] = pc[y]
  BY GotoEffect DEF AcquireState, IInv, Steps
<1>2. /\ pc[x] = "locking" /\ embedLock = Nobody /\ embedLock' = x
      /\ Unwritten /\ UNCHANGED <<approved, job>>
  BY DEF AcquireState, ledger, catalogVars, Unwritten
<1>3. Mine(x) /\ Shared(x)
  BY <1>1, <1>2 DEF Mine, Shared, Unwritten, IInv, Shape
<1>4. Keeping(x)' /\ Buying(x)'
  BY <1>1, <1>2, IdleKeeps DEF IInv, Keeping, NoGroups, Buying, Unchecked, Outside, Before
<1> QED
  BY <1>2, <1>3, <1>4, SameRows DEF Kept

(* What planning again finds: inputs that are active, without a vector,    *)
(* and either in the bank or to be bought.                                 *)
LEMMA PlanIsWork ==
  ASSUME NEW retry
  PROVE  LET plan == CurrentPlan(retry)
         IN /\ plan.generation = meta.generation
            /\ plan.fromBank \cap plan.fromProvider = {}
            /\ \A i \in plan.fromProvider : ~Banked(plan.source, i)
            /\ \A i \in plan.fromBank \cup plan.fromProvider :
                 i \in ActiveInputs(segments, plan.storage) /\ ~Ready(i, plan.storage)
  BY DEF CurrentPlan, BankHits, ReadyInputs

(* The plan made anew under the lock is the approved one: fresh.           *)
LEMMA CheckStep ==
  ASSUME IInv, NEW x \in Appliers, CheckPlan(x)
  PROVE  Kept(x)
<1>1. /\ pc' \in [Appliers -> Steps] /\ pc'[x] = "starting"
      /\ \A y \in Appliers \ {x} : pc'[y] = pc[y]
  BY GotoEffect DEF CheckPlan, IInv, Steps
<1>2. /\ pc[x] = "checking" /\ CurrentPlan(approved[x].retry) = approved[x]
      /\ Unwritten /\ UNCHANGED <<embedLock, approved, job>>
  BY DEF CheckPlan, SameApprovedPlan, ledger, catalogVars, Unwritten
<1>3. Mine(x) /\ Shared(x)
  BY <1>1, <1>2 DEF Mine, Shared, Unwritten, IInv, Shape
<1>4. /\ \A i \in approved[x].fromProvider : ~Banked(approved[x].source, i)
      /\ approved[x].generation = meta.generation
  BY <1>2, PlanIsWork
<1>5. embedLock = x /\ job[x].discarded = 0
      /\ job[x].queue = {} /\ job[x].flying = {}
      /\ job[x].arrived = {} /\ job[x].outcomes = {}
  BY <1>2 DEF IInv, Keeping, Buying, Holds, NoGroups, Outside, Before
<1>6. PlanFresh(x)'
  BY <1>2, <1>4 DEF PlanFresh, Banked, Unwritten
<1>7. Keeping(x)'
  BY <1>1, <1>2, <1>5, <1>6 DEF Keeping, Holds, NoGroups, Unpaid, Unsent, Disjoint, Answered,
                                Storing, Stored
<1>8. StillPlan(x)'
  BY <1>2, SamePlan DEF StillPlan, Unwritten
<1>9. Buying(x)'
  BY <1>1, <1>2, <1>4, <1>5, <1>8 DEF Buying, AsApproved, Unsent, Recent, Worth, IInv, Shape,
                                      Unwritten
<1> QED
  BY <1>2, <1>3, <1>7, <1>9, SameRows DEF Kept

-----------------------------------------------------------------------------
(* What a step does to the local variables of its applier.                 *)
Local(x) ==
  /\ DOMAIN job' = Appliers /\ DOMAIN job'[x] = JobFields
  /\ \A y \in Appliers \ {x} : job'[y] = job[y]

SameGroups(x) ==
  /\ job'[x].queue = job[x].queue /\ job'[x].flying = job[x].flying
  /\ job'[x].arrived = job[x].arrived /\ job'[x].outcomes = job[x].outcomes

Moved(x, from, to) ==
  /\ pc[x] \in from
  /\ pc' \in [Appliers -> Steps] /\ pc'[x] \in to
  /\ \A y \in Appliers \ {x} : pc'[y] = pc[y]

LEMMA LocalIsMine ==
  ASSUME Shape, NEW x \in Appliers, NEW from, NEW to, Moved(x, from, to), Local(x),
         UNCHANGED <<approved, embedLock, meta, segments>>,
         UNCHANGED <<bank, vectors, failures>> \/ embedLock = x
  PROVE  Mine(x) /\ Shared(x)
  BY DEF Shape, Moved, Local, Mine, Shared

LEMMA MembersLeft ==
  ASSUME NEW unsent, NEW arrived, NEW outcomes
  PROVE  \A i : i \in LeftOf(unsent, arrived, outcomes) <=>
           \/ \E g \in unsent : i \in g
           \/ \E o \in arrived : i \in o.group
           \/ \E o \in outcomes : o.verdict # "valid" /\ i \in o.group
<1>1. \A i : i \in UNION { o.group : o \in arrived } <=> \E o \in arrived : i \in o.group
  OBVIOUS
<1>2. \A i : i \in Failed(outcomes) <=>
               \E o \in outcomes : o.verdict # "valid" /\ i \in o.group
  BY DEF Failed
<1>3. \A i : i \in UNION unsent <=> \E g \in unsent : i \in g
  OBVIOUS
<1> DEFINE A == UNION unsent
           B == UNION { o.group : o \in arrived }
           C == Failed(outcomes)
<1>4. LeftOf(unsent, arrived, outcomes) = A \cup B \cup C
  BY DEF LeftOf
<1> HIDE DEF A, B, C
<1>5. \A i : i \in LeftOf(unsent, arrived, outcomes) <=> i \in A \/ i \in B \/ i \in C
  BY <1>4
<1> QED
  BY <1>1, <1>2, <1>3, <1>5, Zenon DEF A, B, C

(* The groups of a run stay where they are.                                *)
LEMMA GroupsKeep ==
  ASSUME NEW x \in Appliers, Unpaid(x), Disjoint(x), SameGroups(x), UNCHANGED <<approved, bank>>
  PROVE  /\ Unpaid(x)' /\ Disjoint(x)'
         /\ Unsent(x)' = Unsent(x) /\ Left(x)' = Left(x)
<1>1. Unpaid(x)'
  BY DEF Unpaid, Unsent, Banked, SameGroups
<1>2. Disjoint(x)'
  BY DEF Disjoint, Unsent, Answered, SameGroups
<1>3. Unsent(x)' = Unsent(x) /\ Left(x)' = Left(x)
  BY DEF Left, LeftOf, Unsent, Failed, SameGroups
<1> QED
  BY <1>1, <1>2, <1>3

(* Inside the run, and nothing new to settle.                              *)
Running == Steps \ (Unchecked \cup {"starting"})

LEMMA BuyingKeeps ==
  ASSUME IInv, NEW x \in Appliers, Moved(x, Running, Running),
         UNCHANGED <<approved, meta, segments>>,
         \A g \in Unsent(x)' : g \in Unsent(x),
         \A i \in Unsettled(x)' :
           i \in Unsettled(x) /\ (Ready(i, approved[x].storage)' => Ready(i, approved[x].storage)),
         pc'[x] = "sourcing" =>
           pc[x] = "sourcing" /\ job'[x].todo \subseteq job[x].todo,
         job'[x].discarded = job[x].discarded
  PROVE  Buying(x)'
<1>1. Buying(x)
  BY DEF IInv
<1>2. AsApproved(x)'
  BY <1>1 DEF Buying, AsApproved
<1>3. Recent(x)' /\ StillPlan(x)'
  BY <1>1 DEF Buying, Recent, StillPlan, Moved, Running
<1>4. Worth(x)'
  BY <1>1 DEF Buying, Worth, StillCurrent, Active, Moved, Running
<1> QED
  BY <1>1, <1>2, <1>3, <1>4 DEF Buying

(* Steps that end where nothing is in hand any more.                       *)
Ending == {"draining", "aborting", "recording", "finishing"}

LEMMA EndingKeeps ==
  ASSUME IInv, NEW x \in Appliers, Moved(x, Running, Ending), Local(x), SameGroups(x),
         job'[x].discarded = job[x].discarded,
         pc'[x] = "recording" => job'[x].todo \subseteq Unsettled(x),
         Unwritten, UNCHANGED <<approved, embedLock>>
  PROVE  Kept(x)
<1>1. Mine(x) /\ Shared(x)
  BY LocalIsMine DEF IInv, Unwritten
<1>2. /\ Unpaid(x)' /\ Disjoint(x)'
      /\ Unsent(x)' = Unsent(x) /\ Left(x)' = Left(x)
  BY GroupsKeep DEF IInv, Keeping, Unwritten
<1>3. /\ embedLock' = x
      /\ pc'[x] \notin Before /\ pc'[x] \notin {"storing", "publishing"}
  BY DEF IInv, Keeping, Moved, Holds, Ending, Before, Running, Unchecked, Outside
<1>4. Keeping(x)'
  BY <1>2, <1>3 DEF Keeping, Holds, NoGroups, PlanFresh, Storing, Stored, Before
<1>5. Moved(x, Running, Running)
  BY DEF Moved, Ending, Running, Unchecked, Outside, Steps
<1>6. \A i \in Unsettled(x)' : i \in Unsettled(x)
  BY <1>2 DEF Unsettled, Moved, Ending
<1>7. Buying(x)'
  BY <1>2, <1>5, <1>6, BuyingKeeps DEF Unwritten, Ready, Moved, Ending
<1> QED
  BY <1>1, <1>4, <1>7, SameRows DEF Kept

LEMMA StartStep ==
  ASSUME IInv, NEW x \in Appliers, StartEmbeddingRun(x)
  PROVE  Kept(x)
<1> DEFINE todo == approved[x].fromBank
           run == Len(runs')
<1>1. Moved(x, {"starting"}, {"sourcing"})
  BY GotoEffect DEF StartEmbeddingRun, IInv, Steps, Moved
<1>2. job' = [job EXCEPT ![x].run = run, ![x].todo = todo]
  BY DEF StartEmbeddingRun
<1>3. Unwritten /\ UNCHANGED <<embedLock, approved>>
  BY DEF StartEmbeddingRun, catalogVars, Unwritten
<1>4. CurrentPlan(approved[x].retry) = approved[x] /\ StillCurrent(x)
  BY <1>1 DEF StartEmbeddingRun, Current, IInv, Buying, StillPlan, StillCurrent, Moved
<1>5. /\ todo \cap approved[x].fromProvider = {}
      /\ \A i \in todo \cup approved[x].fromProvider :
           Active(x, i) /\ ~Ready(i, approved[x].storage)
  BY <1>4, PlanIsWork DEF Active
<1> HIDE DEF todo, run
<1>6. Local(x) /\ SameGroups(x) /\ job'[x].todo = todo /\ job'[x].discarded = job[x].discarded
  BY <1>2 DEF IInv, Shape, JobFields, Local, SameGroups
<1>7. Mine(x) /\ Shared(x)
  BY <1>1, <1>3, <1>6, LocalIsMine DEF IInv, Unwritten
<1>8. /\ Unpaid(x)' /\ Disjoint(x)' /\ Unsent(x)' = Unsent(x) /\ Left(x)' = Left(x)
  BY <1>3, <1>6, GroupsKeep DEF IInv, Keeping, Unwritten
<1>9. Left(x) = {}
  BY <1>1 DEF IInv, Keeping, NoGroups, Before, Moved, Left, LeftOf, Unsent, Failed
<1>10. Holds(x)' /\ NoGroups(x)' /\ PlanFresh(x)'
  BY <1>1, <1>3, <1>6 DEF IInv, Moved, SameGroups, Keeping, Holds, NoGroups, PlanFresh,
                          Outside, Before, Banked, Unwritten
<1>11. Storing(x)' /\ Stored(x)'
  BY <1>1 DEF Moved, Storing, Stored
<1>12. AsApproved(x)' /\ Recent(x)' /\ StillPlan(x)' /\ job'[x].discarded = 0
  BY <1>1, <1>3, <1>6, <1>8 DEF IInv, Buying, AsApproved, Recent, StillPlan, Moved, Unwritten,
                                Unchecked, Outside
<1>13. Unsettled(x)' = todo \cup approved[x].fromProvider
  BY <1>1, <1>3, <1>6, <1>8, <1>9 DEF Unsettled, Moved
<1>14. Worth(x)'
  BY <1>3, <1>5, <1>6, <1>13 DEF Worth, Active, Ready, Unwritten
<1> QED
  BY <1>3, <1>7, <1>8, <1>10, <1>11, <1>12, <1>14, SameRows DEF Kept, Keeping, Buying

(* Settling an input counts it, takes it off todo, and serves no vector    *)
(* but the one in hand.  It is never discarded: it is still wanted.        *)
Settled(x, input, raw) ==
  /\ Local(x) /\ SameGroups(x)
  /\ job'[x].todo = job[x].todo \ {input}
  /\ job'[x].answer = job[x].answer /\ job'[x].current = job[x].current
  /\ job'[x].discarded = job[x].discarded
  /\ \A v \in vectors' :
       \/ v \in vectors
       \/ v.source = approved[x].source /\ v.input = input /\ v.raw = raw

LEMMA StillWanted ==
  ASSUME IInv, NEW x \in Appliers, pc[x] \in Running, Current(x), NEW i \in Unsettled(x)
  PROVE  Active(x, i) /\ ~Ready(i, approved[x].storage)
  BY DEF IInv, Buying, Worth, StillCurrent, Current, Running

LEMMA SettleEffect ==
  ASSUME IInv, NEW x \in Appliers, pc[x] \in Running, NEW input \in Unsettled(x), NEW raw,
         Settle(x, input, raw)
  PROVE  Settled(x, input, raw)
<1>1. \/ job' = [job EXCEPT ![x].succeeded = @ + 1, ![x].todo = @ \ {input}]
      \/ job' = [job EXCEPT ![x].failed = @ + 1, ![x].todo = @ \ {input}]
  BY StillWanted DEF Settle
<1>2. /\ Local(x) /\ SameGroups(x)
      /\ job'[x].todo = job[x].todo \ {input}
      /\ job'[x].answer = job[x].answer /\ job'[x].current = job[x].current
      /\ job'[x].discarded = job[x].discarded
  <2>1. CASE job' = [job EXCEPT ![x].succeeded = @ + 1, ![x].todo = @ \ {input}]
    BY <2>1 DEF IInv, Shape, JobFields, Local, SameGroups
  <2>2. CASE job' = [job EXCEPT ![x].failed = @ + 1, ![x].todo = @ \ {input}]
    BY <2>2 DEF IInv, Shape, JobFields, Local, SameGroups
  <2> QED
    BY <1>1, <2>1, <2>2
<1>3. \A v \in vectors' :
        \/ v \in vectors
        \/ v.source = approved[x].source /\ v.input = input /\ v.raw = raw
  BY DEF Settle, PublishEmbeddedVector, RecordCurrentEmbeddingFailure
<1> QED
  BY <1>2, <1>3 DEF Settled

(* A vector whose row is in the bank keeps every vector's row there.       *)
LEMMA ServedFromRow ==
  ASSUME IInv, NEW x \in Appliers, NEW input, NEW raw, Settled(x, input, raw), bank' = bank,
         [source |-> approved[x].source, input |-> input, raw |-> raw] \in bank
  PROVE  /\ \A r \in bank' : r = [source |-> r.source, input |-> r.input, raw |-> r.raw]
         /\ PublishedFromBank'
  BY DEF IInv, Shape, Settled, PublishedFromBank

(* What is left to settle does not contain the input just settled.         *)
LEMMA SettledKeeps ==
  ASSUME IInv, NEW x \in Appliers, NEW input, NEW raw, Settled(x, input, raw),
         Moved(x, Running, Running), UNCHANGED <<approved, meta, segments, bank>>,
         pc'[x] = "sourcing" => pc[x] = "sourcing",
         pc'[x] = "recording" => pc[x] = "recording",
         \A i \in Unsettled(x)' : i \in Unsettled(x) /\ i # input
  PROVE  Buying(x)'
<1>1. \A i : Ready(i, approved[x].storage)' => Ready(i, approved[x].storage) \/ i = input
  BY DEF Settled, Ready
<1>2. \A g \in Unsent(x)' : g \in Unsent(x)
  BY GroupsKeep DEF IInv, Keeping, Settled
<1>3. /\ job'[x].todo \subseteq job[x].todo /\ job'[x].discarded = job[x].discarded
  BY DEF Settled
<1> QED
  BY <1>1, <1>2, <1>3, BuyingKeeps

LEMMA PublishSourceStep ==
  ASSUME IInv, NEW x \in Appliers, PublishSourceInput(x)
  PROVE  Kept(x)
<1>1. PICK i \in job[x].todo : \E r \in bank :
        r.source = approved[x].source /\ r.input = i /\ Settle(x, i, r.raw)
  BY DEF PublishSourceInput
<1>2. PICK r \in bank : r.source = approved[x].source /\ r.input = i /\ Settle(x, i, r.raw)
  BY <1>1
<1>3. pc[x] = "sourcing" /\ UNCHANGED <<bank, embedLock, pc, approved, meta, segments>>
  BY DEF PublishSourceInput, catalogVars
<1>4. i \in Unsettled(x) /\ pc[x] \in Running /\ embedLock = x
  BY <1>3 DEF Unsettled, Running, Steps, Unchecked, Outside, IInv, Keeping, Holds
<1>5. Settled(x, i, r.raw)
  BY <1>2, <1>4, SettleEffect
<1>6. [source |-> approved[x].source, input |-> i, raw |-> r.raw] \in bank
  BY <1>2 DEF IInv, Shape
<1>7. Moved(x, Running, Running)
  BY <1>3, <1>4 DEF IInv, Shape, Moved
<1>8. Mine(x) /\ Shared(x)
  BY <1>3, <1>4, <1>5, <1>7, LocalIsMine DEF IInv, Settled
<1>9. /\ Unpaid(x)' /\ Disjoint(x)' /\ Left(x)' = Left(x)
  BY <1>3, <1>5, GroupsKeep DEF IInv, Keeping, Settled
<1>10. Left(x) = {}
  BY <1>3 DEF IInv, Keeping, NoGroups, Before, Left, LeftOf, Unsent, Failed
<1>11. Keeping(x)'
  BY <1>3, <1>5, <1>9 DEF IInv, Settled, SameGroups, Keeping, Holds, NoGroups, PlanFresh,
                          Storing, Stored, Banked
<1>12. ASSUME StillCurrent(x) PROVE Buying(x)'
  <2>1. job[x].todo \cap approved[x].fromProvider = {}
    BY <1>3, <1>4, <1>12 DEF IInv, Buying, Worth, Running
  <2>2. /\ Unsettled(x) = job[x].todo \cup approved[x].fromProvider
        /\ Unsettled(x)' = (job[x].todo \ {i}) \cup approved[x].fromProvider
    BY <1>3, <1>5, <1>9, <1>10 DEF Unsettled, Settled
  <2>3. \A k \in Unsettled(x)' : k \in Unsettled(x) /\ k # i
    BY <1>1, <2>1, <2>2
  <2>4. UNCHANGED <<approved, meta, segments, bank>> /\ pc'[x] = pc[x]
    BY <1>3
  <2> QED
    BY <1>5, <1>7, <2>3, <2>4, SettledKeeps
<1>13. ASSUME ~StillCurrent(x) PROVE Buying(x)'
  <2>1. ~StillCurrent(x)'
    BY <1>3, <1>13 DEF StillCurrent
  <2>2. /\ job'[x].discarded = 0 /\ Unsent(x)' = Unsent(x)
    BY <1>3, <1>5, GroupsKeep DEF IInv, Keeping, Buying, Settled
  <2>3. AsApproved(x)' /\ Recent(x)'
    BY <1>3, <2>2 DEF IInv, Buying, AsApproved, Recent
  <2>4. StillPlan(x)' /\ Worth(x)'
    BY <2>1 DEF StillPlan, Worth
  <2> QED
    BY <2>2, <2>3, <2>4 DEF Buying
<1> QED
  BY <1>3, <1>5, <1>6, <1>8, <1>11, <1>12, <1>13, ServedFromRow DEF Kept

LEMMA WriteFailsEffect ==
  ASSUME Shape, NEW x \in Appliers, WriteFails(x)
  PROVE  Local(x) /\ SameGroups(x) /\ job'[x].discarded = job[x].discarded
<1>1. PICK e \in {"error", "cancelled"} : job' = [job EXCEPT ![x].error = e]
  BY DEF WriteFails
<1> QED
  BY <1>1 DEF Shape, JobFields, Local, SameGroups

LEMMA SourceFailsStep ==
  ASSUME IInv, NEW x \in Appliers, SourceInputFails(x)
  PROVE  Kept(x)
<1>1. Moved(x, Running, Ending) /\ pc'[x] # "recording"
  BY GotoEffect DEF SourceInputFails, IInv, Steps, Moved, Running, Unchecked, Outside, Ending
<1>2. Unwritten /\ UNCHANGED <<approved, embedLock>>
  BY DEF SourceInputFails, ledger, catalogVars, Unwritten
<1>3. Local(x) /\ SameGroups(x) /\ job'[x].discarded = job[x].discarded
  BY WriteFailsEffect DEF SourceInputFails, IInv
<1> QED
  BY <1>1, <1>2, <1>3, EndingKeeps

LEMMA BeginStep ==
  ASSUME IInv, NEW x \in Appliers, BeginExecute(x)
  PROVE  Kept(x)
<1>1. Moved(x, {"sourcing"}, {"executing"})
  BY GotoEffect DEF BeginExecute, IInv, Steps, Moved
<1>2. PICK P \in Groupings(approved[x].fromProvider) : job' = [job EXCEPT ![x].queue = P]
  BY DEF BeginExecute
<1>3. Unwritten /\ UNCHANGED <<embedLock, approved>>
  BY DEF BeginExecute, ledger, catalogVars, Unwritten
<1>4. /\ Local(x) /\ job'[x].queue = P
      /\ job'[x].flying = job[x].flying /\ job'[x].arrived = job[x].arrived
      /\ job'[x].outcomes = job[x].outcomes /\ job'[x].discarded = job[x].discarded
  BY <1>2 DEF IInv, Shape, JobFields, Local
<1>5. Mine(x) /\ Shared(x)
  BY <1>1, <1>3, <1>4, LocalIsMine DEF IInv, Unwritten
<1>6. /\ job[x].flying = {} /\ job[x].arrived = {} /\ job[x].outcomes = {}
      /\ \A i \in approved[x].fromProvider : ~Banked(approved[x].source, i)
  BY <1>1 DEF IInv, Keeping, NoGroups, PlanFresh, Moved, Before
<1>7. /\ \A g, h \in P : g # h => g \cap h = {}
      /\ \A g \in P : g # {} /\ g \subseteq approved[x].fromProvider
  <2>1. P \subseteq (SUBSET approved[x].fromProvider) \ {{}}
    BY DEF Groupings
  <2>2. \A g, h \in P : g # h => g \cap h = {}
    BY DEF Groupings
  <2>3. \A g \in P : g \in SUBSET approved[x].fromProvider /\ g \notin {{}}
    BY <2>1
  <2> QED
    BY <2>2, <2>3
<1>8. Unsent(x)' = P
  BY <1>4, <1>6 DEF Unsent
<1>9. Unpaid(x)' /\ Disjoint(x)'
  BY <1>3, <1>4, <1>6, <1>7, <1>8 DEF Unpaid, Disjoint, Answered, Banked, Unwritten
<1>10. Keeping(x)'
  BY <1>1, <1>3, <1>9 DEF IInv, Moved, Keeping, Holds, NoGroups, PlanFresh, Storing, Stored,
         Outside, Before
<1>11. Moved(x, Running, Running)
  BY <1>1 DEF Moved, Running, Steps, Unchecked, Outside
<1>12. Left(x)' = UNION P
  BY <1>4, <1>6, <1>8 DEF Left, LeftOf, Failed
<1>13. \A i \in Unsettled(x)' : i \in Unsettled(x)
  BY <1>1, <1>7, <1>12 DEF Unsettled, Moved
<1>14. AsApproved(x)'
  BY <1>3, <1>7, <1>8 DEF AsApproved
<1>15. Recent(x)' /\ StillPlan(x)' /\ job'[x].discarded = 0
  BY <1>1, <1>3, <1>4 DEF IInv, Buying, Recent, StillPlan, Moved, Unwritten, Unchecked, Outside
<1>16. Worth(x)'
  BY <1>1, <1>3, <1>11, <1>13 DEF IInv, Buying, Worth, StillCurrent, Active, Ready, Moved,
         Running, Unwritten
<1> QED
  BY <1>3, <1>5, <1>10, <1>14, <1>15, <1>16, SameRows DEF Kept, Buying

-----------------------------------------------------------------------------
(* Execute: a group moves from the queue to the provider to the answers.   *)
LEMMA SendStep ==
  ASSUME IInv, NEW x \in Appliers, SendGroup(x)
  PROVE  Kept(x)
<1>1. PICK g \in job[x].queue :
        job' = [job EXCEPT ![x].queue = @ \ {g}, ![x].flying = @ \cup {g}]
  BY DEF SendGroup
<1>2. pc[x] = "executing" /\ Unwritten /\ UNCHANGED <<embedLock, pc, approved>>
  BY DEF SendGroup, ledger, catalogVars, Unwritten
<1>3. /\ Local(x) /\ job'[x].arrived = job[x].arrived /\ job'[x].outcomes = job[x].outcomes
      /\ job'[x].queue = job[x].queue \ {g} /\ job'[x].flying = job[x].flying \cup {g}
      /\ job'[x].discarded = job[x].discarded
  BY <1>1 DEF IInv, Shape, JobFields, Local
<1>4. Moved(x, Running, Running)
  BY <1>2 DEF IInv, Shape, Moved, Running, Steps, Unchecked, Outside
<1>5. Mine(x) /\ Shared(x)
  BY <1>2, <1>3, <1>4, LocalIsMine DEF IInv, Unwritten
<1>6. Unsent(x)' = Unsent(x) /\ Answered(x)' = Answered(x)
  BY <1>3 DEF Unsent, Answered
<1>7. Unpaid(x)'
  BY <1>2, <1>6 DEF IInv, Keeping, Unpaid, Banked, Unwritten
<1>8. Disjoint(x)'
  BY <1>3, <1>6 DEF IInv, Keeping, Disjoint, Unsent
<1>9. Keeping(x)'
  BY <1>2, <1>7, <1>8 DEF IInv, Keeping, Holds, NoGroups, PlanFresh, Storing, Stored,
                          Outside, Before
<1>10. Unsettled(x)' = Unsettled(x)
  BY <1>2, <1>3, <1>6 DEF Unsettled, Left, LeftOf, Failed
<1>11. Buying(x)'
  BY <1>2, <1>3, <1>4, <1>6, <1>10, BuyingKeeps DEF Ready, Unwritten
<1> QED
  BY <1>2, <1>5, <1>9, <1>11, SameRows DEF Kept

LEMMA AnswerStep ==
  ASSUME IInv, NEW x \in Appliers, Answer(x)
  PROVE  Kept(x)
<1>1. PICK g, o :
        /\ g \in job[x].flying /\ o.group = g
        /\ job' = [job EXCEPT ![x].flying = @ \ {g}, ![x].arrived = @ \cup {o}]
  <2>1. PICK g \in job[x].flying, v \in {"valid", "retryable", "terminal"} :
          job' = [job EXCEPT ![x].flying = @ \ {g},
                             ![x].arrived = @ \cup {[group |-> g, verdict |-> v,
                               raw |-> [i \in g |-> Paid(approved[x].source, i) + 1]]}]
    BY DEF Answer
  <2> DEFINE o == [group |-> g, verdict |-> v,
                   raw |-> [i \in g |-> Paid(approved[x].source, i) + 1]]
  <2>2. /\ o.group = g
        /\ job' = [job EXCEPT ![x].flying = @ \ {g}, ![x].arrived = @ \cup {o}]
    BY <2>1
  <2> QED
    BY <2>2
<1>2. /\ pc[x] \in {"executing", "storing", "publishing"}
      /\ Unwritten /\ UNCHANGED <<embedLock, pc, approved>>
  BY DEF Answer, ledger, catalogVars, Unwritten
<1>3. /\ Local(x) /\ job'[x].queue = job[x].queue /\ job'[x].outcomes = job[x].outcomes
      /\ job'[x].flying = job[x].flying \ {g} /\ job'[x].arrived = job[x].arrived \cup {o}
      /\ job'[x].todo = job[x].todo /\ job'[x].answer = job[x].answer
      /\ job'[x].current = job[x].current /\ job'[x].discarded = job[x].discarded
  BY <1>1 DEF IInv, Shape, JobFields, Local
<1>4. Moved(x, Running, Running)
  BY <1>2 DEF IInv, Shape, Moved, Running, Steps, Unchecked, Outside
<1>5. Mine(x) /\ Shared(x)
  BY <1>2, <1>3, <1>4, LocalIsMine DEF IInv, Unwritten
<1>6. Disjoint(x)
  BY DEF IInv, Keeping
<1>7. Unsent(x)' = Unsent(x) \ {g} /\ Answered(x)' = Answered(x) \cup {o}
  <2>1. g \notin job[x].queue
    BY <1>1, <1>6 DEF Disjoint
  <2>2. Unsent(x)' = job[x].queue \cup (job[x].flying \ {g})
    BY <1>3 DEF Unsent
  <2>3. Unsent(x)' = Unsent(x) \ {g}
    BY <2>1, <2>2 DEF Unsent
  <2>4. Answered(x)' = Answered(x) \cup {o}
    BY <1>3 DEF Answered
  <2> QED
    BY <2>3, <2>4
<1>8. Unpaid(x)'
  BY <1>2, <1>7 DEF IInv, Keeping, Unpaid, Banked, Unwritten
<1>9. o \notin Answered(x)
  BY <1>1, <1>6 DEF Disjoint, Unsent
<1>10. Disjoint(x)'
  <2>1. \A h \in Unsent(x)' : h \in Unsent(x) /\ h \cap g = {}
    BY <1>1, <1>6, <1>7 DEF Disjoint, Unsent
  <2>2. /\ \A h \in Unsent(x)' : h # {}
        /\ \A h, k \in Unsent(x)' : h # k => h \cap k = {}
        /\ \A h \in job'[x].queue : h \notin job'[x].flying
    BY <1>3, <1>6, <2>1 DEF Disjoint
  <2>3. \A h \in Unsent(x)', p \in Answered(x)' : h \cap p.group = {}
    BY <1>1, <1>6, <1>7, <2>1 DEF Disjoint
  <2>4. \A p \in Answered(x) : g \cap p.group = {}
    BY <1>1, <1>6 DEF Disjoint, Unsent
  <2>5. \A p, q \in Answered(x)' : p # q => p.group \cap q.group = {}
    BY <1>1, <1>6, <1>7, <2>4 DEF Disjoint
  <2>6. \A p \in job'[x].arrived : p \notin job'[x].outcomes
    BY <1>3, <1>6, <1>9 DEF Disjoint, Answered
  <2> QED
    BY <2>2, <2>3, <2>5, <2>6 DEF Disjoint
<1>11. Holds(x)' /\ NoGroups(x)' /\ PlanFresh(x)' /\ Storing(x)' /\ Stored(x)'
  BY <1>2, <1>3 DEF IInv, Keeping, Holds, NoGroups, PlanFresh, Storing, Stored, Outside, Before,
                    Unwritten
<1>12. \A i \in Unsettled(x)' : i \in Unsettled(x)
  <2>1. \A i \in Left(x)' : i \in Left(x)
    <3>1. Left(x)' = LeftOf(Unsent(x) \ {g}, job[x].arrived \cup {o}, job[x].outcomes)
      BY <1>3, <1>7 DEF Left
    <3> QED
      BY <1>1, <3>1, MembersLeft DEF Left, Unsent
  <2> QED
    BY <1>2, <1>3, <2>1 DEF Unsettled
<1>13. Buying(x)'
  BY <1>2, <1>3, <1>4, <1>7, <1>12, BuyingKeeps DEF Ready, Unwritten
<1> QED
  BY <1>2, <1>5, <1>8, <1>10, <1>11, <1>13, SameRows DEF Kept, Keeping

LEMMA CollectStep ==
  ASSUME IInv, NEW x \in Appliers, Collect(x)
  PROVE  Kept(x)
<1>1. PICK o \in job[x].arrived :
        \/ /\ o.verdict = "valid"
           /\ job' = [job EXCEPT ![x].arrived = @ \ {o}, ![x].outcomes = @ \cup {o},
                                 ![x].answer = o, ![x].todo = o.group]
           /\ Goto(x, "storing")
        \/ /\ job' = [job EXCEPT ![x].arrived = @ \ {o}, ![x].outcomes = @ \cup {o}]
           /\ UNCHANGED pc
  BY DEF Collect
<1>2. pc[x] = "executing" /\ Unwritten /\ UNCHANGED <<embedLock, approved>>
  BY DEF Collect, ledger, catalogVars, Unwritten
<1>3. /\ Local(x) /\ job'[x].queue = job[x].queue /\ job'[x].flying = job[x].flying
      /\ job'[x].arrived = job[x].arrived \ {o} /\ job'[x].outcomes = job[x].outcomes \cup {o}
      /\ job'[x].discarded = job[x].discarded
      /\ \/ Moved(x, {"executing"}, {"executing"})
         \/ /\ Moved(x, {"executing"}, {"storing"})
            /\ job'[x].answer = o /\ job'[x].todo = o.group /\ o.verdict = "valid"
  <2>1. CASE /\ o.verdict = "valid"
             /\ job' = [job EXCEPT ![x].arrived = @ \ {o}, ![x].outcomes = @ \cup {o},
                                   ![x].answer = o, ![x].todo = o.group]
             /\ Goto(x, "storing")
    <3>1. Moved(x, {"executing"}, {"storing"})
      BY <1>2, <2>1, GotoEffect DEF IInv, Steps, Moved
    <3> QED
      BY <2>1, <3>1 DEF IInv, Shape, JobFields, Local
  <2>2. CASE /\ job' = [job EXCEPT ![x].arrived = @ \ {o}, ![x].outcomes = @ \cup {o}]
             /\ UNCHANGED pc
    <3>1. Moved(x, {"executing"}, {"executing"})
      BY <1>2, <2>2 DEF IInv, Shape, Moved
    <3> QED
      BY <2>2, <3>1 DEF IInv, Shape, JobFields, Local
  <2> QED
    BY <1>1, <2>1, <2>2
<1>4. Moved(x, Running, Running) /\ pc'[x] \in {"executing", "storing"}
  BY <1>3 DEF Moved, Running, Steps, Unchecked, Outside
<1>5. Mine(x) /\ Shared(x)
  BY <1>2, <1>3, <1>4, LocalIsMine DEF IInv, Unwritten
<1>6. Unsent(x)' = Unsent(x) /\ Answered(x)' = Answered(x)
  BY <1>3 DEF Unsent, Answered
<1>7. Unpaid(x)'
  BY <1>2, <1>6 DEF IInv, Keeping, Unpaid, Banked, Unwritten
<1>8. Disjoint(x)'
  BY <1>3, <1>6 DEF IInv, Keeping, Disjoint
<1>9. Holds(x)' /\ NoGroups(x)' /\ PlanFresh(x)'
  BY <1>2, <1>4 DEF IInv, Keeping, Moved, Holds, NoGroups, PlanFresh, Outside, Before
<1>10. Storing(x)' /\ Stored(x)'
  BY <1>3 DEF Moved, Storing, Stored
<1>11. \A i \in Unsettled(x)' : i \in Unsettled(x)
  <2>1. \A i \in Left(x)' : i \in Left(x)
    <3>1. Left(x)' = LeftOf(Unsent(x), job[x].arrived \ {o}, job[x].outcomes \cup {o})
      BY <1>3, <1>6 DEF Left
    <3> QED
      BY <3>1, MembersLeft DEF Left
  <2>2. o.group \subseteq Left(x)
    BY MembersLeft DEF Left
  <2> QED
    BY <1>3, <2>1, <2>2 DEF Unsettled, Moved
<1>12. Buying(x)'
  BY <1>2, <1>3, <1>4, <1>6, <1>11, BuyingKeeps DEF Ready, Unwritten
<1> QED
  BY <1>2, <1>5, <1>7, <1>8, <1>9, <1>10, <1>12, SameRows DEF Kept, Keeping

(* The bank row of an answered input: of no group still to be paid for.    *)
LEMMA PutStep ==
  ASSUME IInv, NEW x \in Appliers, PutDocumentSource(x)
  PROVE  Kept(x)
<1> DEFINE row(i) == [source |-> approved[x].source, input |-> i,
                      raw |-> job[x].answer.raw[i]]
<1>1. PICK i \in job[x].todo :
        bank' = bank \cup {row(i)} /\ job' = [job EXCEPT ![x].current = i]
  BY DEF PutDocumentSource
<1>2. /\ Moved(x, {"storing"}, {"publishing"})
      /\ UNCHANGED <<vectors, failures, embedLock, approved, meta, segments>>
  BY GotoEffect DEF PutDocumentSource, IInv, Steps, Moved, ledger, catalogVars
<1>3. /\ Local(x) /\ SameGroups(x)
      /\ job'[x].todo = job[x].todo /\ job'[x].answer = job[x].answer
      /\ job'[x].current = i /\ job'[x].discarded = job[x].discarded
  BY <1>1 DEF IInv, Shape, JobFields, Local, SameGroups
<1>4. Unsent(x)' = Unsent(x) /\ Answered(x)' = Answered(x) /\ Left(x)' = Left(x)
  BY <1>3 DEF SameGroups, Unsent, Answered, Left, LeftOf, Failed
<1>5. pc[x] = "storing" /\ embedLock = x
  BY <1>2 DEF IInv, Moved, Keeping, Holds, Outside
<1>6. Mine(x) /\ Shared(x)
  BY <1>2, <1>3, <1>5, LocalIsMine DEF IInv
<1>7. Storing(x)' /\ Stored(x)'
  <2>1. Storing(x)'
    BY <1>3, <1>5 DEF IInv, Keeping, Storing, SameGroups
  <2>2. row(i) \in bank'
    BY <1>1
  <2>3. /\ approved'[x].source = approved[x].source
        /\ job'[x].answer.raw[job'[x].current] = job[x].answer.raw[i]
    BY <1>2, <1>3
  <2> QED
    BY <1>3, <2>1, <2>2, <2>3 DEF Stored
<1>8. Disjoint(x)'
  BY <1>3, <1>4 DEF IInv, Keeping, Disjoint, SameGroups
<1>9. Unpaid(x)'
  <2>1. \A g \in Unsent(x) : i \notin g
    BY <1>5 DEF IInv, Keeping, Storing, Disjoint, Answered
  <2>2. \A k : k # i => (Banked(approved[x].source, k)' => Banked(approved[x].source, k))
    BY <1>1, <1>2 DEF Banked
  <2> QED
    BY <1>2, <1>4, <2>1, <2>2 DEF IInv, Keeping, Unpaid
<1>10. Holds(x)' /\ NoGroups(x)' /\ PlanFresh(x)'
  BY <1>2, <1>5 DEF Moved, Holds, NoGroups, PlanFresh, Before, Outside
<1>11. \A r \in bank' : r = [source |-> r.source, input |-> r.input, raw |-> r.raw]
  BY <1>1 DEF IInv, Shape
<1>12. PublishedFromBank'
  BY <1>1, <1>2 DEF IInv, PublishedFromBank
<1>13. Moved(x, Running, Running) /\ pc'[x] = "publishing"
  BY <1>2 DEF Moved, Running, Steps, Unchecked, Outside
<1>14. Unsettled(x)' = Unsettled(x)
  BY <1>3, <1>4, <1>5, <1>13 DEF Unsettled
<1>15. Buying(x)'
  BY <1>2, <1>3, <1>4, <1>13, <1>14, BuyingKeeps DEF Ready
<1> QED
  BY <1>6, <1>7, <1>8, <1>9, <1>10, <1>11, <1>12, <1>15 DEF Kept, Keeping

LEMMA PublishAnswerStep ==
  ASSUME IInv, NEW x \in Appliers, PublishAnswer(x)
  PROVE  Kept(x)
<1> DEFINE raw == job[x].answer.raw[job[x].current]
           i == job[x].current
<1>1. /\ pc[x] = "publishing" /\ Settle(x, i, raw)
      /\ UNCHANGED <<bank, embedLock, approved, meta, segments>>
  BY DEF PublishAnswer, catalogVars
<1>2. Moved(x, {"publishing"}, {"executing", "storing"})
  BY <1>1, GotoEffect DEF PublishAnswer, IInv, Steps, Moved
<1>3. /\ [source |-> approved[x].source, input |-> i, raw |-> raw] \in bank
      /\ i \in job[x].todo /\ i \in job[x].answer.group
      /\ job[x].answer \in job[x].outcomes /\ job[x].answer.verdict = "valid"
  BY <1>1 DEF IInv, Keeping, Stored, Storing
<1>4. i \in Unsettled(x) /\ pc[x] \in Running /\ embedLock = x
  BY <1>1, <1>3 DEF Unsettled, Running, Steps, Unchecked, Outside, IInv, Keeping, Holds
<1> HIDE DEF raw, i
<1>5. Settled(x, i, raw)
  BY <1>1, <1>4, SettleEffect
<1>6. Mine(x) /\ Shared(x)
  BY <1>1, <1>2, <1>4, <1>5, LocalIsMine DEF IInv, Settled
<1>7. Unpaid(x)' /\ Disjoint(x)' /\ Left(x)' = Left(x)
  BY <1>1, <1>5, GroupsKeep DEF IInv, Keeping, Settled
<1>8. Holds(x)' /\ NoGroups(x)' /\ PlanFresh(x)' /\ Stored(x)'
  BY <1>1, <1>2 DEF IInv, Keeping, Moved, Holds, NoGroups, PlanFresh, Stored, Before, Outside
<1>9. Storing(x)'
  BY <1>1, <1>5 DEF IInv, Keeping, Storing, Settled, SameGroups
<1>10. Moved(x, Running, Running)
  BY <1>2 DEF Moved, Running, Steps, Unchecked, Outside
<1>11. i \notin Left(x)
  <2>1. \A g \in Unsent(x) : i \notin g
    BY <1>3 DEF IInv, Keeping, Disjoint, Answered
  <2>2. \A o \in job[x].arrived : i \notin o.group
    BY <1>3 DEF IInv, Keeping, Disjoint, Answered
  <2>3. \A o \in job[x].outcomes : o.verdict # "valid" => i \notin o.group
    BY <1>3 DEF IInv, Keeping, Disjoint, Answered
  <2> QED
    BY <2>1, <2>2, <2>3, MembersLeft DEF Left
<1>12. \A k \in Unsettled(x)' : k \in Unsettled(x) /\ k # i
  BY <1>1, <1>2, <1>5, <1>7, <1>11 DEF Unsettled, Settled, Moved
<1>13. Buying(x)'
  BY <1>1, <1>2, <1>5, <1>10, <1>12, SettledKeeps DEF Moved
<1> QED
  BY <1>1, <1>3, <1>5, <1>6, <1>7, <1>8, <1>9, <1>13, ServedFromRow DEF Kept, Keeping

-----------------------------------------------------------------------------
(* The ways out of Execute, and what Apply records after it.               *)
LEMMA HandlerFailsStep ==
  ASSUME IInv, NEW x \in Appliers, HandlerFails(x)
  PROVE  Kept(x)
<1>1. PICK e \in {"error", "cancelled"} : job' = [job EXCEPT ![x].error = e]
  BY DEF HandlerFails, BankRefuses, WriteFails
<1>2. Local(x) /\ SameGroups(x) /\ job'[x].discarded = job[x].discarded
  BY <1>1 DEF IInv, Shape, JobFields, Local, SameGroups
<1>3. Moved(x, Running, Ending) /\ pc'[x] # "recording"
  BY GotoEffect DEF HandlerFails, IInv, Steps, Moved, Running, Unchecked, Outside, Ending
<1>4. Unwritten /\ UNCHANGED <<approved, embedLock>>
  BY DEF HandlerFails, ledger, catalogVars, Unwritten
<1> QED
  BY <1>2, <1>3, <1>4, EndingKeeps

LEMMA CancelStep ==
  ASSUME IInv, NEW x \in Appliers, Cancel(x)
  PROVE  Kept(x)
<1>1. Local(x) /\ SameGroups(x) /\ job'[x].discarded = job[x].discarded
  BY DEF Cancel, IInv, Shape, JobFields, Local, SameGroups
<1>2. Moved(x, Running, Ending) /\ pc'[x] # "recording"
  BY GotoEffect DEF Cancel, IInv, Steps, Moved, Running, Unchecked, Outside, Ending
<1>3. Unwritten /\ UNCHANGED <<approved, embedLock>>
  BY DEF Cancel, ledger, catalogVars, Unwritten
<1> QED
  BY <1>1, <1>2, <1>3, EndingKeeps

(* Groups in flight become outcomes of their own, cancelled.               *)
LEMMA StopStep ==
  ASSUME IInv, NEW x \in Appliers, StopAndDrain(x)
  PROVE  Kept(x)
<1> DEFINE Dropped(g) == [group |-> g, verdict |-> "cancelled", raw |-> << >>]
           all == job[x].outcomes \cup job[x].arrived \cup { Dropped(g) : g \in job[x].flying }
<1>1. job' = [job EXCEPT ![x].outcomes = all, ![x].arrived = {}, ![x].flying = {},
                         ![x].todo = Failed(all)]
  BY DEF StopAndDrain
<1>2. \A o \in all : \/ o \in Answered(x)
                     \/ \E g \in job[x].flying : o = Dropped(g)
  BY DEF Answered
<1>3. \A g : Dropped(g).group = g
  OBVIOUS
<1>4. \A o \in all : \/ o \in job[x].outcomes
                     \/ o \in job[x].arrived
                     \/ o.group \in job[x].flying
  BY <1>3
<1> HIDE DEF all, Dropped
<1>5. /\ Local(x) /\ job'[x].queue = job[x].queue
      /\ job'[x].flying = {} /\ job'[x].arrived = {} /\ job'[x].outcomes = all
      /\ job'[x].todo = Failed(all) /\ job'[x].discarded = job[x].discarded
  BY <1>1 DEF IInv, Shape, JobFields, Local
<1>6. Moved(x, Running, {"recording", "finishing"})
  BY GotoEffect DEF StopAndDrain, IInv, Steps, Moved, Running, Unchecked, Outside
<1>7. Unwritten /\ UNCHANGED <<approved, embedLock>>
  BY DEF StopAndDrain, ledger, catalogVars, Unwritten
<1>8. Mine(x) /\ Shared(x)
  BY <1>5, <1>6, <1>7, LocalIsMine DEF IInv, Unwritten
<1>9. Disjoint(x)
  BY DEF IInv, Keeping
<1>10. Unsent(x)' = job[x].queue /\ Answered(x)' = all
  BY <1>5 DEF Unsent, Answered
<1>11. Unpaid(x)'
  BY <1>7, <1>10 DEF IInv, Keeping, Unpaid, Unsent, Banked, Unwritten
<1>12. Disjoint(x)'
  <2>1. /\ \A g \in job[x].queue : g # {}
        /\ \A g, h \in job[x].queue : g # h => g \cap h = {}
    BY <1>9 DEF Disjoint, Unsent
  <2>2. \A g \in job[x].queue, h \in job[x].flying : g \cap h = {}
    BY <1>9 DEF Disjoint, Unsent
  <2>3. \A g \in job[x].queue, o \in all : g \cap o.group = {}
    BY <1>2, <1>3, <1>9, <2>2 DEF Disjoint, Unsent
  <2>4. \A o, p \in all : o # p => o.group \cap p.group = {}
    BY <1>2, <1>3, <1>9 DEF Disjoint, Unsent
  <2> QED
    BY <1>5, <1>10, <2>1, <2>3, <2>4 DEF Disjoint
<1>13. Keeping(x)'
  <2>1. embedLock' = x /\ pc'[x] \in {"recording", "finishing"}
    BY <1>6, <1>7 DEF IInv, Keeping, Holds, Moved, Running, Unchecked, Outside
  <2> QED
    BY <1>11, <1>12, <2>1 DEF Keeping, Holds, NoGroups, PlanFresh, Storing, Stored, Before,
                              Outside
<1>14. Moved(x, Running, Running) /\ pc'[x] \in {"recording", "finishing"}
  BY <1>6 DEF Moved, Running, Steps, Unchecked, Outside
<1>15. \A i \in Unsettled(x)' : i \in Unsettled(x)
  <2>1. \A i \in Failed(all) : \E o \in all : o.verdict # "valid" /\ i \in o.group
    BY DEF Failed
  <2>2. \A i \in Failed(all) : i \in Left(x)
    BY <1>4, <2>1, MembersLeft DEF Left, Unsent
  <2>3. Left(x)' = LeftOf(job[x].queue, {}, all)
    BY <1>5, <1>10 DEF Left
  <2>4. \A i \in Left(x)' : i \in Left(x)
    BY <1>4, <2>3, MembersLeft DEF Left, Unsent
  <2> QED
    BY <1>5, <1>14, <2>2, <2>4 DEF Unsettled
<1>16. \A g \in Unsent(x)' : g \in Unsent(x)
  BY <1>10 DEF Unsent
<1>17. Buying(x)'
  BY <1>5, <1>7, <1>14, <1>15, <1>16, BuyingKeeps DEF Ready, Unwritten
<1> QED
  BY <1>7, <1>8, <1>13, <1>17, SameRows DEF Kept

LEMMA AllReceivedStep ==
  ASSUME IInv, NEW x \in Appliers, AllReceived(x)
  PROVE  Kept(x)
<1> DEFINE failed == Failed(job[x].outcomes)
<1>1. failed \subseteq Unsettled(x)
  BY DEF Unsettled, Left, LeftOf
<1>2. job' = [job EXCEPT ![x].todo = failed]
  BY DEF AllReceived
<1> HIDE DEF failed
<1>3. /\ Local(x) /\ SameGroups(x) /\ job'[x].discarded = job[x].discarded
      /\ job'[x].todo = failed
  BY <1>2 DEF IInv, Shape, JobFields, Local, SameGroups
<1>4. Moved(x, Running, Ending)
  BY GotoEffect DEF AllReceived, IInv, Steps, Moved, Running, Unchecked, Outside, Ending
<1>5. Unwritten /\ UNCHANGED <<approved, embedLock>>
  BY DEF AllReceived, ledger, catalogVars, Unwritten
<1> QED
  BY <1>1, <1>3, <1>4, <1>5, EndingKeeps

(* A failed input is recorded or its record refused; nothing got it a      *)
(* vector meanwhile.                                                       *)
LEMMA RecordStep ==
  ASSUME IInv, NEW x \in Appliers, RecordFailure(x)
  PROVE  Kept(x)
<1>1. PICK i \in job[x].todo :
        \/ /\ RecordCurrentEmbeddingFailure(x, i, Class(x, i))
           /\ job' = [job EXCEPT ![x].failed = @ + 1, ![x].todo = @ \ {i}]
        \/ /\ Current(x) /\ (~Active(x, i) \/ Ready(i, approved[x].storage))
           /\ job' = [job EXCEPT ![x].discarded = @ + 1, ![x].todo = @ \ {i}]
           /\ UNCHANGED <<vectors, failures>>
        \/ /\ job' = [job EXCEPT ![x].todo = @ \ {i},
                                 ![x].error = IF @ = "none" THEN "error" ELSE @]
           /\ UNCHANGED <<vectors, failures>>
  BY DEF RecordFailure
<1>2. pc[x] = "recording" /\ UNCHANGED <<bank, embedLock, pc, approved, meta, segments>>
  BY DEF RecordFailure, catalogVars
<1>3. i \in Unsettled(x) /\ pc[x] \in Running /\ embedLock = x
  BY <1>2 DEF Unsettled, Running, Steps, Unchecked, Outside, IInv, Keeping, Holds
<1>4. /\ vectors' = vectors
      /\ \/ job' = [job EXCEPT ![x].failed = @ + 1, ![x].todo = @ \ {i}]
         \/ \E e : job' = [job EXCEPT ![x].todo = @ \ {i}, ![x].error = e]
  <2>1. CASE RecordCurrentEmbeddingFailure(x, i, Class(x, i))
             /\ job' = [job EXCEPT ![x].failed = @ + 1, ![x].todo = @ \ {i}]
    BY <2>1 DEF RecordCurrentEmbeddingFailure
  <2>2. CASE /\ job' = [job EXCEPT ![x].todo = @ \ {i},
                                   ![x].error = IF @ = "none" THEN "error" ELSE @]
             /\ UNCHANGED <<vectors, failures>>
    BY <2>2
  <2> QED
    BY <1>1, <1>3, <2>1, <2>2, StillWanted
<1>5. /\ Local(x) /\ SameGroups(x) /\ job'[x].todo = job[x].todo \ {i}
      /\ job'[x].discarded = job[x].discarded
  <2>1. CASE job' = [job EXCEPT ![x].failed = @ + 1, ![x].todo = @ \ {i}]
    BY <2>1 DEF IInv, Shape, JobFields, Local, SameGroups
  <2>2. ASSUME NEW e, job' = [job EXCEPT ![x].todo = @ \ {i}, ![x].error = e]
        PROVE  /\ Local(x) /\ SameGroups(x) /\ job'[x].todo = job[x].todo \ {i}
               /\ job'[x].discarded = job[x].discarded
    BY <2>2 DEF IInv, Shape, JobFields, Local, SameGroups
  <2> QED
    BY <1>4, <2>1, <2>2
<1>6. Moved(x, Running, Running)
  BY <1>2, <1>3 DEF IInv, Shape, Moved
<1>7. Mine(x) /\ Shared(x)
  BY <1>2, <1>3, <1>5, <1>6, LocalIsMine DEF IInv
<1>8. Unpaid(x)' /\ Disjoint(x)' /\ Unsent(x)' = Unsent(x) /\ Left(x)' = Left(x)
  BY <1>2, <1>5, GroupsKeep DEF IInv, Keeping
<1>9. Keeping(x)'
  BY <1>2, <1>3, <1>8 DEF Keeping, Holds, NoGroups, PlanFresh, Storing, Stored, Before, Outside
<1>10. \A k \in Unsettled(x)' : k \in Unsettled(x)
  BY <1>2, <1>5, <1>8 DEF Unsettled
<1>11. Buying(x)'
  BY <1>2, <1>4, <1>5, <1>6, <1>8, <1>10, BuyingKeeps DEF Ready
<1>12. /\ \A r \in bank' : r = [source |-> r.source, input |-> r.input, raw |-> r.raw]
       /\ PublishedFromBank'
  BY <1>2, <1>4 DEF IInv, Shape, PublishedFromBank
<1> QED
  BY <1>7, <1>9, <1>11, <1>12 DEF Kept

LEMMA AllRecordedStep ==
  ASSUME IInv, NEW x \in Appliers, AllRecorded(x)
  PROVE  Kept(x)
<1>1. Local(x) /\ SameGroups(x) /\ job' = job
  BY DEF AllRecorded, IInv, Shape, Local, SameGroups
<1>2. Moved(x, Running, Ending) /\ pc'[x] # "recording"
  BY GotoEffect DEF AllRecorded, IInv, Steps, Moved, Running, Unchecked, Outside, Ending
<1>3. Unwritten /\ UNCHANGED <<approved, embedLock>>
  BY DEF AllRecorded, ledger, catalogVars, Unwritten
<1> QED
  BY <1>1, <1>2, <1>3, EndingKeeps

-----------------------------------------------------------------------------
(* A new generation ends what was said of the plans of older ones.         *)
LEMMA ReindexStep ==
  ASSUME IInv, Reindex
  PROVE  IInv'
<1>1. /\ UNCHANGED <<vectors, failures, bank, embedLock, pc, approved, job>>
      /\ meta'.generation = meta.generation + 1
  BY DEF Reindex, Install, InstallAs, ledger
<1>2. Shape' /\ PublishedFromBank'
  BY <1>1 DEF IInv, Shape, PublishedFromBank
<1>3. ASSUME NEW x \in Appliers PROVE Keeping(x)' /\ Buying(x)'
  <2>1. Keeping(x) /\ Buying(x)
    BY DEF IInv
  <2>2. Keeping(x)'
    BY <1>1, <2>1 DEF Keeping, Holds, NoGroups, PlanFresh, Unpaid, Unsent, Disjoint, Answered,
                      Storing, Stored, Banked
  <2>3. AsApproved(x)' /\ job'[x].discarded = 0
    BY <1>1, <2>1 DEF Buying, AsApproved, Unsent
  <2>4. Recent(x)'
    BY <1>1, <2>1 DEF Buying, Recent, IInv, Shape
  <2>5. pc'[x] \notin Unchecked => ~StillCurrent(x)'
    BY <1>1, <2>1 DEF Buying, Recent, IInv, Shape, StillCurrent
  <2>6. StillPlan(x)' /\ Worth(x)'
    BY <2>5 DEF StillPlan, Worth, Unchecked, Outside
  <2> QED
    BY <2>2, <2>3, <2>4, <2>6 DEF Buying
<1> QED
  BY <1>2, <1>3 DEF IInv

LEMMA Stuttering ==
  ASSUME IInv, UNCHANGED embedVars
  PROVE  IInv'
<1>1. UNCHANGED <<meta, segments, vectors, failures, bank, embedLock, pc, approved, job>>
  BY DEF embedVars, catalogVars, ledger
<1>2. Shape' /\ PublishedFromBank'
  BY <1>1 DEF IInv, Shape, PublishedFromBank
<1>3. ASSUME NEW x \in Appliers PROVE Keeping(x)' /\ Buying(x)'
  <2>1. Keeping(x) /\ Buying(x)
    BY DEF IInv
  <2>2. Keeping(x)'
    BY <1>1, <2>1 DEF Keeping, Holds, NoGroups, PlanFresh, Unpaid, Unsent, Disjoint, Answered,
                      Storing, Stored, Banked
  <2>3. StillPlan(x)'
    BY <1>1, <2>1, SamePlan DEF Buying, StillPlan, StillCurrent
  <2>4. Worth(x)'
    BY <1>1, <2>1 DEF Buying, Worth, StillCurrent, Unsettled, Left, LeftOf, Unsent, Failed,
                      Active, Ready
  <2>5. AsApproved(x)' /\ Recent(x)' /\ job'[x].discarded = 0
    BY <1>1, <2>1 DEF Buying, AsApproved, Recent, Unsent
  <2> QED
    BY <2>2, <2>3, <2>4, <2>5 DEF Buying
<1> QED
  BY <1>2, <1>3 DEF IInv

LEMMA Initially ==
  ASSUME EmbedInit
  PROVE  IInv
<1>1. Shape /\ PublishedFromBank
  <2>1. meta.generation \in Nat
    BY DEF EmbedInit, CatalogInit
  <2> QED
    BY <2>1 DEF EmbedInit, Shape, PublishedFromBank, Steps, NoJob, JobFields
<1>2. ASSUME NEW x \in Appliers PROVE Keeping(x) /\ Buying(x)
  <2>1. pc[x] = "idle" /\ job[x] = NoJob
    BY DEF EmbedInit
  <2>2. Keeping(x)
    BY <2>1 DEF NoJob, Keeping, Holds, NoGroups, PlanFresh, Unpaid, Unsent, Disjoint, Answered,
                Storing, Stored, Outside
  <2>3. Buying(x)
    BY <2>1 DEF NoJob, Buying, AsApproved, Unsent, Recent, StillPlan, Worth, Unchecked, Outside
  <2> QED
    BY <2>2, <2>3
<1> QED
  BY <1>1, <1>2 DEF IInv

LEMMA ProceedKeeps ==
  ASSUME IInv, NEW x \in Appliers, Proceed(x)
  PROVE  Kept(x)
<1>1. CASE CheckPlan(x) \/ ReturnStale(x) \/ StartEmbeddingRun(x) \/ PublishSourceInput(x)
           \/ SourceInputFails(x) \/ BeginExecute(x)
  BY <1>1, CheckStep, ReturnStaleStep, StartStep, PublishSourceStep, SourceFailsStep, BeginStep
<1>2. CASE SendGroup(x) \/ Answer(x) \/ Collect(x) \/ PutDocumentSource(x) \/ PublishAnswer(x)
           \/ HandlerFails(x)
  BY <1>2, SendStep, AnswerStep, CollectStep, PutStep, PublishAnswerStep, HandlerFailsStep
<1>3. CASE StopAndDrain(x) \/ AllReceived(x) \/ RecordFailure(x) \/ AllRecorded(x)
           \/ FinishEmbeddingRun(x)
  BY <1>3, StopStep, AllReceivedStep, RecordStep, AllRecordedStep, FinishStep
<1> QED
  BY <1>1, <1>2, <1>3 DEF Proceed

LEMMA Inductive ==
  ASSUME IInv, [EmbedNext]_embedVars
  PROVE  IInv'
<1>1. CASE Reindex
  BY <1>1, ReindexStep
<1>2. CASE Rest \/ UNCHANGED embedVars
  BY <1>2, Stuttering DEF Rest
<1>3. ASSUME NEW x \in Appliers,
             Approve(x) \/ AcquireState(x) \/ Proceed(x) \/ Cancel(x) \/ Abandon(x) \/ Crash(x)
      PROVE  IInv'
  <2>1. Kept(x)
    BY <1>3, ApproveStep, AcquireStep, ProceedKeeps, CancelStep, AbandonStep, CrashStep
  <2> QED
    BY <2>1, KeptIsEnough
<1> QED
  BY <1>1, <1>2, <1>3 DEF EmbedNext

(* The appliers keep to the lock, their groups apart and their plans fresh.*)
THEOREM Invariance == EmbedSpec => []IInv
<1>1. EmbedInit => IInv
  BY Initially
<1>2. IInv /\ [EmbedNext]_embedVars => IInv'
  BY Inductive
<1> QED
  BY <1>1, <1>2, PTL DEF EmbedSpec

(* Every serving vector is derived from a bank row, whichever process paid *)
(* for it and whatever crashed, failed or was reindexed in between: the    *)
(* order in which Apply writes the bank and the store is enough.           *)
THEOREM ServedOnlyFromBank == EmbedSpec => []PublishedFromBank
<1>1. IInv => PublishedFromBank
  BY DEF IInv
<1> QED
  BY <1>1, Invariance, PTL

(* No input whose answer is in the bank is sent to the provider, or waits  *)
(* to be, by any of any number of processes: one look at the bank under    *)
(* embed.lock, when the plan is made anew, is enough for the whole run.    *)
THEOREM NothingPaidTwice == EmbedSpec => []NoRepeatPayment
<1>1. IInv => NoRepeatPayment
  BY DEF IInv, Keeping, Unpaid, Unsent, NoRepeatPayment
<1> QED
  BY <1>1, Invariance, PTL

(* Only the approved plan is bought; until its run begins it is still the  *)
(* exact work of the active generation; and no input of a run is ever      *)
(* thrown away as unwanted, for while its generation is active nothing     *)
(* else can drop it or give it a vector.                                   *)
THEOREM ApprovedIsBought == EmbedSpec => []BoughtAsApproved
<1>1. ASSUME IInv PROVE BoughtAsApproved
  <2>1. SUFFICES ASSUME NEW x \in Appliers
                 PROVE  /\ \A g \in job[x].queue \cup job[x].flying :
                             g \subseteq approved[x].fromProvider
                        /\ pc[x] = "starting" /\ Current(x)
                             => CurrentPlan(approved[x].retry) = approved[x]
                        /\ job[x].discarded = 0
    BY DEF BoughtAsApproved
  <2>2. AsApproved(x) /\ StillPlan(x) /\ job[x].discarded = 0
    BY <1>1 DEF IInv, Buying
  <2>3. Current(x) => StillCurrent(x)
    BY DEF Current, StillCurrent
  <2> QED
    BY <2>2, <2>3 DEF AsApproved, Unsent, StillPlan
<1> QED
  BY <1>1, Invariance, PTL

-----------------------------------------------------------------------------
(***************************************************************************)
(* The run's row.  What a run has still to count (Open) shrinks by one     *)
(* with every success and failure it counts, so its counts never exceed    *)
(* the plan, and reach it unless an error ended the run; and as long as    *)
(* nothing failed, an active input of its generation has a vector or is    *)
(* still open.                                                             *)
(***************************************************************************)
Open(x) ==
  IF pc[x] = "recording" THEN job[x].todo
  ELSE IF pc[x] = "finishing" THEN {} ELSE Unsettled(x)

Untouched(x) == pc[x] \notin Running => job[x] = NoJob

OwnRow(x) ==
  pc[x] \in Running =>
    /\ job[x].run \in 1..Len(runs)
    /\ runs[job[x].run].generation = approved[x].generation
    /\ runs[job[x].run].skipped = approved[x].skipped

Counted(x) ==
  pc[x] \in Running =>
    /\ job[x].succeeded \in Nat /\ job[x].failed \in Nat /\ Payable(approved[x]) \in Nat
    /\ IsFiniteSet(Open(x))
    /\ job[x].succeeded + job[x].failed + Cardinality(Open(x)) <= Payable(approved[x])
    /\ job[x].error = "none"
         => job[x].succeeded + job[x].failed + Cardinality(Open(x)) = Payable(approved[x])
    /\ pc[x] \in {"draining", "aborting"} => job[x].error # "none"

Covering(x) ==
  pc[x] \in Running /\ StillCurrent(x) =>
    /\ meta.serving = approved[x].storage
    /\ job[x].error = "none" /\ job[x].failed = 0 =>
         \A i \in ActiveInputs(segments, approved[x].storage) \ approved[x].skipped :
            Ready(i, approved[x].storage) \/ i \in Open(x)

Recorded(x) == Untouched(x) /\ OwnRow(x) /\ Counted(x) /\ Covering(x)

LedgerInv ==
  /\ IsFiniteSet(segments)
  /\ \E S : runs \in Seq(S)
  /\ \A k \in 1..Len(runs) : runs[k].generation \in Nat /\ runs[k].generation <= meta.generation
  /\ \A x \in Appliers : Recorded(x)
  /\ SucceededCovers

-----------------------------------------------------------------------------
(* A repository has finitely many segments.                                *)
LEMMA FiniteImage ==
  ASSUME NEW S, IsFiniteSet(S), NEW f, f = [s \in S |-> f[s]]
  PROVE  IsFiniteSet({ f[s] : s \in S })
<1> DEFINE T == { f[s] : s \in S }
<1>1. f \in Surjection(S, T)
  BY DEF Surjection
<1> QED
  BY <1>1, FS_Surjection

LEMMA FiniteFile ==
  ASSUME NEW p, NEW content \in Contents, NEW cfg \in Configs
  PROVE  IsFiniteSet(FileRows(p, content, cfg))
<1> DEFINE bodies == Chunks[<<content, cfg.index>>]
           Row(i) == [path      |-> p,
                      number    |-> i,
                      body      |-> bodies[i],
                      input     |-> CanonicalInput(p, bodies[i], cfg.canonical),
                      canonical |-> cfg.canonical,
                      serving   |-> cfg.storage]
           f == [i \in 1..Len(bodies) |-> Row(i)]
<1>1. IsFiniteSet(1..Len(bodies))
  BY FiniteAssumption, FS_Interval
<1>2. IsFiniteSet({ f[i] : i \in 1..Len(bodies) })
  <2>1. f = [i \in 1..Len(bodies) |-> f[i]]
    OBVIOUS
  <2> HIDE DEF f
  <2> QED
    BY <1>1, <2>1, FiniteImage
<1>3. { f[i] : i \in 1..Len(bodies) } = { Row(i) : i \in 1..Len(bodies) }
  OBVIOUS
<1>4. FileRows(p, content, cfg) = { Row(i) : i \in 1..Len(bodies) }
  BY DEF FileRows
<1> QED
  BY <1>2, <1>3, <1>4

LEMMA FiniteRows ==
  ASSUME NEW cfg \in Configs, NEW table \in FileTables
  PROVE  IsFiniteSet(Rebuilt(table, cfg))
<1> DEFINE full == {q \in Paths : table[q] # Absent}
           f == [p \in full |-> FileRows(p, table[p], cfg)]
<1>1. IsFiniteSet(full)
  BY FiniteAssumption, FS_Subset
<1>2. IsFiniteSet({ f[p] : p \in full })
  <2>1. f = [p \in full |-> f[p]]
    OBVIOUS
  <2> HIDE DEF f, full
  <2> QED
    BY <1>1, <2>1, FiniteImage
<1>3. \A T \in { f[p] : p \in full } : IsFiniteSet(T)
  <2>1. \A p \in full : table[p] \in Contents
    BY DEF FileTables
  <2>2. \A p \in full : IsFiniteSet(FileRows(p, table[p], cfg))
    BY <2>1, FiniteFile
  <2> QED
    BY <2>2
<1>4. IsFiniteSet(UNION { f[p] : p \in full })
  BY <1>2, <1>3, FS_UNION
<1>5. { f[p] : p \in full } = { FileRows(p, table[p], cfg) : p \in full }
  OBVIOUS
<1> QED
  BY <1>4, <1>5 DEF Rebuilt

LEMMA FiniteActive ==
  ASSUME NEW rows, IsFiniteSet(rows), NEW serving
  PROVE  IsFiniteSet(ActiveInputs(rows, serving))
<1> DEFINE mine == {s \in rows : s.serving = serving}
           f == [r \in mine |-> r.input]
<1>1. IsFiniteSet(mine)
  BY FS_Subset
<1>2. IsFiniteSet({ f[r] : r \in mine })
  <2>1. f = [r \in mine |-> f[r]]
    OBVIOUS
  <2> HIDE DEF f, mine
  <2> QED
    BY <1>1, <2>1, FiniteImage
<1>3. { f[r] : r \in mine } = { r.input : r \in mine }
  OBVIOUS
<1> QED
  BY <1>2, <1>3 DEF ActiveInputs

(* What a plan will pay for, or find in the bank, is what Payable counts.  *)
LEMMA PayableCounts ==
  ASSUME IsFiniteSet(segments), NEW retry
  PROVE  LET plan == CurrentPlan(retry)
         IN /\ IsFiniteSet(plan.fromBank \cup plan.fromProvider)
            /\ Payable(plan) = Cardinality(plan.fromBank \cup plan.fromProvider)
            /\ \A i \in ActiveInputs(segments, meta.serving) \ plan.skipped :
                 Ready(i, meta.serving) \/ i \in plan.fromBank \cup plan.fromProvider
<1> DEFINE active  == ActiveInputs(segments, meta.serving)
           ready   == ReadyInputs(active)
           skipped == { i \in active \ ready : Terminal(meta.profiles.source, i) /\ ~retry }
           wanted  == active \ (ready \cup skipped)
           plan    == CurrentPlan(retry)
<1>1. /\ plan.distinct = Cardinality(active) /\ plan.ready = Cardinality(ready)
      /\ plan.skipped = skipped
      /\ plan.fromBank = BankHits(wanted) /\ plan.fromProvider = wanted \ BankHits(wanted)
  BY DEF CurrentPlan
<1>2. plan.fromBank \cup plan.fromProvider = wanted
  BY <1>1 DEF BankHits
<1>3. /\ ready \subseteq active /\ skipped \subseteq active /\ ready \cap skipped = {}
      /\ \A i \in active : i \in ready <=> Ready(i, meta.serving)
  BY DEF ReadyInputs
<1>4. IsFiniteSet(active)
  BY FiniteActive
<1> HIDE DEF active, ready, skipped
<1>5. /\ IsFiniteSet(ready) /\ IsFiniteSet(skipped)
  BY <1>3, <1>4, FS_Subset
<1>6. /\ IsFiniteSet(ready \cup skipped)
      /\ Cardinality(ready \cup skipped) = Cardinality(ready) + Cardinality(skipped)
  <2>1. Cardinality(ready \cap skipped) = 0
    BY <1>3, FS_EmptySet
  <2>2. Cardinality(ready) \in Nat /\ Cardinality(skipped) \in Nat
    BY <1>5, FS_CardinalityType
  <2>3. /\ IsFiniteSet(ready \cup skipped)
        /\ Cardinality(ready \cup skipped)
             = Cardinality(ready) + Cardinality(skipped) - Cardinality(ready \cap skipped)
    BY <1>5, FS_Union, Zenon
  <2> QED
    BY <2>1, <2>2, <2>3
<1>7. /\ IsFiniteSet(wanted)
      /\ Cardinality(wanted) = Cardinality(active) - Cardinality(ready \cup skipped)
  <2>1. active \cap (ready \cup skipped) = ready \cup skipped
    BY <1>3
  <2>2. /\ IsFiniteSet(active \ (ready \cup skipped))
        /\ Cardinality(active \ (ready \cup skipped))
             = Cardinality(active) - Cardinality(active \cap (ready \cup skipped))
    BY <1>4, FS_Difference, Zenon
  <2> QED
    BY <2>1, <2>2
<1>8. Cardinality(active) \in Nat /\ Cardinality(ready) \in Nat /\ Cardinality(skipped) \in Nat
  BY <1>4, <1>5, FS_CardinalityType
<1>9. Payable(plan) = Cardinality(wanted)
  BY <1>1, <1>6, <1>7, <1>8 DEF Payable
<1>10. \A i \in active \ plan.skipped :
         Ready(i, meta.serving) \/ i \in plan.fromBank \cup plan.fromProvider
  BY <1>1, <1>2, <1>3
<1> QED
  BY <1>2, <1>7, <1>9, <1>10 DEF active

-----------------------------------------------------------------------------
(* A step inside a run counts nothing, gives up with an error, or counts   *)
(* one open input as a success that has its vector or as a failure.        *)
SameCounts(x) == job'[x].succeeded = job[x].succeeded /\ job'[x].failed = job[x].failed

Unmoved(x) ==
  /\ Open(x)' = Open(x) /\ SameCounts(x) /\ job'[x].error = job[x].error
  /\ pc'[x] \notin {"draining", "aborting"}

GivesUp(x) == Open(x)' \subseteq Open(x) /\ SameCounts(x) /\ job'[x].error # "none"

Counts(x, i) ==
  /\ Open(x)' = Open(x) \ {i} /\ job'[x].error = job[x].error
  /\ \/ /\ job'[x].succeeded = job[x].succeeded + 1 /\ job'[x].failed = job[x].failed
        /\ Ready(i, approved[x].storage)'
     \/ job'[x].succeeded = job[x].succeeded /\ job'[x].failed = job[x].failed + 1
  /\ pc'[x] \notin {"draining", "aborting"}

Advances(x) ==
  /\ Moved(x, Running, Running)
  /\ UNCHANGED <<approved, meta, segments, runs>>
  /\ job'[x].run = job[x].run
  /\ Unmoved(x) \/ GivesUp(x) \/ \E i \in Open(x) : Counts(x, i)

(* No step takes the vector of an input away.                              *)
Grows == \A i, serving : Ready(i, serving) => Ready(i, serving)'

LEMMA AdvanceCounted ==
  ASSUME NEW x \in Appliers, Counted(x), Advances(x)
  PROVE  Counted(x)'
<1> DEFINE s == job[x].succeeded
           f == job[x].failed
           n == Payable(approved[x])
<1>1. /\ s \in Nat /\ f \in Nat /\ n \in Nat /\ IsFiniteSet(Open(x))
      /\ s + f + Cardinality(Open(x)) <= n
      /\ job[x].error = "none" => s + f + Cardinality(Open(x)) = n
  BY DEF Advances, Moved, Counted
<1>2. Cardinality(Open(x)) \in Nat
  BY <1>1, FS_CardinalityType
<1>3. Payable(approved[x])' = n
  BY DEF Advances, Payable
<1>4. CASE Unmoved(x)
  BY <1>1, <1>3, <1>4 DEF Unmoved, SameCounts, Counted
<1>5. CASE GivesUp(x)
  <2>1. IsFiniteSet(Open(x)') /\ Cardinality(Open(x)') <= Cardinality(Open(x))
    BY <1>1, <1>5, FS_Subset DEF GivesUp
  <2>2. Cardinality(Open(x)') \in Nat
    BY <2>1, FS_CardinalityType
  <2>3. job'[x].succeeded = s /\ job'[x].failed = f /\ job'[x].error # "none"
    BY <1>5 DEF GivesUp, SameCounts
  <2> HIDE DEF s, f, n
  <2>4. s + f + Cardinality(Open(x)') <= n
    BY <1>1, <1>2, <2>1, <2>2
  <2> QED
    BY <1>1, <1>3, <2>1, <2>3, <2>4 DEF Counted
<1>6. ASSUME NEW i \in Open(x), Counts(x, i) PROVE Counted(x)'
  <2>1. /\ IsFiniteSet(Open(x)') /\ Cardinality(Open(x)') = Cardinality(Open(x)) - 1
    BY <1>1, <1>6, FS_RemoveElement DEF Counts
  <2>2. /\ job'[x].error = job[x].error /\ pc'[x] \notin {"draining", "aborting"}
        /\ job'[x].succeeded \in Nat /\ job'[x].failed \in Nat
        /\ job'[x].succeeded + job'[x].failed = s + f + 1
    BY <1>1, <1>6 DEF Counts
  <2> HIDE DEF s, f, n
  <2>3. job'[x].succeeded + job'[x].failed + Cardinality(Open(x)') = s + f + Cardinality(Open(x))
    BY <1>1, <1>2, <2>1, <2>2
  <2> QED
    BY <1>1, <1>3, <2>1, <2>2, <2>3 DEF Counted
<1> QED
  BY <1>4, <1>5, <1>6 DEF Advances

LEMMA AdvanceRecorded ==
  ASSUME NEW x \in Appliers, Recorded(x), Advances(x), Grows
  PROVE  Recorded(x)'
<1>1. Untouched(x)'
  BY DEF Untouched, Advances, Moved
<1>2. OwnRow(x)'
  BY DEF Recorded, OwnRow, Advances, Moved
<1>3. Counted(x)'
  BY AdvanceCounted DEF Recorded
<1>4. Covering(x)'
  <2>1. SUFFICES ASSUME StillCurrent(x)'
                 PROVE  /\ (meta.serving = approved[x].storage)'
                        /\ job'[x].error = "none" /\ job'[x].failed = 0 =>
                             \A i \in (ActiveInputs(segments, approved[x].storage)
                                         \ approved[x].skipped)' :
                               Ready(i, approved[x].storage)' \/ i \in Open(x)'
    BY DEF Covering
  <2>2. /\ meta.serving = approved[x].storage
        /\ job[x].error = "none" /\ job[x].failed = 0 =>
             \A i \in ActiveInputs(segments, approved[x].storage) \ approved[x].skipped :
               Ready(i, approved[x].storage) \/ i \in Open(x)
    BY <2>1 DEF Recorded, Covering, StillCurrent, Advances, Moved
  <2>3. job[x].failed \in Nat
    BY DEF Recorded, Counted, Advances, Moved
  <2>4. ASSUME job'[x].error = "none", job'[x].failed = 0,
               NEW i \in ActiveInputs(segments, approved[x].storage) \ approved[x].skipped
        PROVE  Ready(i, approved[x].storage)' \/ i \in Open(x)'
    <3>1. job[x].error = "none" /\ job[x].failed = 0
      BY <2>3, <2>4 DEF Advances, Unmoved, GivesUp, Counts, SameCounts
    <3>2. Ready(i, approved[x].storage) => Ready(i, approved[x].storage)'
      BY DEF Grows, Advances, Ready
    <3>3. i \in Open(x) => i \in Open(x)' \/ Ready(i, approved[x].storage)'
      <4>1. CASE Unmoved(x)
        BY <4>1 DEF Unmoved
      <4>2. CASE GivesUp(x)
        BY <2>4, <4>2 DEF GivesUp
      <4>3. ASSUME NEW k \in Open(x), Counts(x, k)
            PROVE  i \in Open(x) => i \in Open(x)' \/ Ready(i, approved[x].storage)'
        BY <2>3, <2>4, <4>3 DEF Counts
      <4> QED
        BY <4>1, <4>2, <4>3 DEF Advances
    <3> QED
      BY <2>2, <3>1, <3>2, <3>3
  <2> QED
    BY <2>2, <2>4 DEF Advances
<1> QED
  BY <1>1, <1>2, <1>3, <1>4 DEF Recorded

(* The rows of other runs, and what was said of them, stay.                *)
LEMMA OthersRecorded ==
  ASSUME LedgerInv, NEW x \in Appliers, Mine(x), UNCHANGED <<meta, segments>>, Grows,
         \A k \in 1..Len(runs) :
           /\ k \in 1..Len(runs')
           /\ runs'[k].generation = runs[k].generation /\ runs'[k].skipped = runs[k].skipped,
         NEW y \in Appliers \ {x}
  PROVE  Recorded(y)'
<1>1. /\ Recorded(y)
      /\ pc'[y] = pc[y] /\ approved'[y] = approved[y] /\ job'[y] = job[y]
  BY DEF LedgerInv, Mine
<1>2. Open(y)' = Open(y)
  BY <1>1 DEF Open, Unsettled, Left, LeftOf, Unsent, Failed
<1>3. Untouched(y)' /\ OwnRow(y)'
  BY <1>1 DEF Recorded, Untouched, OwnRow
<1>4. Counted(y)'
  BY <1>1, <1>2 DEF Recorded, Counted, Payable
<1>5. \A i : Ready(i, approved[y].storage) => Ready(i, approved[y].storage)'
  BY SMTT(30), <1>1 DEF Grows, Ready
<1>6. Covering(y)'
  BY <1>1, <1>2, <1>5 DEF Recorded, Covering, StillCurrent
<1> QED
  BY <1>3, <1>4, <1>6 DEF Recorded

LEMMA RowOf ==
  ASSUME NEW S, NEW s \in Seq(S)
  PROVE  Range(s) = { s[k] : k \in 1..Len(s) }
  BY DEF Range

LEMMA CoversKeeps ==
  ASSUME SucceededCovers, UNCHANGED <<meta, segments, runs>>, Grows
  PROVE  SucceededCovers'
  BY DEF SucceededCovers, Grows

LEMMA LedgerKeeps ==
  ASSUME LedgerInv, NEW x \in Appliers, Mine(x), UNCHANGED <<meta, segments, runs>>, Grows,
         Recorded(x)'
  PROVE  LedgerInv'
<1>1. \A y \in Appliers : Recorded(y)'
  BY OthersRecorded
<1>2. SucceededCovers'
  BY CoversKeeps DEF LedgerInv
<1> QED
  BY <1>1, <1>2 DEF LedgerInv

LEMMA AdvanceKeeps ==
  ASSUME IInv, LedgerInv, NEW x \in Appliers, Kept(x), Advances(x), Grows
  PROVE  LedgerInv'
<1>1. Recorded(x)'
  BY AdvanceRecorded DEF LedgerInv
<1> QED
  BY <1>1, LedgerKeeps DEF Kept, Advances

LEMMA UnwrittenGrows ==
  ASSUME vectors' = vectors
  PROVE  Grows
  BY DEF Grows, Ready

-----------------------------------------------------------------------------
(* Outside a run there is nothing to record.                               *)
LEMMA EarlyKeeps ==
  ASSUME IInv, LedgerInv, NEW x \in Appliers, Kept(x), pc'[x] \notin Running, job'[x] = NoJob,
         UNCHANGED <<runs, vectors>>
  PROVE  LedgerInv'
<1>1. Recorded(x)'
  BY DEF Recorded, Untouched, OwnRow, Counted, Covering
<1>2. UNCHANGED <<meta, segments>>
  BY DEF Kept, Shared
<1> QED
  BY <1>1, <1>2, LedgerKeeps, UnwrittenGrows DEF Kept

LEMMA PrologueRecords ==
  ASSUME IInv, LedgerInv, NEW x \in Appliers,
         Approve(x) \/ AcquireState(x) \/ CheckPlan(x) \/ ReturnStale(x) \/ Abandon(x) \/ Crash(x)
  PROVE  LedgerInv'
<1>1. Kept(x)
  BY ApproveStep, AcquireStep, CheckStep, ReturnStaleStep, AbandonStep, CrashStep
<1>2. UNCHANGED <<runs, vectors>>
  BY DEF Approve, AcquireState, CheckPlan, ReturnStale, Abandon, Crash, ledger
<1>3. CASE ReturnStale(x) \/ Abandon(x) \/ Crash(x)
  <2>1. Return(x)
    BY <1>3 DEF ReturnStale, Abandon, Crash
  <2>2. pc'[x] = "idle" /\ job'[x] = NoJob
    BY <2>1 DEF Return, Goto, IInv, Shape
  <2> QED
    BY <1>1, <1>2, <2>2, EarlyKeeps DEF Running, Unchecked, Outside
<1>4. CASE Approve(x) \/ AcquireState(x) \/ CheckPlan(x)
  <2>1. /\ job' = job /\ pc[x] \in Unchecked
        /\ pc'[x] \in {"locking", "checking", "starting"}
    BY <1>4 DEF Approve, AcquireState, CheckPlan, Goto, IInv, Shape, Unchecked, Outside
  <2>2. job[x] = NoJob
    BY <2>1 DEF LedgerInv, Recorded, Untouched, Running
  <2> QED
    BY <1>1, <1>2, <2>1, <2>2, EarlyKeeps DEF Running, Unchecked, Outside
<1> QED
  BY <1>3, <1>4

(* A new row, running; everything the plan wants is open.                  *)
LEMMA StartRecords ==
  ASSUME IInv, LedgerInv, NEW x \in Appliers, StartEmbeddingRun(x)
  PROVE  LedgerInv'
<1> DEFINE row == [generation |-> meta.generation, status |-> "running",
                   skipped |-> approved[x].skipped]
           plan == approved[x]
           todo == approved[x].fromBank
           run == Len(runs')
<1>1. /\ Moved(x, {"starting"}, {"sourcing"})
      /\ Current(x) /\ runs' = Append(runs, row)
      /\ UNCHANGED <<meta, segments, vectors, approved>>
  BY GotoEffect DEF StartEmbeddingRun, IInv, Steps, Moved, catalogVars
<1>2. Kept(x)
  BY StartStep
<1>3. PICK S : runs \in Seq(S)
  BY DEF LedgerInv
<1>4. /\ runs' \in Seq(S \cup {row}) /\ Len(runs') = Len(runs) + 1 /\ Len(runs) \in Nat
      /\ runs'[Len(runs) + 1] = row
      /\ \A k \in 1..Len(runs) : runs'[k] = runs[k]
  BY <1>1, <1>3
<1>5. job[x] = NoJob
  BY <1>1 DEF LedgerInv, Recorded, Untouched, Moved, Running
<1>6. job' = [job EXCEPT ![x].run = run, ![x].todo = todo]
  BY DEF StartEmbeddingRun
<1>7. /\ job'[x].run = run /\ job'[x].todo = todo
      /\ job'[x].succeeded = 0 /\ job'[x].failed = 0 /\ job'[x].error = "none"
      /\ job'[x].queue = {} /\ job'[x].flying = {} /\ job'[x].arrived = {}
      /\ job'[x].outcomes = {}
  <2> HIDE DEF run, todo
  <2> QED
    BY <1>5, <1>6 DEF IInv, Shape, NoJob
<1>8. Open(x)' = plan.fromBank \cup plan.fromProvider
  <2>1. Left(x)' = {}
    BY <1>7 DEF Left, LeftOf, Unsent, Failed
  <2> QED
    BY <1>1, <1>7, <2>1 DEF Open, Unsettled, Moved
<1>9. CurrentPlan(plan.retry) = plan /\ meta.serving = plan.storage
      /\ meta.generation = plan.generation
  BY <1>1 DEF Current, IInv, Buying, StillPlan, StillCurrent, Moved
<1>10. /\ IsFiniteSet(plan.fromBank \cup plan.fromProvider)
       /\ Payable(plan) = Cardinality(plan.fromBank \cup plan.fromProvider)
       /\ \A i \in ActiveInputs(segments, meta.serving) \ plan.skipped :
            Ready(i, meta.serving) \/ i \in plan.fromBank \cup plan.fromProvider
  BY <1>9, PayableCounts DEF LedgerInv
<1>11. Payable(plan) \in Nat
  BY <1>10, FS_CardinalityType
<1>12. Counted(x)'
  <2>1. Payable(approved[x])' = Payable(plan)
    BY <1>1 DEF Payable
  <2>2. 0 + 0 + Cardinality(Open(x)') = Payable(plan)
    BY <1>8, <1>10, <1>11
  <2> QED
    BY <1>1, <1>7, <1>8, <1>10, <1>11, <2>1, <2>2 DEF Counted, Moved
<1>13. Covering(x)'
  <2>1. \A i, serving : Ready(i, serving) => Ready(i, serving)'
    BY <1>1 DEF Ready
  <2>2. approved'[x] = plan
    BY <1>1
  <2> QED
    BY <1>1, <1>8, <1>9, <1>10, <2>1, <2>2 DEF Covering
<1>14. OwnRow(x)'
  BY <1>1, <1>4, <1>7, <1>9 DEF OwnRow
<1>15. Recorded(x)'
  BY <1>1, <1>12, <1>13, <1>14 DEF Recorded, Untouched, Moved, Running, Steps, Unchecked, Outside
<1>16. \A y \in Appliers : Recorded(y)'
  BY <1>1, <1>2, <1>4, <1>15, OthersRecorded, UnwrittenGrows DEF Kept
<1>17. SucceededCovers'
  <2>1. Range(runs') = Range(runs) \cup {row}
    BY <1>3, <1>4, RowOf
  <2>2. \A r \in Range(runs') : r.status = "succeeded" => r \in Range(runs)
    BY <2>1
  <2> QED
    BY <1>1, <2>2 DEF LedgerInv, SucceededCovers, Ready
<1>18. \A k \in 1..Len(runs') :
         runs'[k].generation \in Nat /\ runs'[k].generation <= meta'.generation
  BY <1>1, <1>4 DEF LedgerInv, IInv, Shape
<1> QED
  BY <1>1, <1>4, <1>16, <1>17, <1>18 DEF LedgerInv

(* The row gets its status; a success has nothing open and nothing failed. *)
LEMMA FinishAllowedAlways ==
  ASSUME IInv, NEW x \in Appliers, Recorded(x), pc[x] = "finishing"
  PROVE  FinishAllowed(approved[x], job[x], FinalStatus(job[x]))
<1>1. /\ job[x].succeeded \in Nat /\ job[x].failed \in Nat /\ Payable(approved[x]) \in Nat
      /\ job[x].succeeded + job[x].failed <= Payable(approved[x])
      /\ job[x].error = "none" =>
           job[x].succeeded + job[x].failed = Payable(approved[x])
  <2>1. Open(x) = {} /\ Cardinality({}) = 0
    BY FS_EmptySet DEF Open
  <2> QED
    BY <2>1 DEF Recorded, Counted, Running, Steps, Unchecked, Outside
<1>2. job[x].discarded = 0
  BY DEF IInv, Buying
<1> QED
  BY <1>1, <1>2 DEF FinishAllowed, FinalStatus

LEMMA FinishRecords ==
  ASSUME IInv, LedgerInv, NEW x \in Appliers, FinishEmbeddingRun(x)
  PROVE  LedgerInv'
<1> DEFINE k == job[x].run
           status == FinalStatus(job[x])
<1>1. /\ pc[x] = "finishing" /\ pc'[x] = "idle" /\ job'[x] = NoJob
      /\ UNCHANGED <<meta, segments, vectors>>
  BY DEF FinishEmbeddingRun, Return, Goto, IInv, Shape, catalogVars
<1>2. Kept(x) /\ Recorded(x)
  BY FinishStep DEF LedgerInv
<1>3. pc[x] \in Running
  BY <1>1 DEF Running, Steps, Unchecked, Outside
<1>4. runs' = [runs EXCEPT ![k].status = status]
  BY <1>1, <1>2, FinishAllowedAlways DEF FinishEmbeddingRun
<1>5. /\ k \in 1..Len(runs)
      /\ runs[k].generation = approved[x].generation /\ runs[k].skipped = approved[x].skipped
  BY <1>2, <1>3 DEF Recorded, OwnRow
<1>6. PICK S : runs \in Seq(S)
  BY DEF LedgerInv
<1> DEFINE row == [runs[k] EXCEPT !.status = status]
<1>7. /\ runs' \in Seq(S \cup {row}) /\ Len(runs') = Len(runs) /\ Len(runs) \in Nat
      /\ runs'[k] = row
      /\ \A j \in 1..Len(runs) : j # k => runs'[j] = runs[j]
  <2> HIDE DEF k, status
  <2> QED
    BY <1>4, <1>5, <1>6
<1>8. row.generation = approved[x].generation /\ row.skipped = approved[x].skipped
  BY <1>5
<1>9. row.status = status \/ row = runs[k]
  OBVIOUS
<1> HIDE DEF k, status, row
<1>10. \A j \in 1..Len(runs) :
         /\ j \in 1..Len(runs')
         /\ runs'[j].generation = runs[j].generation /\ runs'[j].skipped = runs[j].skipped
  BY <1>5, <1>7, <1>8
<1>11. Recorded(x)'
  BY <1>1 DEF Recorded, Untouched, OwnRow, Counted, Covering, Running, Unchecked, Outside
<1>12. \A y \in Appliers : Recorded(y)'
  BY <1>1, <1>2, <1>10, <1>11, OthersRecorded, UnwrittenGrows DEF Kept
<1>13. SucceededCovers'
  <2>1. ASSUME NEW r \in Range(runs'), r.status = "succeeded", r.generation = meta.generation,
               NEW i \in ActiveInputs(segments, meta.serving) \ r.skipped
        PROVE  Ready(i, meta.serving)
    <3>1. r \in Range(runs) \/ r = row
      BY <1>5, <1>6, <1>7, <2>1, RowOf
    <3>2. CASE r \in Range(runs)
      BY <2>1, <3>2 DEF LedgerInv, SucceededCovers
    <3>3. CASE r = row /\ row.status = status
      <4>1. job[x].error = "none" /\ job[x].failed = 0
        <5>1. job[x].failed \in Nat /\ job[x].discarded = 0
          BY <1>2, <1>3 DEF Recorded, Counted, IInv, Buying
        <5> QED
          BY <2>1, <3>3, <5>1 DEF status, FinalStatus
      <4>2. StillCurrent(x) /\ i \in ActiveInputs(segments, meta.serving) \ approved[x].skipped
        BY <1>8, <2>1, <3>3 DEF StillCurrent
      <4> QED
        BY <1>1, <1>2, <1>3, <4>1, <4>2 DEF Recorded, Covering, Open
    <3> QED
      BY <1>5, <1>6, <1>9, <3>1, <3>2, <3>3, RowOf
  <2> QED
    BY <1>1, <2>1 DEF SucceededCovers, Ready
<1>14. \A j \in 1..Len(runs') :
         runs'[j].generation \in Nat /\ runs'[j].generation <= meta'.generation
  BY <1>1, <1>7, <1>10 DEF LedgerInv
<1> QED
  BY <1>1, <1>7, <1>12, <1>13, <1>14 DEF LedgerInv

-----------------------------------------------------------------------------
(* Steps that only move open inputs about.                                 *)
LEMMA BeginAdvances ==
  ASSUME IInv, NEW x \in Appliers, BeginExecute(x)
  PROVE  Advances(x) /\ vectors' = vectors
<1>1. Moved(x, {"sourcing"}, {"executing"}) /\ Moved(x, Running, Running)
  BY GotoEffect DEF BeginExecute, IInv, Steps, Moved, Running, Unchecked, Outside
<1>2. PICK P \in Groupings(approved[x].fromProvider) : job' = [job EXCEPT ![x].queue = P]
  BY DEF BeginExecute
<1>3. UNCHANGED <<approved, meta, segments, runs, vectors>> /\ job[x].todo = {}
  BY DEF BeginExecute, ledger, catalogVars
<1>4. /\ job'[x].queue = P /\ job'[x].flying = {} /\ job'[x].arrived = {}
      /\ job'[x].outcomes = {} /\ job'[x].run = job[x].run /\ SameCounts(x)
      /\ job'[x].error = job[x].error
  BY <1>1, <1>2 DEF IInv, Shape, JobFields, Keeping, NoGroups, Before, Moved, SameCounts
<1>5. Left(x) = {}
  BY <1>1 DEF IInv, Keeping, NoGroups, Before, Moved, Left, LeftOf, Unsent, Failed
<1>6. Open(x) = approved[x].fromProvider
  BY <1>1, <1>3, <1>5 DEF Open, Unsettled, Moved
<1>7. UNION P = approved[x].fromProvider
  BY DEF Groupings
<1>8. Open(x)' = UNION P
  BY <1>1, <1>4 DEF Open, Unsettled, Moved, Left, LeftOf, Unsent, Failed
<1> QED
  BY <1>1, <1>3, <1>4, <1>6, <1>7, <1>8 DEF Advances, Unmoved, Moved

LEMMA SendAdvances ==
  ASSUME IInv, NEW x \in Appliers, SendGroup(x)
  PROVE  Advances(x) /\ vectors' = vectors
<1>1. PICK g \in job[x].queue :
        job' = [job EXCEPT ![x].queue = @ \ {g}, ![x].flying = @ \cup {g}]
  BY DEF SendGroup
<1>2. pc[x] = "executing" /\ UNCHANGED <<pc, approved, meta, segments, runs, vectors>>
  BY DEF SendGroup, ledger, catalogVars
<1>3. /\ job'[x].arrived = job[x].arrived /\ job'[x].outcomes = job[x].outcomes
      /\ job'[x].queue = job[x].queue \ {g} /\ job'[x].flying = job[x].flying \cup {g}
      /\ job'[x].run = job[x].run /\ SameCounts(x) /\ job'[x].error = job[x].error
  BY <1>1 DEF IInv, Shape, JobFields, SameCounts
<1>4. Moved(x, Running, Running)
  BY <1>2 DEF IInv, Shape, Moved, Running, Steps, Unchecked, Outside
<1>5. Unsent(x)' = Unsent(x)
  BY <1>3 DEF Unsent
<1>6. Open(x)' = Open(x)
  BY <1>2, <1>3, <1>5 DEF Open, Unsettled, Left, LeftOf, Failed
<1> QED
  BY <1>2, <1>3, <1>4, <1>6 DEF Advances, Unmoved

LEMMA AnswerAdvances ==
  ASSUME IInv, NEW x \in Appliers, Answer(x)
  PROVE  Advances(x) /\ vectors' = vectors
<1>1. PICK g, o :
        /\ g \in job[x].flying /\ o.group = g
        /\ job' = [job EXCEPT ![x].flying = @ \ {g}, ![x].arrived = @ \cup {o}]
  <2>1. PICK g \in job[x].flying, v \in {"valid", "retryable", "terminal"} :
          job' = [job EXCEPT ![x].flying = @ \ {g},
                             ![x].arrived = @ \cup {[group |-> g, verdict |-> v,
                               raw |-> [i \in g |-> Paid(approved[x].source, i) + 1]]}]
    BY DEF Answer
  <2> DEFINE o == [group |-> g, verdict |-> v,
                   raw |-> [i \in g |-> Paid(approved[x].source, i) + 1]]
  <2>2. /\ o.group = g
        /\ job' = [job EXCEPT ![x].flying = @ \ {g}, ![x].arrived = @ \cup {o}]
    BY <2>1
  <2> QED
    BY <2>2
<1>2. /\ pc[x] \in {"executing", "storing", "publishing"}
      /\ UNCHANGED <<pc, approved, meta, segments, runs, vectors>>
  BY DEF Answer, ledger, catalogVars
<1>3. /\ job'[x].queue = job[x].queue /\ job'[x].outcomes = job[x].outcomes
      /\ job'[x].flying = job[x].flying \ {g} /\ job'[x].arrived = job[x].arrived \cup {o}
      /\ job'[x].todo = job[x].todo
      /\ job'[x].run = job[x].run /\ SameCounts(x) /\ job'[x].error = job[x].error
  BY <1>1 DEF IInv, Shape, JobFields, SameCounts
<1>4. Moved(x, Running, Running)
  BY <1>2 DEF IInv, Shape, Moved, Running, Steps, Unchecked, Outside
<1>5. Left(x)' = Left(x)
  <2>1. Left(x)' = LeftOf(job[x].queue \cup (job[x].flying \ {g}), job[x].arrived \cup {o},
                          job[x].outcomes)
    BY <1>3 DEF Left, Unsent
  <2>2. \A i : i \in Left(x)' <=> i \in Left(x)
    BY <1>1, <2>1, MembersLeft DEF Left, Unsent
  <2> QED
    BY <2>2
<1>6. Open(x)' = Open(x)
  BY <1>2, <1>3, <1>5 DEF Open, Unsettled
<1> QED
  BY <1>2, <1>3, <1>4, <1>6 DEF Advances, Unmoved

LEMMA CollectAdvances ==
  ASSUME IInv, NEW x \in Appliers, Collect(x)
  PROVE  Advances(x) /\ vectors' = vectors
<1>1. PICK o \in job[x].arrived :
        IF o.verdict = "valid"
        THEN /\ job' = [job EXCEPT ![x].arrived = @ \ {o}, ![x].outcomes = @ \cup {o},
                                   ![x].answer = o, ![x].todo = o.group]
             /\ Goto(x, "storing")
        ELSE /\ job' = [job EXCEPT ![x].arrived = @ \ {o}, ![x].outcomes = @ \cup {o}]
             /\ UNCHANGED pc
  BY DEF Collect
<1>2. pc[x] = "executing" /\ UNCHANGED <<approved, meta, segments, runs, vectors>>
  BY DEF Collect, ledger, catalogVars
<1>3. /\ job'[x].queue = job[x].queue /\ job'[x].flying = job[x].flying
      /\ job'[x].arrived = job[x].arrived \ {o} /\ job'[x].outcomes = job[x].outcomes \cup {o}
      /\ job'[x].run = job[x].run /\ SameCounts(x) /\ job'[x].error = job[x].error
      /\ \/ Moved(x, {"executing"}, {"executing"}) /\ o.verdict # "valid"
         \/ /\ Moved(x, {"executing"}, {"storing"})
            /\ job'[x].todo = o.group /\ o.verdict = "valid"
  <2>1. CASE o.verdict = "valid"
    <3>1. Moved(x, {"executing"}, {"storing"})
      BY <1>1, <1>2, <2>1, GotoEffect DEF IInv, Steps, Moved
    <3> QED
      BY <1>1, <2>1, <3>1 DEF IInv, Shape, JobFields, SameCounts
  <2>2. CASE o.verdict # "valid"
    <3>1. Moved(x, {"executing"}, {"executing"})
      BY <1>1, <1>2, <2>2 DEF IInv, Shape, Moved
    <3> QED
      BY <1>1, <2>2, <3>1 DEF IInv, Shape, JobFields, SameCounts
  <2> QED
    BY <2>1, <2>2
<1>4. Moved(x, Running, Running) /\ pc'[x] \in {"executing", "storing"}
  BY <1>3 DEF Moved, Running, Steps, Unchecked, Outside
<1>5. Left(x)' = LeftOf(Unsent(x), job[x].arrived \ {o}, job[x].outcomes \cup {o})
  BY <1>3 DEF Left, Unsent
<1>6. \A i : i \in Left(x) <=> i \in Left(x)' \/ i \in o.group
  BY <1>5, MembersLeft DEF Left
<1>7. o.verdict # "valid" => o.group \subseteq Left(x)'
  BY <1>5, MembersLeft
<1>8. Open(x)' = Open(x)
  <2>1. Open(x) = Left(x)
    BY <1>2 DEF Open, Unsettled
  <2>2. CASE pc'[x] = "executing" /\ o.verdict # "valid"
    <3>1. Open(x)' = Left(x)'
      BY <2>2 DEF Open, Unsettled
    <3> QED
      BY <1>6, <1>7, <2>1, <2>2, <3>1
  <2>3. CASE pc'[x] = "storing" /\ job'[x].todo = o.group
    <3>1. Open(x)' = Left(x)' \cup o.group
      BY <2>3 DEF Open, Unsettled
    <3> QED
      BY <1>6, <2>1, <3>1
  <2> QED
    BY <1>3, <2>2, <2>3 DEF Moved
<1> QED
  BY <1>2, <1>3, <1>4, <1>8 DEF Advances, Unmoved

LEMMA PutAdvances ==
  ASSUME IInv, NEW x \in Appliers, PutDocumentSource(x)
  PROVE  Advances(x) /\ vectors' = vectors
<1>1. PICK i \in job[x].todo : job' = [job EXCEPT ![x].current = i]
  BY DEF PutDocumentSource
<1>2. /\ Moved(x, {"storing"}, {"publishing"}) /\ Moved(x, Running, Running)
      /\ UNCHANGED <<approved, meta, segments, runs, vectors>>
  BY GotoEffect DEF PutDocumentSource, IInv, Steps, Moved, Running, Unchecked, Outside, ledger,
                    catalogVars
<1>3. /\ SameGroups(x) /\ job'[x].todo = job[x].todo
      /\ job'[x].run = job[x].run /\ SameCounts(x) /\ job'[x].error = job[x].error
  BY <1>1 DEF IInv, Shape, JobFields, SameGroups, SameCounts
<1>4. Open(x)' = Open(x)
  BY <1>2, <1>3 DEF Open, Unsettled, Left, LeftOf, Unsent, Failed, SameGroups, Moved
<1> QED
  BY <1>2, <1>3, <1>4 DEF Advances, Unmoved, Moved

LEMMA AllReceivedAdvances ==
  ASSUME IInv, NEW x \in Appliers, AllReceived(x)
  PROVE  Advances(x) /\ vectors' = vectors
<1> DEFINE failed == Failed(job[x].outcomes)
<1>1. job' = [job EXCEPT ![x].todo = failed]
  BY DEF AllReceived
<1>2. /\ Moved(x, {"executing"}, {"recording"}) /\ Moved(x, Running, Running)
      /\ UNCHANGED <<approved, meta, segments, runs, vectors>>
      /\ job[x].queue = {} /\ job[x].flying = {} /\ job[x].arrived = {}
  BY GotoEffect DEF AllReceived, IInv, Steps, Moved, Running, Unchecked, Outside, ledger,
                    catalogVars
<1>3. Open(x) = failed
  BY <1>2 DEF Open, Unsettled, Left, LeftOf, Unsent, Moved
<1> HIDE DEF failed
<1>4. /\ job'[x].todo = failed
      /\ job'[x].run = job[x].run /\ SameCounts(x) /\ job'[x].error = job[x].error
  BY <1>1 DEF IInv, Shape, JobFields, SameCounts
<1>5. Open(x)' = Open(x)
  BY <1>2, <1>3, <1>4 DEF Open, Moved
<1> QED
  BY <1>2, <1>4, <1>5 DEF Advances, Unmoved, Moved

LEMMA AllRecordedAdvances ==
  ASSUME IInv, NEW x \in Appliers, AllRecorded(x)
  PROVE  Advances(x) /\ vectors' = vectors
<1>1. /\ Moved(x, {"recording"}, {"finishing"}) /\ Moved(x, Running, Running)
      /\ UNCHANGED <<job, approved, meta, segments, runs, vectors>> /\ job[x].todo = {}
  BY GotoEffect DEF AllRecorded, IInv, Steps, Moved, Running, Unchecked, Outside, ledger,
                    catalogVars
<1>2. Open(x)' = Open(x)
  BY <1>1 DEF Open, Moved
<1> QED
  BY <1>1, <1>2 DEF Advances, Unmoved, Moved, SameCounts

-----------------------------------------------------------------------------
(* Steps that end the work with an error.                                  *)
LEMMA ErrorAdvances ==
  ASSUME IInv, NEW x \in Appliers, SourceInputFails(x) \/ HandlerFails(x) \/ Cancel(x)
  PROVE  Advances(x) /\ vectors' = vectors
<1>1. PICK e \in {"error", "cancelled"} : job' = [job EXCEPT ![x].error = e]
  BY DEF SourceInputFails, HandlerFails, Cancel, BankRefuses, WriteFails
<1>2. /\ Moved(x, Running, {"draining", "aborting", "finishing"}) /\ Moved(x, Running, Running)
      /\ UNCHANGED <<approved, meta, segments, runs, vectors>>
      /\ pc[x] \notin {"recording", "finishing"}
  BY GotoEffect DEF SourceInputFails, HandlerFails, Cancel, IInv, Steps, Moved, Running,
                    Unchecked, Outside, ledger, catalogVars
<1>3. /\ SameGroups(x) /\ job'[x].todo = job[x].todo
      /\ job'[x].run = job[x].run /\ SameCounts(x) /\ job'[x].error # "none"
  BY <1>1 DEF IInv, Shape, JobFields, SameGroups, SameCounts
<1>4. Left(x)' = Left(x)
  BY <1>3 DEF Left, LeftOf, Unsent, Failed, SameGroups
<1>5. Open(x)' \subseteq Open(x)
  BY <1>2, <1>4 DEF Open, Unsettled, Moved
<1> QED
  BY <1>2, <1>3, <1>5 DEF Advances, GivesUp

LEMMA StopAdvances ==
  ASSUME IInv, NEW x \in Appliers, Counted(x), StopAndDrain(x)
  PROVE  Advances(x) /\ vectors' = vectors
<1> DEFINE Dropped(g) == [group |-> g, verdict |-> "cancelled", raw |-> << >>]
           all == job[x].outcomes \cup job[x].arrived \cup { Dropped(g) : g \in job[x].flying }
<1>1. job' = [job EXCEPT ![x].outcomes = all, ![x].arrived = {}, ![x].flying = {},
                         ![x].todo = Failed(all)]
  BY DEF StopAndDrain
<1>2. \A o \in all : \/ o \in job[x].outcomes
                     \/ o \in job[x].arrived
                     \/ o.group \in job[x].flying
  OBVIOUS
<1> HIDE DEF all, Dropped
<1>3. /\ Moved(x, {"draining", "aborting"}, {"recording", "finishing"})
      /\ Moved(x, Running, Running)
      /\ UNCHANGED <<approved, meta, segments, runs, vectors>>
  BY GotoEffect DEF StopAndDrain, IInv, Steps, Moved, Running, Unchecked, Outside, ledger,
                    catalogVars
<1>4. job[x].error # "none"
  BY <1>3 DEF Counted, Moved
<1>5. /\ job'[x].todo = Failed(all)
      /\ job'[x].run = job[x].run /\ SameCounts(x) /\ job'[x].error = job[x].error
  BY <1>1 DEF IInv, Shape, JobFields, SameCounts
<1>6. Failed(all) \subseteq Left(x)
  <2>1. \A i \in Failed(all) : \E o \in all : o.verdict # "valid" /\ i \in o.group
    BY DEF Failed
  <2>2. \A i \in Failed(all) : i \in Left(x)
    BY <1>2, <2>1, MembersLeft DEF Left, Unsent
  <2> QED
    BY <2>2
<1>7. Open(x) = Left(x)
  BY <1>3 DEF Open, Unsettled, Moved
<1>8. Open(x)' \subseteq Open(x)
  BY <1>3, <1>5, <1>6, <1>7 DEF Open, Moved
<1> QED
  BY <1>3, <1>4, <1>5, <1>8 DEF Advances, GivesUp

-----------------------------------------------------------------------------
(* Steps that count an input.                                              *)
LEMMA PublishReady ==
  ASSUME NEW x \in Appliers, NEW input, NEW raw, PublishEmbeddedVector(x, input, raw),
         UNCHANGED approved
  PROVE  Grows /\ Ready(input, approved[x].storage)'
<1> DEFINE new == [serving |-> approved[x].storage, source |-> approved[x].source,
                   input |-> input, raw |-> raw]
           old == { v \in vectors : ~(v.serving = approved[x].storage /\ v.input = input) }
<1>1. vectors' = old \cup {new}
  BY DEF PublishEmbeddedVector
<1>2. \A v \in vectors : v \in old \/ (v.serving = approved[x].storage /\ v.input = input)
  OBVIOUS
<1>3. new.serving = approved[x].storage /\ new.input = input
  OBVIOUS
<1> HIDE DEF new, old
<1>4. \E v \in vectors' : v.serving = approved[x].storage /\ v.input = input
  BY <1>1, <1>3
<1>5. ASSUME NEW i, NEW s, NEW v \in vectors, v.serving = s, v.input = i
      PROVE  \E w \in vectors' : w.serving = s /\ w.input = i
  BY <1>1, <1>2, <1>3, <1>5
<1>6. Grows
  BY <1>5 DEF Grows, Ready
<1>7. Ready(input, approved[x].storage)'
  BY <1>4 DEF Ready
<1> QED
  BY <1>6, <1>7

SettlesOne(x, input) ==
  /\ Grows /\ SameGroups(x) /\ job'[x].todo = job[x].todo \ {input}
  /\ job'[x].run = job[x].run /\ job'[x].error = job[x].error
  /\ \/ /\ job'[x].succeeded = job[x].succeeded + 1 /\ job'[x].failed = job[x].failed
        /\ Ready(input, approved[x].storage)'
     \/ job'[x].succeeded = job[x].succeeded /\ job'[x].failed = job[x].failed + 1

LEMMA SettleSettles ==
  ASSUME IInv, NEW x \in Appliers, pc[x] \in Running, NEW input \in Unsettled(x), NEW raw,
         Settle(x, input, raw), UNCHANGED approved
  PROVE  SettlesOne(x, input)
<1>1. CASE /\ PublishEmbeddedVector(x, input, raw)
           /\ job' = [job EXCEPT ![x].succeeded = @ + 1, ![x].todo = @ \ {input}]
  <2>1. /\ SameGroups(x) /\ job'[x].todo = job[x].todo \ {input}
        /\ job'[x].run = job[x].run /\ job'[x].error = job[x].error
        /\ job'[x].succeeded = job[x].succeeded + 1 /\ job'[x].failed = job[x].failed
    BY <1>1 DEF IInv, Shape, JobFields, SameGroups
  <2> QED
    BY <1>1, <2>1, PublishReady DEF SettlesOne
<1>2. CASE /\ RecordCurrentEmbeddingFailure(x, input, "terminal")
           /\ job' = [job EXCEPT ![x].failed = @ + 1, ![x].todo = @ \ {input}]
  <2>1. /\ SameGroups(x) /\ job'[x].todo = job[x].todo \ {input}
        /\ job'[x].run = job[x].run /\ job'[x].error = job[x].error
        /\ job'[x].succeeded = job[x].succeeded /\ job'[x].failed = job[x].failed + 1
    BY <1>2 DEF IInv, Shape, JobFields, SameGroups
  <2>2. Grows
    BY <1>2, UnwrittenGrows DEF RecordCurrentEmbeddingFailure
  <2> QED
    BY <2>1, <2>2 DEF SettlesOne
<1> QED
  BY <1>1, <1>2, StillWanted DEF Settle

LEMMA PublishSourceAdvances ==
  ASSUME IInv, NEW x \in Appliers, PublishSourceInput(x)
  PROVE  Advances(x) /\ Grows
<1>1. PICK i \in job[x].todo : \E raw : Settle(x, i, raw)
  BY DEF PublishSourceInput
<1>2. PICK raw : Settle(x, i, raw)
  BY <1>1
<1>3. pc[x] = "sourcing" /\ UNCHANGED <<pc, approved, meta, segments, runs>>
  BY DEF PublishSourceInput, catalogVars
<1>4. i \in Unsettled(x) /\ Moved(x, Running, Running)
  BY <1>3 DEF Unsettled, Moved, Running, Steps, Unchecked, Outside, IInv, Shape
<1>5. SettlesOne(x, i)
  BY <1>2, <1>3, <1>4, SettleSettles DEF Moved
<1>6. StillCurrent(x)
  BY <1>2 DEF Settle, PublishEmbeddedVector, RecordCurrentEmbeddingFailure, Current, StillCurrent
<1>7. job[x].todo \cap approved[x].fromProvider = {}
  BY <1>3, <1>6 DEF IInv, Buying, Worth, Unchecked, Outside
<1>8. Left(x) = {} /\ Left(x)' = {}
  BY <1>3, <1>5 DEF IInv, Keeping, NoGroups, Before, Left, LeftOf, Unsent, Failed, SettlesOne,
                    SameGroups
<1>9. /\ Open(x) = job[x].todo \cup approved[x].fromProvider
      /\ Open(x)' = (job[x].todo \ {i}) \cup approved[x].fromProvider
  BY <1>3, <1>5, <1>8 DEF Open, Unsettled, SettlesOne
<1>10. i \in Open(x) /\ Open(x)' = Open(x) \ {i}
  BY <1>7, <1>9
<1>11. Counts(x, i)
  BY <1>3, <1>5, <1>10 DEF Counts, SettlesOne
<1> QED
  BY <1>3, <1>4, <1>5, <1>10, <1>11 DEF Advances, SettlesOne

LEMMA PublishAnswerAdvances ==
  ASSUME IInv, NEW x \in Appliers, PublishAnswer(x)
  PROVE  Advances(x) /\ Grows
<1> DEFINE raw == job[x].answer.raw[job[x].current]
           i == job[x].current
<1>1. /\ pc[x] = "publishing" /\ Settle(x, i, raw)
      /\ UNCHANGED <<approved, meta, segments, runs>>
  BY DEF PublishAnswer, catalogVars
<1>2. /\ Moved(x, {"publishing"}, {"executing", "storing"}) /\ Moved(x, Running, Running)
      /\ pc'[x] = "executing" => job'[x].todo = {}
  BY <1>1, GotoEffect DEF PublishAnswer, IInv, Steps, Moved, Running, Unchecked, Outside
<1>3. /\ i \in job[x].todo /\ i \in job[x].answer.group
      /\ job[x].answer \in job[x].outcomes /\ job[x].answer.verdict = "valid"
  BY <1>1 DEF IInv, Keeping, Stored, Storing
<1>4. i \in Unsettled(x) /\ pc[x] \in Running
  BY <1>1, <1>3 DEF Unsettled, Running, Steps, Unchecked, Outside
<1> HIDE DEF raw, i
<1>5. SettlesOne(x, i)
  BY <1>1, <1>4, SettleSettles
<1>6. Left(x)' = Left(x)
  BY <1>5 DEF SettlesOne, SameGroups, Left, LeftOf, Unsent, Failed
<1>7. i \notin Left(x)
  <2>1. \A g \in Unsent(x) : i \notin g
    BY <1>3 DEF IInv, Keeping, Disjoint, Answered
  <2>2. \A o \in job[x].arrived : i \notin o.group
    BY <1>3 DEF IInv, Keeping, Disjoint, Answered
  <2>3. \A o \in job[x].outcomes : o.verdict # "valid" => i \notin o.group
    BY <1>3 DEF IInv, Keeping, Disjoint, Answered
  <2> QED
    BY <2>1, <2>2, <2>3, MembersLeft DEF Left
<1>8. Open(x) = Left(x) \cup job[x].todo
  BY <1>1 DEF Open, Unsettled
<1>9. Open(x)' = Left(x) \cup (job[x].todo \ {i})
  BY <1>2, <1>5, <1>6 DEF Open, Unsettled, Moved, SettlesOne
<1>10. i \in Open(x) /\ Open(x)' = Open(x) \ {i}
  BY <1>3, <1>7, <1>8, <1>9
<1>11. Counts(x, i)
  BY <1>2, <1>5, <1>10 DEF Counts, SettlesOne, Moved
<1> QED
  BY <1>1, <1>2, <1>5, <1>10, <1>11 DEF Advances, SettlesOne

LEMMA RecordAdvances ==
  ASSUME IInv, NEW x \in Appliers, RecordFailure(x)
  PROVE  Advances(x) /\ vectors' = vectors
<1>1. PICK i \in job[x].todo :
        \/ /\ RecordCurrentEmbeddingFailure(x, i, Class(x, i))
           /\ job' = [job EXCEPT ![x].failed = @ + 1, ![x].todo = @ \ {i}]
        \/ Current(x) /\ (~Active(x, i) \/ Ready(i, approved[x].storage))
        \/ /\ job' = [job EXCEPT ![x].todo = @ \ {i},
                                 ![x].error = IF @ = "none" THEN "error" ELSE @]
           /\ UNCHANGED <<vectors, failures>>
  BY DEF RecordFailure
<1>2. pc[x] = "recording" /\ UNCHANGED <<pc, approved, meta, segments, runs>>
  BY DEF RecordFailure, catalogVars
<1>3. i \in Unsettled(x) /\ Moved(x, Running, Running)
  BY <1>2 DEF Unsettled, Moved, Running, Steps, Unchecked, Outside, IInv, Shape
<1>4. i \in Open(x) /\ Open(x) = job[x].todo /\ Open(x)' = job'[x].todo
  BY <1>2 DEF Open
<1>5. CASE /\ RecordCurrentEmbeddingFailure(x, i, Class(x, i))
           /\ job' = [job EXCEPT ![x].failed = @ + 1, ![x].todo = @ \ {i}]
  <2>1. /\ job'[x].todo = job[x].todo \ {i}
        /\ job'[x].run = job[x].run /\ job'[x].error = job[x].error
        /\ job'[x].succeeded = job[x].succeeded /\ job'[x].failed = job[x].failed + 1
    BY <1>5 DEF IInv, Shape, JobFields
  <2>2. vectors' = vectors
    BY <1>5 DEF RecordCurrentEmbeddingFailure
  <2>3. Counts(x, i)
    BY <1>2, <1>4, <2>1 DEF Counts
  <2> QED
    BY <1>2, <1>3, <1>4, <2>1, <2>2, <2>3 DEF Advances
<1>6. CASE /\ job' = [job EXCEPT ![x].todo = @ \ {i},
                                 ![x].error = IF @ = "none" THEN "error" ELSE @]
           /\ UNCHANGED <<vectors, failures>>
  <2> DEFINE e == IF job[x].error = "none" THEN "error" ELSE job[x].error
  <2>1. job' = [job EXCEPT ![x].todo = @ \ {i}, ![x].error = e] /\ e # "none"
    BY <1>6
  <2> HIDE DEF e
  <2>2. /\ job'[x].todo = job[x].todo \ {i}
        /\ job'[x].run = job[x].run /\ SameCounts(x) /\ job'[x].error = e
    BY <2>1 DEF IInv, Shape, JobFields, SameCounts
  <2>3. GivesUp(x)
    BY <1>4, <2>1, <2>2 DEF GivesUp
  <2> QED
    BY <1>2, <1>3, <1>6, <2>2, <2>3 DEF Advances
<1> QED
  BY <1>1, <1>3, <1>5, <1>6, StillWanted DEF Moved

-----------------------------------------------------------------------------
LEMMA RunRecords ==
  ASSUME IInv, LedgerInv, NEW x \in Appliers,
         \/ BeginExecute(x) \/ SendGroup(x) \/ Answer(x) \/ Collect(x) \/ PutDocumentSource(x)
         \/ AllReceived(x) \/ AllRecorded(x) \/ SourceInputFails(x) \/ HandlerFails(x)
         \/ Cancel(x) \/ StopAndDrain(x) \/ PublishSourceInput(x) \/ PublishAnswer(x)
         \/ RecordFailure(x)
  PROVE  LedgerInv'
<1>1. Kept(x)
  BY BeginStep, SendStep, AnswerStep, CollectStep, PutStep, AllReceivedStep, AllRecordedStep,
     SourceFailsStep, HandlerFailsStep, CancelStep, StopStep, PublishSourceStep,
     PublishAnswerStep, RecordStep
<1>2. Counted(x)
  BY DEF LedgerInv, Recorded
<1>3. Advances(x) /\ Grows
  BY <1>2, BeginAdvances, SendAdvances, AnswerAdvances, CollectAdvances, PutAdvances,
     AllReceivedAdvances, AllRecordedAdvances, ErrorAdvances, StopAdvances,
     PublishSourceAdvances, PublishAnswerAdvances, RecordAdvances, UnwrittenGrows
<1> QED
  BY <1>1, <1>3, AdvanceKeeps

(* A new generation: no row and no plan is of it.                          *)
LEMMA ReindexRecords ==
  ASSUME IInv, LedgerInv, Reindex
  PROVE  LedgerInv'
<1>1. /\ UNCHANGED <<vectors, failures, runs, pc, approved, job>>
      /\ meta'.generation = meta.generation + 1 /\ meta.generation \in Nat
  BY DEF Reindex, Install, InstallAs, ledger, IInv, Shape
<1>2. IsFiniteSet(segments')
  <2>1. PICK cfg \in Desired : \E table \in Indexable(cfg) : InstallAs(cfg, table)
    BY DEF Reindex, Install
  <2>2. PICK table \in Indexable(cfg) : InstallAs(cfg, table)
    BY <2>1
  <2>3. cfg \in Configs /\ table \in FileTables /\ segments' = Rebuilt(table, cfg)
    BY <2>2 DEF Desired, Indexable, InstallAs
  <2> QED
    BY <2>3, FiniteRows
<1>3. ASSUME NEW x \in Appliers PROVE Recorded(x)'
  <2>1. Recorded(x) /\ Recent(x)
    BY DEF LedgerInv, IInv, Buying
  <2>2. Open(x)' = Open(x)
    BY <1>1 DEF Open, Unsettled, Left, LeftOf, Unsent, Failed
  <2>3. Untouched(x)' /\ OwnRow(x)'
    BY <1>1, <2>1 DEF Recorded, Untouched, OwnRow
  <2>4. Counted(x)'
    BY <1>1, <2>1, <2>2 DEF Recorded, Counted, Payable
  <2>5. pc'[x] \in Running => ~StillCurrent(x)'
    BY <1>1, <2>1 DEF Recent, StillCurrent, Running
  <2> QED
    BY <2>3, <2>4, <2>5 DEF Recorded, Covering
<1>4. PICK S : runs \in Seq(S)
  BY DEF LedgerInv
<1>5. \A k \in 1..Len(runs) : runs[k].generation \in Nat /\ runs[k].generation <= meta.generation
  BY DEF LedgerInv
<1>6. SucceededCovers'
  <2>1. \A r \in Range(runs) : r.generation # meta'.generation
    BY <1>1, <1>4, <1>5, RowOf
  <2> QED
    BY <1>1, <2>1 DEF SucceededCovers
<1> QED
  BY <1>1, <1>2, <1>3, <1>4, <1>5, <1>6 DEF LedgerInv

LEMMA StutterRecords ==
  ASSUME LedgerInv, UNCHANGED embedVars
  PROVE  LedgerInv'
<1>1. UNCHANGED <<meta, segments, vectors, failures, runs, pc, approved, job>>
  BY DEF embedVars, catalogVars, ledger
<1>2. ASSUME NEW x \in Appliers PROVE Recorded(x)'
  <2>1. Recorded(x)
    BY DEF LedgerInv
  <2>2. Open(x)' = Open(x)
    BY <1>1 DEF Open, Unsettled, Left, LeftOf, Unsent, Failed
  <2>3. Untouched(x)' /\ OwnRow(x)'
    BY <1>1, <2>1 DEF Recorded, Untouched, OwnRow
  <2>4. Counted(x)'
    BY <1>1, <2>1, <2>2 DEF Recorded, Counted, Payable
  <2>5. Covering(x)'
    BY <1>1, <2>1, <2>2 DEF Recorded, Covering, StillCurrent, Ready
  <2> QED
    BY <2>3, <2>4, <2>5 DEF Recorded
<1>3. SucceededCovers'
  BY <1>1, CoversKeeps, UnwrittenGrows DEF LedgerInv
<1> QED
  BY <1>1, <1>2, <1>3 DEF LedgerInv

LEMMA LedgerInitially ==
  ASSUME EmbedInit
  PROVE  LedgerInv
<1>1. runs = << >>
  BY DEF EmbedInit
<1>2. IsFiniteSet(segments)
  <2>1. CASE segments = {}
    BY <2>1, FS_EmptySet
  <2>2. ASSUME NEW c \in Retired, NEW table \in Indexable(c), segments = Rebuilt(table, c)
        PROVE  IsFiniteSet(segments)
    BY <2>2, FiniteRows, ConfigsAssumption DEF Indexable
  <2> QED
    BY <2>1, <2>2 DEF EmbedInit, CatalogInit
<1>3. ASSUME NEW x \in Appliers PROVE Recorded(x)
  <2>1. pc[x] = "idle" /\ job[x] = NoJob
    BY DEF EmbedInit
  <2> QED
    BY <2>1 DEF Recorded, Untouched, OwnRow, Counted, Covering, Running, Unchecked, Outside
<1>4. runs \in Seq({}) /\ Len(runs) = 0 /\ Range(runs) = {}
  <2>1. << >> \in Seq({}) /\ Len(<< >>) = 0
    OBVIOUS
  <2>2. Range(<< >>) = { (<< >>)[k] : k \in 1..Len(<< >>) }
    BY <2>1, RowOf, Zenon
  <2>3. 1..Len(<< >>) = {}
    BY <2>1
  <2>4. Range(<< >>) = {}
    BY <2>2, <2>3
  <2> QED
    BY <1>1, <2>1, <2>4
<1>5. SucceededCovers
  BY <1>4 DEF SucceededCovers
<1> QED
  BY <1>2, <1>3, <1>4, <1>5 DEF LedgerInv

LEMMA LedgerInductive ==
  ASSUME IInv, LedgerInv, [EmbedNext]_embedVars
  PROVE  LedgerInv'
<1>1. CASE Reindex
  BY <1>1, ReindexRecords
<1>2. CASE Rest \/ UNCHANGED embedVars
  BY <1>2, StutterRecords DEF Rest
<1>3. ASSUME NEW x \in Appliers,
             Approve(x) \/ AcquireState(x) \/ Proceed(x) \/ Cancel(x) \/ Abandon(x) \/ Crash(x)
      PROVE  LedgerInv'
  <2>1. CASE \/ Approve(x) \/ AcquireState(x) \/ CheckPlan(x) \/ ReturnStale(x) \/ Abandon(x)
             \/ Crash(x)
    BY <2>1, PrologueRecords
  <2>2. CASE StartEmbeddingRun(x) \/ FinishEmbeddingRun(x)
    BY <2>2, StartRecords, FinishRecords
  <2>3. CASE \/ BeginExecute(x) \/ SendGroup(x) \/ Answer(x) \/ Collect(x)
             \/ PutDocumentSource(x) \/ AllReceived(x) \/ AllRecorded(x) \/ SourceInputFails(x)
             \/ HandlerFails(x) \/ Cancel(x) \/ StopAndDrain(x) \/ PublishSourceInput(x)
             \/ PublishAnswer(x) \/ RecordFailure(x)
    BY <2>3, RunRecords
  <2> QED
    BY <1>3, <2>1, <2>2, <2>3 DEF Proceed
<1> QED
  BY <1>1, <1>2, <1>3 DEF EmbedNext

(* The ledger never refuses what a run reports, and a success it holds is  *)
(* true while its generation is active: each input of the plan is counted  *)
(* once, on every path through failures, refusals and cancellation, and    *)
(* nothing takes the vector of an active input away.                       *)
THEOREM LedgerIsTrue == EmbedSpec => []RunRecordTrue
<1>1. EmbedInit => LedgerInv
  BY LedgerInitially
<1>2. IInv /\ LedgerInv /\ [EmbedNext]_embedVars => LedgerInv'
  BY LedgerInductive
<1>3. ASSUME IInv, LedgerInv PROVE RunRecordTrue
  <2>1. FinishAccepted
    BY <1>3, FinishAllowedAlways DEF FinishAccepted, LedgerInv
  <2> QED
    BY <1>3, <2>1 DEF LedgerInv, RunRecordTrue
<1> QED
  BY <1>1, <1>2, <1>3, Invariance, PTL DEF EmbedSpec
=============================================================================
