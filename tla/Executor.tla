------------------------------ MODULE Executor ------------------------------
(***************************************************************************)
(* embed.Execute: one loop that hands request groups to a pool of workers  *)
(* over an unbuffered channel, receives their outcomes over a channel that *)
(* has room for all of them, runs the success handler serially, and on the *)
(* first handler error or on cancellation stops and drains.                *)
(*                                                                         *)
(* Workers share execCtx; the caller's ctx may be cancelled at any moment. *)
(* A worker sees the cancellation only when it looks: after a provider     *)
(* call and while waiting to retry.                                        *)
(***************************************************************************)
EXTENDS Integers, Sequences, FiniteSets, SequencesExt

CONSTANTS
  NumGroups,    \* request groups, handed out in order 1..NumGroups
  Workers,      \* the pool: min(MaxConcurrency, NumGroups) goroutines
  MaxRetries,   \* retries after a first attempt
  NoGroup       \* a worker that waits for a job

ASSUME ExecutorAssumption ==
  /\ NumGroups \in Nat \ {0}
  /\ IsFiniteSet(Workers) /\ Workers # {} /\ Cardinality(Workers) <= NumGroups
  /\ MaxRetries \in Nat
  /\ NoGroup \notin 1..NumGroups

VARIABLES
  loop,       \* "select", "handling", "stopping", "closing", "returned"
  next,       \* groups handed out
  collected,  \* sequence of received outcomes
  result,     \* "none", "ok", "handler", "cancelled"
  cancelled,  \* the caller's ctx
  execDone,   \* execCtx is cancelled
  closed,     \* the jobs channel is closed
  worker,     \* worker -> [step, group, attempts]
  completed,  \* the completed channel
  handled,    \* history: groups the handler accepted
  calls       \* history: provider calls made for each group

vars == <<loop, next, collected, result, cancelled, execDone, closed, worker,
          completed, handled, calls>>

Groups == 1..NumGroups
Resting == [step |-> "waiting", group |-> NoGroup, attempts |-> 0]

Init ==
  /\ loop = "select" /\ next = 0 /\ collected = << >> /\ result = "none"
  /\ cancelled = FALSE /\ execDone = FALSE /\ closed = FALSE
  /\ worker = [w \in Workers |-> Resting]
  /\ completed = << >>
  /\ handled = {} /\ calls = [g \in Groups |-> 0]

Done(w) == worker[w].step = "exited"

-----------------------------------------------------------------------------
(* The workers: executeGroup.                                              *)

(* The completed channel is made with room for every group.                *)
OneSlot == 1  \* a bug: room for one outcome

Capacity == NumGroups

(* A send parks the worker until there is room, or a receiver for it.      *)
Finish(w, verdict) ==
  worker' = [worker EXCEPT ![w].step = verdict]

(* A bug this project can tell: one retry too many.                         *)
AttemptOneMore(w) ==
  /\ worker[w].step = "calling"
  /\ calls' = [calls EXCEPT ![worker[w].group] = @ + 1]
  /\ IF execDone THEN Finish(w, "cancelled")
     ELSE \/ Finish(w, "valid")
          \/ IF worker[w].attempts > MaxRetries + 1 THEN Finish(w, "transient")
             ELSE worker' = [worker EXCEPT ![w].step = "backoff"]
  /\ UNCHANGED <<loop, next, collected, result, cancelled, execDone, closed, completed, handled>>

(* One attempt.  An answer that comes after execCtx is done is dropped.    *)
Attempt(w) ==
  /\ worker[w].step = "calling"
  /\ calls' = [calls EXCEPT ![worker[w].group] = @ + 1]
  /\ IF execDone THEN Finish(w, "cancelled")
     ELSE \/ Finish(w, "valid") \/ Finish(w, "rejected") \/ Finish(w, "permanent")
          \/ IF worker[w].attempts = MaxRetries + 1 THEN Finish(w, "transient")
             ELSE worker' = [worker EXCEPT ![w].step = "backoff"]
  /\ UNCHANGED <<loop, next, collected, result, cancelled, execDone, closed, completed, handled>>

(* The wait before a retry ends early when execCtx is done.                *)
Retry(w) ==
  /\ worker[w].step = "backoff"
  /\ \/ worker' = [worker EXCEPT ![w].step = "calling", ![w].attempts = @ + 1]
     \/ execDone /\ Finish(w, "cancelled")
  /\ UNCHANGED <<loop, next, collected, result, cancelled, execDone, closed, completed,
                 handled, calls>>

Verdicts == {"valid", "rejected", "permanent", "transient", "cancelled"}

Outcome(w) == [group |-> worker[w].group, verdict |-> worker[w].step,
               attempts |-> worker[w].attempts]

(* A bug this project can tell: a cancelled worker leaves without outcome. *)
DeliverUnlessDone(w) ==
  /\ worker[w].step \in Verdicts
  /\ completed' = IF execDone THEN completed ELSE Append(completed, Outcome(w))
  /\ worker' = [worker EXCEPT ![w] = Resting]
  /\ UNCHANGED <<loop, next, collected, result, cancelled, execDone, closed, handled, calls>>

Deliver(w) ==
  /\ worker[w].step \in Verdicts
  /\ Len(completed) < Capacity
  /\ completed' = Append(completed, Outcome(w))
  /\ worker' = [worker EXCEPT ![w] = Resting]
  /\ UNCHANGED <<loop, next, collected, result, cancelled, execDone, closed, handled, calls>>

(* range over a closed channel ends.                                       *)
Exit(w) ==
  /\ worker[w].step = "waiting"
  /\ closed
  /\ worker' = [worker EXCEPT ![w].step = "exited"]
  /\ UNCHANGED <<loop, next, collected, result, cancelled, execDone, closed, completed,
                 handled, calls>>

Work(w) == Attempt(w) \/ Retry(w) \/ Deliver(w) \/ Exit(w)

-----------------------------------------------------------------------------
(* The loop: any ready case of the select may be taken.                    *)

(* A bug this project can tell: the loop goes on while the handler runs.   *)
SelectingMeanwhile == loop \in {"select", "handling"} /\ Len(collected) < NumGroups

Selecting == loop = "select" /\ Len(collected) < NumGroups

Send(w) ==
  /\ Selecting
  /\ next < NumGroups
  /\ worker[w].step = "waiting"
  /\ next' = next + 1
  /\ worker' = [worker EXCEPT ![w] = [step |-> "calling", group |-> next + 1, attempts |-> 1]]
  /\ UNCHANGED <<loop, collected, result, cancelled, execDone, closed, completed, handled, calls>>

Receive ==
  /\ Selecting
  /\ completed # << >>
  /\ collected' = Append(collected, Head(completed))
  /\ completed' = Tail(completed)
  /\ loop' = IF Head(completed).verdict = "valid" THEN "handling" ELSE loop
  /\ UNCHANGED <<next, result, cancelled, execDone, closed, worker, handled, calls>>

(* onSuccess runs in the loop; workers go on meanwhile.  It may fail for a *)
(* reason of its own or because its context, execCtx, is done.             *)
Handle ==
  /\ loop = "handling"
  /\ handled' = handled \cup {Last(collected).group}
  /\ loop' = "select"
  /\ UNCHANGED <<next, collected, result, cancelled, execDone, closed, worker, completed, calls>>

HandlerFails ==
  /\ loop = "handling"
  /\ result' = "handler"
  /\ loop' = "stopping"
  /\ execDone' = TRUE
  /\ closed' = TRUE
  /\ UNCHANGED <<next, collected, cancelled, worker, completed, handled, calls>>

SeeCancel ==
  /\ Selecting
  /\ cancelled
  /\ result' = "cancelled"
  /\ loop' = "stopping"
  /\ execDone' = TRUE
  /\ closed' = TRUE
  /\ UNCHANGED <<next, collected, cancelled, worker, completed, handled, calls>>

(* A bug this project can tell: return without waiting for the workers.    *)
DrainAtOnce ==
  /\ loop = "stopping"
  /\ collected' = collected \o completed
  /\ completed' = << >>
  /\ loop' = "returned"
  /\ UNCHANGED <<next, result, cancelled, execDone, closed, worker, handled, calls>>

(* stopAndDrain, after cancel() and close(jobs): wait for the workers,     *)
(* then take what they completed.                                          *)
Drain ==
  /\ loop = "stopping"
  /\ \A w \in Workers : Done(w)
  /\ collected' = collected \o completed
  /\ completed' = << >>
  /\ loop' = "returned"
  /\ UNCHANGED <<next, result, cancelled, execDone, closed, worker, handled, calls>>

AllReceived ==
  /\ loop = "select"
  /\ Len(collected) = NumGroups
  /\ closed' = TRUE
  /\ loop' = "closing"
  /\ UNCHANGED <<next, collected, result, cancelled, execDone, worker, completed, handled, calls>>

ReturnAll ==
  /\ loop = "closing"
  /\ \A w \in Workers : Done(w)
  /\ result' = IF cancelled THEN "cancelled" ELSE "ok"
  /\ execDone' = TRUE
  /\ loop' = "returned"
  /\ UNCHANGED <<next, collected, cancelled, closed, worker, completed, handled, calls>>

Loop ==
  \/ \E w \in Workers : Send(w)
  \/ Receive \/ Handle \/ HandlerFails \/ SeeCancel \/ Drain \/ AllReceived \/ ReturnAll

(* The caller cancels ctx; execCtx is derived from it.                     *)
CancelContext ==
  /\ ~cancelled
  /\ cancelled' = TRUE
  /\ execDone' = TRUE
  /\ UNCHANGED <<loop, next, collected, result, closed, worker, completed, handled, calls>>

Returned == loop = "returned" /\ UNCHANGED vars

Next == Loop \/ (\E w \in Workers : Work(w)) \/ CancelContext \/ Returned

(* Goroutines that can run are scheduled; each attempt ends by its timeout.*)
Spec == Init /\ [][Next]_vars /\ WF_vars(Loop) /\ \A w \in Workers : WF_vars(Work(w))

-----------------------------------------------------------------------------
(***************************************************************************)
(* What the loop, the pool and the two channels are to the caller: a group *)
(* is at the provider while a worker calls or waits to retry, and is back  *)
(* once its worker holds an outcome, sent on the channel or not yet.       *)
(***************************************************************************)
Flying == {worker[w].group : w \in {v \in Workers : worker[v].step \in {"calling", "backoff"}}}
Arrived == ToSet(completed) \cup {Outcome(w) : w \in {v \in Workers : worker[v].step \in Verdicts}}

E == INSTANCE Execution WITH
       Concurrency <- Cardinality(Workers), Attempts <- 1..MaxRetries + 1,
       queue <- next + 1..NumGroups, flying <- Flying, arrived <- Arrived,
       outcomes <- ToSet(collected),
       handling <- IF loop = "handling" THEN {Last(collected).group} ELSE {},
       returned <- loop = "returned"

(***************************************************************************)
(* Every behaviour of Execute is one a caller may rely on: at most one     *)
(* success handler at a time and for valid outcomes only, nothing sent     *)
(* after a stop, and no return before every group sent is accounted for.   *)
(***************************************************************************)
Implements == E!Spec

-----------------------------------------------------------------------------
Busy == { w \in Workers : worker[w].group # NoGroup }

(***************************************************************************)
(* No group is lost and none is reported twice: each group handed out is   *)
(* with exactly one worker, in the channel, or collected.                  *)
(***************************************************************************)
EachGroupOnce ==
  LET groups == [i \in 1..Len(completed \o collected) |-> (completed \o collected)[i].group]
  IN /\ ToSet(groups) \cup {worker[w].group : w \in Busy} = 1..next
     /\ Len(groups) + Cardinality(Busy) = next

(***************************************************************************)
(* When Execute returns, every group it sent has its outcome, no provider  *)
(* call is running or can still be made, and a clean return has answered   *)
(* for all groups and handled every valid answer.  The provider was called *)
(* for a group as often as its outcome says (what the run ledger bills),   *)
(* and never more than MaxRetries + 1 times.                               *)
(***************************************************************************)
AttemptsCharged ==
  /\ \A i \in 1..Len(collected) : calls[collected[i].group] = collected[i].attempts
  /\ \A g \in Groups : calls[g] <= MaxRetries + 1

ReturnAccounts ==
  /\ loop = "returned" =>
       /\ {collected[i].group : i \in 1..Len(collected)} = 1..next
       /\ \A w \in Workers : Done(w)
       /\ result = "ok" =>
            /\ next = NumGroups
            /\ handled = {o.group : o \in {p \in ToSet(collected) : p.verdict = "valid"}}
  /\ AttemptsCharged

(***************************************************************************)
(* From the first group handed out to the return, the loop's accounts are  *)
(* complete: no group is lost or repeated on the way, and none is missing, *)
(* running or billed wrongly at the end.                                   *)
(***************************************************************************)
GroupsAccounted == EachGroupOnce /\ ReturnAccounts

(* Execute returns, whatever fails or is cancelled.                        *)
Terminates == <>(loop = "returned")

=============================================================================
