--------------------------- MODULE ExecutorProofs ---------------------------
(***************************************************************************)
(* For any number of groups, any pool and any number of retries: no group  *)
(* is lost or reported twice, and a return accounts for every group sent   *)
(* and every provider call made.                                           *)
(*                                                                         *)
(* Neither property is inductive.  A group handed out is held in one place *)
(* only (by one worker, in the channel, or collected), so a retry cannot   *)
(* be charged to an outcome that is already on its way; and the places are *)
(* counted, so that a loop that has collected as many outcomes as there    *)
(* are groups knows that nobody is still at work.                          *)
(***************************************************************************)
EXTENDS Executor, DataTheorems, SequenceTheorems, TLAPS

WorkerSteps == {"waiting", "calling", "backoff", "exited"} \cup Verdicts
Outcomes == [group : Groups, verdict : Verdicts, attempts : 0..MaxRetries + 1]
WorkerStates ==
  [Workers -> [step : WorkerSteps, group : Groups \cup {NoGroup}, attempts : 0..MaxRetries + 1]]

Types ==
  /\ loop \in {"select", "handling", "stopping", "closing", "returned"}
  /\ next \in 0..NumGroups
  /\ collected \in Seq(Outcomes) /\ completed \in Seq(Outcomes)
  /\ worker \in WorkerStates
  /\ calls \in [Groups -> Nat]

(* What a worker at each step has in hand.                                 *)
Shape ==
  \A w \in Workers :
    /\ worker[w].step \in {"waiting", "exited"} <=> worker[w].group = NoGroup
    /\ worker[w].group # NoGroup => worker[w].group \in 1..next
    /\ worker[w].step = "backoff" => worker[w].attempts <= MaxRetries

(* A group handed out is in one place.                                     *)
OneHolder ==
  /\ \A v, w \in Workers :
       worker[v].group = worker[w].group /\ worker[v].group # NoGroup => v = w
  /\ \A i, j \in 1..Len(completed) : completed[i].group = completed[j].group => i = j
  /\ \A i, j \in 1..Len(collected) : collected[i].group = collected[j].group => i = j
  /\ \A i \in 1..Len(completed), j \in 1..Len(collected) : completed[i].group # collected[j].group
  /\ \A i \in 1..Len(completed), w \in Workers : completed[i].group # worker[w].group
  /\ \A i \in 1..Len(collected), w \in Workers : collected[i].group # worker[w].group

(* ... and it is in some place.                                            *)
Held ==
  /\ \A g \in 1..next :
       \/ \E w \in Workers : worker[w].group = g
       \/ \E i \in 1..Len(completed) : completed[i].group = g
       \/ \E i \in 1..Len(collected) : collected[i].group = g
  /\ \A i \in 1..Len(completed) : completed[i].group \in 1..next
  /\ \A i \in 1..Len(collected) : collected[i].group \in 1..next

Count == Len(completed) + Len(collected) + Cardinality(Busy) = next

(* What the provider was called for.                                       *)
Charged ==
  /\ \A g \in Groups : g > next => calls[g] = 0
  /\ \A w \in Workers : worker[w].group # NoGroup =>
       calls[worker[w].group] =
         IF worker[w].step = "calling" THEN worker[w].attempts - 1 ELSE worker[w].attempts
  /\ \A i \in 1..Len(completed) : calls[completed[i].group] = completed[i].attempts
  /\ \A i \in 1..Len(collected) : calls[collected[i].group] = collected[i].attempts

(* What the loop knows at each of its steps.                               *)
ValidGroups ==
  { collected[i].group : i \in { j \in 1..Len(collected) : collected[j].verdict = "valid" } }

Phases ==
  /\ loop \in {"select", "handling"} => ~closed
  /\ ~closed => \A w \in Workers : ~Done(w)
  /\ loop = "closing" => Len(collected) = NumGroups
  /\ loop \in {"select", "closing"} => handled = ValidGroups
  /\ loop = "handling" =>
       /\ Len(collected) > 0
       /\ ValidGroups = handled \cup {collected[Len(collected)].group}
  /\ loop = "stopping" => result # "ok"
  /\ loop = "returned" =>
       /\ completed = << >>
       /\ \A w \in Workers : Done(w)
       /\ result = "ok" => next = NumGroups /\ handled = ValidGroups

IInv == Types /\ Shape /\ OneHolder /\ Held /\ Count /\ Charged /\ Phases

-----------------------------------------------------------------------------
(* The types, element by element.                                          *)
Elements ==
  /\ NumGroups \in Nat /\ MaxRetries \in Nat /\ NoGroup \notin Groups
  /\ next \in Nat /\ next <= NumGroups
  /\ Len(completed) \in Nat /\ Len(collected) \in Nat
  /\ \A i \in 1..Len(completed) : completed[i] \in Outcomes
  /\ \A i \in 1..Len(collected) : collected[i] \in Outcomes
  /\ \A w \in Workers :
       /\ worker[w].group \in Groups \cup {NoGroup}
       /\ worker[w].attempts \in 0..MaxRetries + 1
       /\ worker[w].step \in WorkerSteps

LEMMA ElementTypes ==
  ASSUME Types
  PROVE  Elements
<1>1. NumGroups \in Nat /\ MaxRetries \in Nat /\ NoGroup \notin Groups
  BY ExecutorAssumption DEF Groups
<1>2. next \in Nat /\ next <= NumGroups
  BY <1>1 DEF Types
<1>3. Len(completed) \in Nat /\ Len(collected) \in Nat
  BY LenProperties DEF Types
<1>4. /\ \A i \in 1..Len(completed) : completed[i] \in Outcomes
      /\ \A i \in 1..Len(collected) : collected[i] \in Outcomes
  BY ElementOfSeq DEF Types
<1>5. \A w \in Workers :
        /\ worker[w].group \in Groups \cup {NoGroup}
        /\ worker[w].attempts \in 0..MaxRetries + 1
        /\ worker[w].step \in WorkerSteps
  BY DEF Types, WorkerStates
<1> QED
  BY <1>1, <1>2, <1>3, <1>4, <1>5 DEF Elements

(* s grew by one element, x.                                               *)
Grown(old, new, x) ==
  /\ Len(new) = Len(old) + 1
  /\ \A i \in 1..Len(old) : i \in 1..Len(new) /\ new[i] = old[i]
  /\ Len(new) \in 1..Len(new) /\ new[Len(new)] = x
  /\ \A i \in 1..Len(new) : i \in 1..Len(old) \/ i = Len(new)

LEMMA Growing ==
  ASSUME NEW S, NEW s \in Seq(S), NEW x \in S
  PROVE  Append(s, x) \in Seq(S) /\ Grown(s, Append(s, x), x)
<1>1. /\ Append(s, x) \in Seq(S)
      /\ Len(s) \in Nat /\ Len(Append(s, x)) = Len(s) + 1
      /\ \A i \in 1..Len(s) : Append(s, x)[i] = s[i]
      /\ Append(s, x)[Len(s) + 1] = x
  BY AppendProperties, LenProperties
<1> QED
  BY <1>1 DEF Grown

(* s lost its first element.                                               *)
Shrunk(old, new) ==
  /\ Len(old) = Len(new) + 1 /\ 1 \in 1..Len(old)
  /\ \A i \in 1..Len(new) : i + 1 \in 1..Len(old) /\ new[i] = old[i + 1]
  /\ \A i \in 1..Len(old) : i = 1 \/ (i - 1 \in 1..Len(new) /\ new[i - 1] = old[i])

LEMMA Shrinking ==
  ASSUME NEW S, NEW s \in Seq(S), s # << >>
  PROVE  Tail(s) \in Seq(S) /\ Shrunk(s, Tail(s)) /\ Head(s) = s[1]
<1>1. /\ Len(s) \in Nat /\ Len(s) > 0 /\ Head(s) = s[1]
      /\ Tail(s) \in Seq(S) /\ Len(Tail(s)) = Len(s) - 1
      /\ \A i \in 1..Len(Tail(s)) : Tail(s)[i] = s[i + 1]
  BY HeadTailProperties
<1>2. Len(s) = Len(Tail(s)) + 1 /\ 1 \in 1..Len(s)
  BY <1>1
<1>3. \A i \in 1..Len(Tail(s)) : i + 1 \in 1..Len(s)
  BY <1>1
<1>4. \A i \in 1..Len(s) : i = 1 \/ (i - 1 \in 1..Len(Tail(s)) /\ (i - 1) + 1 = i)
  BY <1>1
<1>5. ASSUME NEW i \in 1..Len(s)
      PROVE  i = 1 \/ (i - 1 \in 1..Len(Tail(s)) /\ Tail(s)[i - 1] = s[i])
  <2>1. CASE i = 1
    BY <2>1, Zenon
  <2>2. CASE i # 1
    <3>1. i - 1 \in 1..Len(Tail(s)) /\ (i - 1) + 1 = i
      BY <1>4, <2>2
    <3>2. Tail(s)[i - 1] = s[(i - 1) + 1]
      BY <1>1, <3>1
    <3> QED
      BY <3>1, <3>2
  <2> QED
    BY <2>1, <2>2
<1>6. \A i \in 1..Len(Tail(s)) : Tail(s)[i] = s[i + 1]
  BY <1>1
<1>7. \A i \in 1..Len(Tail(s)) : i + 1 \in 1..Len(s) /\ Tail(s)[i] = s[i + 1]
  BY <1>3, <1>6, Zenon
<1>8. Shrunk(s, Tail(s))
  BY <1>2, <1>5, <1>7, Zenon DEF Shrunk
<1> QED
  BY <1>1, <1>8

(* new is old followed by more.                                            *)
Joined(old, more, new) ==
  /\ Len(new) = Len(old) + Len(more)
  /\ \A i \in 1..Len(old) : i \in 1..Len(new) /\ new[i] = old[i]
  /\ \A i \in 1..Len(more) : i + Len(old) \in 1..Len(new) /\ new[i + Len(old)] = more[i]
  /\ \A i \in 1..Len(new) : i \in 1..Len(old) \/ i - Len(old) \in 1..Len(more)

LEMMA Joining ==
  ASSUME NEW S, NEW s \in Seq(S), NEW t \in Seq(S)
  PROVE  s \o t \in Seq(S) /\ Joined(s, t, s \o t)
<1>1. /\ s \o t \in Seq(S)
      /\ Len(s) \in Nat /\ Len(t) \in Nat
      /\ Len(s \o t) = Len(s) + Len(t)
      /\ \A i \in 1..Len(s) + Len(t) : (s \o t)[i] = IF i <= Len(s) THEN s[i] ELSE t[i - Len(s)]
  BY ConcatProperties, LenProperties
<1>2. \A i \in 1..Len(t) : i + Len(s) \in 1..Len(s) + Len(t) /\ (i + Len(s)) - Len(s) = i
                           /\ ~(i + Len(s) <= Len(s))
  BY <1>1
<1>3. \A i \in 1..Len(t) : (s \o t)[i + Len(s)] = t[i]
  BY <1>1, <1>2
<1> QED
  BY <1>1, <1>2, <1>3 DEF Joined

-----------------------------------------------------------------------------
(* What each step does to the groups in hand.  Most steps of the loop do   *)
(* nothing to them.                                                        *)
Quiet == UNCHANGED <<next, collected, worker, completed, calls>>

Alone(w) == \A v \in Workers \ {w} : worker'[v] = worker[v]

Sent(w) ==
  /\ next' = next + 1 /\ next < NumGroups
  /\ worker[w].step = "waiting"
  /\ worker' \in WorkerStates
  /\ worker'[w].step = "calling" /\ worker'[w].group = next + 1 /\ worker'[w].attempts = 1
  /\ Alone(w)
  /\ UNCHANGED <<collected, completed, calls>>

Received ==
  /\ collected' \in Seq(Outcomes) /\ completed' \in Seq(Outcomes)
  /\ Shrunk(completed, completed') /\ Grown(collected, collected', completed[1])
  /\ UNCHANGED <<next, worker, calls>>

Drained ==
  /\ \A w \in Workers : Done(w)
  /\ completed' = << >> /\ Len(completed') = 0
  /\ collected' \in Seq(Outcomes) /\ Joined(collected, completed, collected')
  /\ UNCHANGED <<next, worker, calls>>

Attempted(w) ==
  /\ worker[w].step = "calling"
  /\ worker' \in WorkerStates
  /\ worker'[w].group = worker[w].group /\ worker'[w].attempts = worker[w].attempts
  /\ worker'[w].step \in Verdicts \cup {"backoff"}
  /\ worker'[w].step = "backoff" => worker[w].attempts <= MaxRetries
  /\ Alone(w)
  /\ calls' = [calls EXCEPT ![worker[w].group] = @ + 1]
  /\ UNCHANGED <<next, collected, completed>>

Retried(w) ==
  /\ worker[w].step = "backoff"
  /\ worker' \in WorkerStates
  /\ worker'[w].group = worker[w].group
  /\ \/ worker'[w].step = "calling" /\ worker'[w].attempts = worker[w].attempts + 1
     \/ worker'[w].step = "cancelled" /\ worker'[w].attempts = worker[w].attempts
  /\ Alone(w)
  /\ UNCHANGED <<next, collected, completed, calls>>

Delivered(w) ==
  /\ worker[w].step \in Verdicts
  /\ completed' \in Seq(Outcomes) /\ Grown(completed, completed', Outcome(w))
  /\ worker' \in WorkerStates
  /\ worker'[w].step = "waiting" /\ worker'[w].group = NoGroup
  /\ Alone(w)
  /\ UNCHANGED <<next, collected, calls>>

Exited(w) ==
  /\ worker[w].step = "waiting" /\ closed
  /\ worker' \in WorkerStates
  /\ worker'[w].step = "exited" /\ worker'[w].group = worker[w].group
  /\ Alone(w)
  /\ UNCHANGED <<next, collected, completed, calls>>

LEMMA Stepped ==
  ASSUME Types, NEW w \in Workers, NEW s \in WorkerSteps, worker' = [worker EXCEPT ![w].step = s]
  PROVE  /\ worker' \in WorkerStates
         /\ worker'[w].group = worker[w].group /\ worker'[w].attempts = worker[w].attempts
         /\ worker'[w].step = s
         /\ Alone(w)
  BY DEF Types, WorkerStates, Alone

LEMMA Placed ==
  ASSUME Types, NEW w \in Workers, NEW s \in WorkerSteps, NEW g \in Groups \cup {NoGroup},
         NEW n \in 0..MaxRetries + 1,
         worker' = [worker EXCEPT ![w] = [step |-> s, group |-> g, attempts |-> n]]
  PROVE  /\ worker' \in WorkerStates
         /\ worker'[w].group = g /\ worker'[w].attempts = n /\ worker'[w].step = s
         /\ Alone(w)
  BY DEF Types, WorkerStates, Alone

LEMMA SendEffect ==
  ASSUME Types, NEW w \in Workers, Send(w)
  PROVE  Sent(w)
<1>1. next + 1 \in Groups /\ 1 \in 0..MaxRetries + 1 /\ "calling" \in WorkerSteps
  BY ElementTypes DEF Elements, Groups, WorkerSteps, Send
<1>2. worker' = [worker EXCEPT ![w] = [step |-> "calling", group |-> next + 1, attempts |-> 1]]
  BY DEF Send
<1>3. /\ next' = next + 1 /\ next < NumGroups /\ worker[w].step = "waiting"
      /\ UNCHANGED <<collected, completed, calls>>
  BY DEF Send
<1> QED
  BY <1>1, <1>2, <1>3, Placed DEF Sent

LEMMA ReceiveEffect ==
  ASSUME Types, Receive
  PROVE  Received
<1>1. completed' \in Seq(Outcomes) /\ Shrunk(completed, completed') /\ Head(completed) = completed[1]
  BY Shrinking DEF Types, Receive
<1>2. completed[1] \in Outcomes
  BY <1>1, ElementTypes DEF Elements, Shrunk
<1>3. collected' \in Seq(Outcomes) /\ Grown(collected, collected', completed[1])
  BY <1>1, <1>2, Growing DEF Types, Receive
<1> QED
  BY <1>1, <1>3 DEF Receive, Received

LEMMA DrainEffect ==
  ASSUME Types, Drain
  PROVE  Drained
<1>1. collected' \in Seq(Outcomes) /\ Joined(collected, completed, collected')
  BY Joining DEF Types, Drain
<1>2. completed' = << >> /\ Len(completed') = 0
  BY EmptySeq DEF Drain
<1> QED
  BY <1>1, <1>2 DEF Drain, Drained

LEMMA AttemptEffect ==
  ASSUME Types, NEW w \in Workers, Attempt(w)
  PROVE  Attempted(w)
<1>1. PICK s \in Verdicts \cup {"backoff"} :
        /\ worker' = [worker EXCEPT ![w].step = s]
        /\ s = "backoff" => worker[w].attempts # MaxRetries + 1
  BY DEF Attempt, Finish, Verdicts
<1>2. s \in WorkerSteps
  BY <1>1 DEF WorkerSteps
<1>3. s = "backoff" => worker[w].attempts <= MaxRetries
  BY <1>1, ElementTypes DEF Elements
<1>4. /\ worker[w].step = "calling"
      /\ calls' = [calls EXCEPT ![worker[w].group] = @ + 1]
      /\ UNCHANGED <<next, collected, completed>>
  BY DEF Attempt
<1>5. /\ worker' \in WorkerStates
      /\ worker'[w].group = worker[w].group /\ worker'[w].attempts = worker[w].attempts
      /\ worker'[w].step = s
      /\ Alone(w)
  BY <1>1, <1>2, Stepped
<1>6. worker'[w].step \in Verdicts \cup {"backoff"}
  BY <1>1, <1>5
<1> QED
  BY <1>3, <1>4, <1>5, <1>6 DEF Attempted

LEMMA RetryEffect ==
  ASSUME Types, Shape, NEW w \in Workers, Retry(w)
  PROVE  Retried(w)
<1>1. worker[w].step = "backoff" /\ UNCHANGED <<next, collected, completed, calls>>
  BY DEF Retry
<1>2. CASE worker' = [worker EXCEPT ![w].step = "calling", ![w].attempts = @ + 1]
  <2>1. worker[w].attempts + 1 \in 0..MaxRetries + 1 /\ "calling" \in WorkerSteps
    BY <1>1, ElementTypes DEF Elements, Shape, WorkerSteps
  <2>2. worker \in WorkerStates
    BY DEF Types
  <2>3. worker' \in WorkerStates
    BY <1>2, <2>1, <2>2 DEF WorkerStates
  <2>4. /\ worker'[w].group = worker[w].group /\ worker'[w].step = "calling"
        /\ worker'[w].attempts = worker[w].attempts + 1
        /\ Alone(w)
    BY <1>2, <2>2 DEF WorkerStates, Alone
  <2> QED
    BY <1>1, <2>3, <2>4 DEF Retried
<1>3. CASE Finish(w, "cancelled")
  <2>1. "cancelled" \in WorkerSteps
    BY DEF WorkerSteps, Verdicts
  <2> QED
    BY <1>1, <1>3, <2>1, Stepped DEF Finish, Retried
<1> QED
  BY <1>2, <1>3 DEF Retry

LEMMA DeliverEffect ==
  ASSUME Types, Shape, NEW w \in Workers, Deliver(w)
  PROVE  Delivered(w)
<1>1. worker[w].step \in Verdicts
  BY DEF Deliver
<1>2. worker[w].group # NoGroup
  BY <1>1 DEF Shape, Verdicts
<1>3. Outcome(w) \in Outcomes
  BY <1>1, <1>2, ElementTypes DEF Elements, Outcome, Outcomes
<1>4. completed' \in Seq(Outcomes) /\ Grown(completed, completed', Outcome(w))
  BY <1>3, Growing DEF Deliver, Types
<1>5. 0 \in 0..MaxRetries + 1 /\ "waiting" \in WorkerSteps
  BY ElementTypes DEF Elements, WorkerSteps
<1>6. /\ worker' \in WorkerStates
      /\ worker'[w].step = "waiting" /\ worker'[w].group = NoGroup
      /\ Alone(w)
  BY <1>5, Placed DEF Deliver, Resting
<1> QED
  BY <1>1, <1>4, <1>6 DEF Deliver, Delivered

LEMMA ExitEffect ==
  ASSUME Types, NEW w \in Workers, Exit(w)
  PROVE  Exited(w)
<1>1. "exited" \in WorkerSteps
  BY DEF WorkerSteps
<1> QED
  BY <1>1, Stepped DEF Exit, Exited

LEMMA Effects ==
  ASSUME Types, Shape, Next
  PROVE  \/ Quiet \/ Received \/ Drained
         \/ \E w \in Workers : Sent(w) \/ Attempted(w) \/ Retried(w) \/ Delivered(w) \/ Exited(w)
<1>1. CASE \/ Handle \/ HandlerFails \/ SeeCancel \/ AllReceived
           \/ ReturnAll \/ CancelContext \/ Returned
  BY <1>1 DEF Handle, HandlerFails, SeeCancel, AllReceived, ReturnAll, CancelContext, Returned,
     vars, Quiet
<1>2. CASE Receive
  BY <1>2, ReceiveEffect
<1>3. CASE Drain
  BY <1>3, DrainEffect
<1>4. ASSUME NEW w \in Workers, Send(w) \/ Work(w)
      PROVE  Sent(w) \/ Attempted(w) \/ Retried(w) \/ Delivered(w) \/ Exited(w)
  BY <1>4, SendEffect, AttemptEffect, RetryEffect, DeliverEffect, ExitEffect DEF Work
<1> QED
  BY <1>1, <1>2, <1>3, <1>4 DEF Next, Loop

-----------------------------------------------------------------------------
LEMMA ShapeKept ==
  ASSUME Types, Shape, Next
  PROVE  Shape'
<1>0. Elements
  BY ElementTypes
<1>1. CASE Quiet
  BY <1>1 DEF Quiet, Shape
<1>2. CASE Received
  BY <1>2 DEF Received, Shape
<1>3. CASE Drained
  BY <1>3 DEF Drained, Shape
<1>4. ASSUME NEW w \in Workers, Sent(w) PROVE Shape'
  <2>1. next \in Nat /\ next + 1 \in 1..next' /\ 1..next \subseteq 1..next' /\ next + 1 # NoGroup
    <3>1. next + 1 \in Groups
      BY <1>0, <1>4 DEF Sent, Elements, Groups
    <3> QED
      BY <1>0, <1>4, <3>1 DEF Sent, Elements
  <2>2. ASSUME NEW v \in Workers, v # w
        PROVE  /\ worker'[v].step \in {"waiting", "exited"} <=> worker'[v].group = NoGroup
               /\ worker'[v].group # NoGroup => worker'[v].group \in 1..next'
               /\ worker'[v].step = "backoff" => worker'[v].attempts <= MaxRetries
    BY <1>4, <2>1, <2>2 DEF Sent, Shape, Alone
  <2>3. worker'[w].step = "calling" /\ worker'[w].group = next + 1
    BY <1>4 DEF Sent
  <2> QED
    BY <2>1, <2>2, <2>3 DEF Shape
<1>5. ASSUME NEW w \in Workers, Attempted(w) PROVE Shape'
  BY <1>5 DEF Attempted, Shape, Alone, Verdicts
<1>6. ASSUME NEW w \in Workers, Retried(w) PROVE Shape'
  BY <1>6 DEF Retried, Shape, Alone
<1>7. ASSUME NEW w \in Workers, Delivered(w) PROVE Shape'
  BY <1>7 DEF Delivered, Shape, Alone
<1>8. ASSUME NEW w \in Workers, Exited(w) PROVE Shape'
  BY <1>8 DEF Exited, Shape, Alone
<1> QED
  BY Effects, <1>1, <1>2, <1>3, <1>4, <1>5, <1>6, <1>7, <1>8

LEMMA OneHolderKept ==
  ASSUME Types, Shape, OneHolder, Held, Next
  PROVE  OneHolder'
<1>0. Elements
  BY ElementTypes
<1>1. CASE Quiet
  BY <1>1 DEF Quiet, OneHolder
<1>2. CASE Received
  <2>1. worker' = worker /\ Shrunk(completed, completed')
        /\ Grown(collected, collected', completed[1])
    BY <1>2 DEF Received
  <2>2. \A i \in 1..Len(completed') : i + 1 \in 1..Len(completed) /\ i + 1 # 1
                                      /\ completed'[i] = completed[i + 1]
    BY <1>0, <2>1 DEF Shrunk, Elements
  <2>3. \A i \in 1..Len(collected') :
          \/ i \in 1..Len(collected) /\ collected'[i] = collected[i]
          \/ i = Len(collected') /\ collected'[i] = completed[1]
    BY <2>1 DEF Grown
  <2>4. 1 \in 1..Len(completed)
    BY <2>1 DEF Shrunk
  <2>5. \A i, j \in 1..Len(completed') : completed'[i].group = completed'[j].group => i = j
    BY <1>0, <2>2 DEF OneHolder, Elements
  <2>6. \A i, j \in 1..Len(collected') : collected'[i].group = collected'[j].group => i = j
    BY <2>3, <2>4 DEF OneHolder
  <2>7. \A i \in 1..Len(completed'), j \in 1..Len(collected') :
          completed'[i].group # collected'[j].group
    <3> TAKE i \in 1..Len(completed'), j \in 1..Len(collected')
    <3>1. CASE j \in 1..Len(collected) /\ collected'[j] = collected[j]
      <4>1. i + 1 \in 1..Len(completed) /\ completed'[i] = completed[i + 1]
        BY <2>2
      <4>2. completed[i + 1].group # collected[j].group
        BY <3>1, <4>1 DEF OneHolder
      <4> QED
        BY <3>1, <4>1, <4>2
    <3>2. CASE collected'[j] = completed[1]
      BY <2>2, <2>4, <3>2 DEF OneHolder
    <3> QED
      BY <2>3, <3>1, <3>2
  <2>8. \A i \in 1..Len(completed'), w \in Workers : completed'[i].group # worker[w].group
    BY <2>2 DEF OneHolder
  <2>9. \A i \in 1..Len(collected'), w \in Workers : collected'[i].group # worker[w].group
    BY <2>3, <2>4 DEF OneHolder
  <2> QED
    BY <2>1, <2>5, <2>6, <2>7, <2>8, <2>9 DEF OneHolder
<1>3. CASE Drained
  <2>1. worker' = worker /\ Len(completed') = 0 /\ Joined(collected, completed, collected')
    BY <1>3 DEF Drained
  <2>2. \A i \in 1..Len(collected') :
          \/ i \in 1..Len(collected) /\ collected'[i] = collected[i]
          \/ /\ i - Len(collected) \in 1..Len(completed)
             /\ collected'[i] = completed[i - Len(collected)]
    <3>1. \A i \in 1..Len(collected') : (i - Len(collected)) + Len(collected) = i
      BY <1>0, <2>1 DEF Elements, Joined
    <3> QED
      BY <2>1, <3>1 DEF Joined
  <2>3. \A i, j \in 1..Len(collected') : collected'[i].group = collected'[j].group => i = j
    <3>1. \A i, j \in 1..Len(collected') : i - Len(collected) = j - Len(collected) => i = j
      BY <1>0, <2>1 DEF Elements, Joined
    <3> SUFFICES ASSUME NEW i \in 1..Len(collected'), NEW j \in 1..Len(collected'),
                        collected'[i].group = collected'[j].group
                 PROVE  i = j
      OBVIOUS
    <3>2. CASE /\ i \in 1..Len(collected) /\ collected'[i] = collected[i]
               /\ j \in 1..Len(collected) /\ collected'[j] = collected[j]
      BY <3>2 DEF OneHolder
    <3>3. CASE /\ i - Len(collected) \in 1..Len(completed) /\ collected'[i] = completed[i - Len(collected)]
               /\ j - Len(collected) \in 1..Len(completed) /\ collected'[j] = completed[j - Len(collected)]
      <4>1. i - Len(collected) = j - Len(collected)
        BY <3>3 DEF OneHolder
      <4> QED
        BY <3>1, <4>1
    <3>4. CASE /\ i \in 1..Len(collected) /\ collected'[i] = collected[i]
               /\ j - Len(collected) \in 1..Len(completed) /\ collected'[j] = completed[j - Len(collected)]
      BY <3>4 DEF OneHolder
    <3>5. CASE /\ i - Len(collected) \in 1..Len(completed) /\ collected'[i] = completed[i - Len(collected)]
               /\ j \in 1..Len(collected) /\ collected'[j] = collected[j]
      BY <3>5 DEF OneHolder
    <3> QED
      BY <2>2, <3>2, <3>3, <3>4, <3>5
  <2>4. \A i \in 1..Len(collected'), w \in Workers : collected'[i].group # worker[w].group
    BY <2>2 DEF OneHolder
  <2> QED
    BY <2>1, <2>3, <2>4 DEF OneHolder
<1>4. ASSUME NEW w \in Workers, Sent(w) PROVE OneHolder'
  <2>1. completed' = completed /\ collected' = collected /\ worker'[w].group = next + 1
        /\ \A v \in Workers \ {w} : worker'[v] = worker[v]
    BY <1>4 DEF Sent, Alone
  <2>2. /\ \A i \in 1..Len(completed) : completed[i].group # next + 1
        /\ \A i \in 1..Len(collected) : collected[i].group # next + 1
        /\ \A v \in Workers : worker[v].group # next + 1
    <3>1. \A g \in 1..next : g # next + 1
      BY <1>0 DEF Elements
    <3>2. NoGroup # next + 1
      BY <1>0, <1>4 DEF Elements, Groups, Sent
    <3> QED
      BY <3>1, <3>2 DEF Held, Shape
  <2> QED
    BY <2>1, <2>2 DEF OneHolder
<1>5. ASSUME NEW w \in Workers, Attempted(w) PROVE OneHolder'
  BY <1>5 DEF Attempted, OneHolder, Alone
<1>6. ASSUME NEW w \in Workers, Retried(w) PROVE OneHolder'
  BY <1>6 DEF Retried, OneHolder, Alone
<1>7. ASSUME NEW w \in Workers, Delivered(w) PROVE OneHolder'
  <2>1. /\ collected' = collected /\ worker'[w].group = NoGroup
        /\ \A v \in Workers \ {w} : worker'[v] = worker[v]
        /\ \A i \in 1..Len(completed') :
             \/ i \in 1..Len(completed) /\ completed'[i] = completed[i]
             \/ i = Len(completed') /\ completed'[i].group = worker[w].group
    BY <1>7 DEF Delivered, Alone, Grown, Outcome
  <2>2. worker[w].group # NoGroup
    BY <1>7 DEF Delivered, Shape, Verdicts
  <2>3. /\ \A i \in 1..Len(completed) : completed[i].group # NoGroup
        /\ \A i \in 1..Len(collected) : collected[i].group # NoGroup
    BY <1>0 DEF Elements, Outcomes
  <2>4. \A v \in Workers \ {w} : worker[v].group # worker[w].group
    BY <2>2 DEF OneHolder
  <2>5. \A i, j \in 1..Len(completed') : completed'[i].group = completed'[j].group => i = j
    BY <2>1 DEF OneHolder
  <2>6. \A i \in 1..Len(completed'), j \in 1..Len(collected') :
          completed'[i].group # collected'[j].group
    BY <2>1 DEF OneHolder
  <2>7. \A i \in 1..Len(completed'), v \in Workers : completed'[i].group # worker'[v].group
    BY <2>1, <2>2, <2>3, <2>4 DEF OneHolder
  <2>8. \A i \in 1..Len(collected'), v \in Workers : collected'[i].group # worker'[v].group
    BY <2>1, <2>3 DEF OneHolder
  <2>9. \A u, v \in Workers :
          worker'[u].group = worker'[v].group /\ worker'[u].group # NoGroup => u = v
    BY <2>1 DEF OneHolder
  <2>10. \A i, j \in 1..Len(collected') : collected'[i].group = collected'[j].group => i = j
    BY <2>1 DEF OneHolder
  <2> QED
    BY <2>5, <2>6, <2>7, <2>8, <2>9, <2>10 DEF OneHolder
<1>8. ASSUME NEW w \in Workers, Exited(w) PROVE OneHolder'
  BY <1>8 DEF Exited, OneHolder, Alone
<1> QED
  BY Effects, <1>1, <1>2, <1>3, <1>4, <1>5, <1>6, <1>7, <1>8

LEMMA HeldKept ==
  ASSUME Types, Shape, Held, Next
  PROVE  Held'
<1>0. Elements
  BY ElementTypes
<1>1. CASE Quiet
  BY <1>1 DEF Quiet, Held
<1>2. CASE Received
  <2>1. /\ worker' = worker /\ next' = next
        /\ Shrunk(completed, completed') /\ Grown(collected, collected', completed[1])
    BY <1>2 DEF Received
  <2>2. \A i \in 1..Len(completed') : completed'[i].group \in 1..next
    BY <2>1 DEF Held, Shrunk
  <2>3. \A i \in 1..Len(collected') : collected'[i].group \in 1..next
    <3>1. 1 \in 1..Len(completed)
      BY <2>1 DEF Shrunk
    <3> QED
      BY <2>1, <3>1 DEF Held, Grown
  <2>4. ASSUME NEW g \in 1..next
        PROVE  \/ \E w \in Workers : worker[w].group = g
               \/ \E i \in 1..Len(completed') : completed'[i].group = g
               \/ \E i \in 1..Len(collected') : collected'[i].group = g
    <3>1. ASSUME NEW i \in 1..Len(completed), completed[i].group = g
          PROVE  \/ \E j \in 1..Len(completed') : completed'[j].group = g
                 \/ \E j \in 1..Len(collected') : collected'[j].group = g
      <4>1. CASE i = 1
        BY <2>1, <3>1, <4>1 DEF Grown
      <4>2. CASE i - 1 \in 1..Len(completed') /\ completed'[i - 1] = completed[i]
        BY <3>1, <4>2
      <4> QED
        BY <2>1, <4>1, <4>2 DEF Shrunk
    <3>2. ASSUME NEW i \in 1..Len(collected), collected[i].group = g
          PROVE  \E j \in 1..Len(collected') : collected'[j].group = g
      BY <2>1, <3>2 DEF Grown
    <3> QED
      BY <3>1, <3>2 DEF Held
  <2> QED
    BY <2>1, <2>2, <2>3, <2>4 DEF Held
<1>3. CASE Drained
  <2>1. /\ worker' = worker /\ next' = next /\ Len(completed') = 0
        /\ Joined(collected, completed, collected')
    BY <1>3 DEF Drained
  <2>2. ASSUME NEW i \in 1..Len(collected')
        PROVE  collected'[i].group \in 1..next
    <3>1. CASE i \in 1..Len(collected)
      BY <2>1, <3>1 DEF Held, Joined
    <3>2. CASE i - Len(collected) \in 1..Len(completed)
      <4>1. (i - Len(collected)) + Len(collected) = i
        BY <1>0, <2>1 DEF Elements, Joined
      <4>2. collected'[i] = completed[i - Len(collected)]
        BY <2>1, <3>2, <4>1 DEF Joined
      <4> QED
        BY <3>2, <4>2 DEF Held
    <3> QED
      BY <2>1, <3>1, <3>2 DEF Joined
  <2>3. ASSUME NEW g \in 1..next
        PROVE  \/ \E w \in Workers : worker[w].group = g
               \/ \E i \in 1..Len(collected') : collected'[i].group = g
    <3>1. ASSUME NEW i \in 1..Len(completed), completed[i].group = g
          PROVE  \E j \in 1..Len(collected') : collected'[j].group = g
      <4>1. i + Len(collected) \in 1..Len(collected') /\ collected'[i + Len(collected)] = completed[i]
        BY <2>1 DEF Joined
      <4> QED
        BY <3>1, <4>1
    <3>2. ASSUME NEW i \in 1..Len(collected), collected[i].group = g
          PROVE  \E j \in 1..Len(collected') : collected'[j].group = g
      BY <2>1, <3>2 DEF Joined
    <3> QED
      BY <3>1, <3>2 DEF Held
  <2> QED
    BY <2>1, <2>2, <2>3 DEF Held
<1>4. ASSUME NEW w \in Workers, Sent(w) PROVE Held'
  <2>1. /\ completed' = completed /\ collected' = collected /\ next' = next + 1
        /\ worker'[w].group = next + 1
        /\ worker[w].group = NoGroup
        /\ \A v \in Workers \ {w} : worker'[v] = worker[v]
    BY <1>4 DEF Sent, Alone, Shape
  <2>2. \A g \in 1..next' : g = next + 1 \/ g \in 1..next
    BY <1>0, <2>1 DEF Elements
  <2>3. \A g \in 1..next : g # NoGroup /\ g \in 1..next'
    BY <1>0, <2>1 DEF Elements, Groups
  <2> QED
    BY <2>1, <2>2, <2>3 DEF Held
<1>5. ASSUME NEW w \in Workers, Attempted(w) PROVE Held'
  BY <1>5 DEF Attempted, Held, Alone
<1>6. ASSUME NEW w \in Workers, Retried(w) PROVE Held'
  BY <1>6 DEF Retried, Held, Alone
<1>7. ASSUME NEW w \in Workers, Delivered(w) PROVE Held'
  <2>1. /\ collected' = collected /\ next' = next
        /\ \A v \in Workers \ {w} : worker'[v] = worker[v]
        /\ \A i \in 1..Len(completed) : i \in 1..Len(completed') /\ completed'[i] = completed[i]
        /\ Len(completed') \in 1..Len(completed')
        /\ completed'[Len(completed')].group = worker[w].group
        /\ \A i \in 1..Len(completed') : i \in 1..Len(completed) \/ i = Len(completed')
    BY <1>7 DEF Delivered, Alone, Grown, Outcome
  <2>2. worker[w].group \in 1..next
    BY <1>7 DEF Delivered, Shape, Verdicts
  <2>3. \A i \in 1..Len(completed') : completed'[i].group \in 1..next
    BY <2>1, <2>2 DEF Held
  <2>4. ASSUME NEW g \in 1..next
        PROVE  \/ \E v \in Workers : worker'[v].group = g
               \/ \E i \in 1..Len(completed') : completed'[i].group = g
               \/ \E i \in 1..Len(collected) : collected[i].group = g
    <3>1. CASE g = worker[w].group
      BY <2>1, <3>1
    <3>2. ASSUME NEW v \in Workers, worker[v].group = g, g # worker[w].group
          PROVE  worker'[v].group = g
      BY <2>1, <3>2
    <3>3. ASSUME NEW i \in 1..Len(completed), completed[i].group = g
          PROVE  \E j \in 1..Len(completed') : completed'[j].group = g
      BY <2>1, <3>3
    <3> QED
      BY <3>1, <3>2, <3>3 DEF Held
  <2> QED
    BY <2>1, <2>3, <2>4 DEF Held
<1>8. ASSUME NEW w \in Workers, Exited(w) PROVE Held'
  BY <1>8 DEF Exited, Held, Alone
<1> QED
  BY Effects, <1>1, <1>2, <1>3, <1>4, <1>5, <1>6, <1>7, <1>8

LEMMA BusyIsFinite == IsFiniteSet(Busy) /\ Cardinality(Busy) \in Nat
<1>1. Busy \in SUBSET Workers
  BY DEF Busy
<1> QED
  BY <1>1, ExecutorAssumption, FS_Subset, FS_CardinalityType

LEMMA CountKept ==
  ASSUME Types, Shape, Count, Next
  PROVE  Count'
<1>0. Elements
  BY ElementTypes
<1>1. CASE Quiet
  <2>1. Busy' = Busy
    BY <1>1 DEF Quiet, Busy, Alone
  <2> QED
    BY <1>1, <2>1 DEF Quiet, Count
<1>2. CASE Received
  <2>1. Busy' = Busy /\ next' = next
        /\ Len(completed) = Len(completed') + 1 /\ Len(collected') = Len(collected) + 1
    BY <1>2 DEF Received, Busy, Shrunk, Grown
  <2>2. Len(completed') \in Nat
    BY <1>2, LenProperties DEF Received
  <2>3. Cardinality(Busy) \in Nat
    BY BusyIsFinite
  <2> QED
    BY <1>0, <2>1, <2>2, <2>3 DEF Count, Elements
<1>3. CASE Drained
  <2>1. Busy' = Busy /\ next' = next /\ Len(completed') = 0
        /\ Len(collected') = Len(collected) + Len(completed)
    BY <1>3 DEF Drained, Busy, Joined
  <2>2. Cardinality(Busy) \in Nat
    BY BusyIsFinite
  <2> QED
    BY <1>0, <2>1, <2>2 DEF Count, Elements
<1>4. ASSUME NEW w \in Workers, Sent(w) PROVE Count'
  <2>1. w \notin Busy /\ Busy' = Busy \cup {w}
    <3>1. worker[w].group = NoGroup /\ worker'[w].group # NoGroup
      BY <1>0, <1>4 DEF Sent, Shape, Elements, Groups
    <3> QED
      BY <1>4, <3>1 DEF Sent, Busy, Alone
  <2>2. Cardinality(Busy') = Cardinality(Busy) + 1 /\ Cardinality(Busy) \in Nat
    BY <2>1, BusyIsFinite, FS_AddElement
  <2> QED
    BY <1>0, <1>4, <2>2 DEF Sent, Count, Elements
<1>5. ASSUME NEW w \in Workers, Attempted(w) PROVE Count'
  <2>1. Busy' = Busy
    BY <1>5 DEF Attempted, Busy, Alone
  <2> QED
    BY <1>5, <2>1 DEF Attempted, Count
<1>6. ASSUME NEW w \in Workers, Retried(w) PROVE Count'
  <2>1. Busy' = Busy
    BY <1>6 DEF Retried, Busy, Alone
  <2> QED
    BY <1>6, <2>1 DEF Retried, Count
<1>7. ASSUME NEW w \in Workers, Delivered(w) PROVE Count'
  <2>1. w \in Busy /\ Busy' = Busy \ {w}
    <3>1. worker[w].group # NoGroup /\ worker'[w].group = NoGroup
      BY <1>7 DEF Delivered, Shape, Verdicts
    <3> QED
      BY <1>7, <3>1 DEF Delivered, Busy, Alone
  <2>2. Cardinality(Busy') = Cardinality(Busy) - 1 /\ Cardinality(Busy) \in Nat
    BY <2>1, BusyIsFinite, FS_RemoveElement
  <2>3. Len(completed') = Len(completed) + 1
    BY <1>7 DEF Delivered, Grown
  <2> QED
    BY <1>0, <1>7, <2>2, <2>3 DEF Delivered, Count, Elements
<1>8. ASSUME NEW w \in Workers, Exited(w) PROVE Count'
  <2>1. Busy' = Busy
    BY <1>8 DEF Exited, Busy, Alone
  <2> QED
    BY <1>8, <2>1 DEF Exited, Count
<1> QED
  BY Effects, <1>1, <1>2, <1>3, <1>4, <1>5, <1>6, <1>7, <1>8

LEMMA ChargedKept ==
  ASSUME Types, Shape, OneHolder, Held, Charged, Next
  PROVE  Charged'
<1>0. Elements
  BY ElementTypes
<1>1. CASE Quiet
  BY <1>1 DEF Quiet, Charged
<1>2. CASE Received
  <2>1. /\ worker' = worker /\ next' = next /\ calls' = calls
        /\ \A i \in 1..Len(completed') : i + 1 \in 1..Len(completed) /\ completed'[i] = completed[i + 1]
        /\ 1 \in 1..Len(completed)
        /\ \A i \in 1..Len(collected') :
             \/ i \in 1..Len(collected) /\ collected'[i] = collected[i]
             \/ collected'[i] = completed[1]
    BY <1>2 DEF Received, Shrunk, Grown
  <2> QED
    BY <2>1 DEF Charged
<1>3. CASE Drained
  <2>1. /\ worker' = worker /\ next' = next /\ calls' = calls /\ Len(completed') = 0
        /\ Joined(collected, completed, collected')
    BY <1>3 DEF Drained
  <2>2. ASSUME NEW i \in 1..Len(collected')
        PROVE  calls[collected'[i].group] = collected'[i].attempts
    <3>1. CASE i \in 1..Len(collected)
      BY <2>1, <3>1 DEF Charged, Joined
    <3>2. CASE i - Len(collected) \in 1..Len(completed)
      <4>1. (i - Len(collected)) + Len(collected) = i
        BY <1>0, <2>1 DEF Elements, Joined
      <4>2. collected'[i] = completed[i - Len(collected)]
        BY <2>1, <3>2, <4>1 DEF Joined
      <4> QED
        BY <3>2, <4>2 DEF Charged
    <3> QED
      BY <2>1, <3>1, <3>2 DEF Joined
  <2> QED
    BY <2>1, <2>2 DEF Charged
<1>4. ASSUME NEW w \in Workers, Sent(w) PROVE Charged'
  <2>1. /\ completed' = completed /\ collected' = collected /\ calls' = calls
        /\ next' = next + 1 /\ next < NumGroups
        /\ worker'[w].group = next + 1 /\ worker'[w].step = "calling" /\ worker'[w].attempts = 1
        /\ \A v \in Workers \ {w} : worker'[v] = worker[v]
    BY <1>4 DEF Sent, Alone
  <2>2. calls[next + 1] = 0
    BY <1>0, <2>1 DEF Charged, Elements, Groups
  <2>3. \A g \in Groups : g > next' => calls[g] = 0
    BY <1>0, <2>1 DEF Charged, Elements, Groups
  <2>4. \A v \in Workers : worker'[v].group # NoGroup =>
          calls[worker'[v].group] =
            IF worker'[v].step = "calling" THEN worker'[v].attempts - 1 ELSE worker'[v].attempts
    BY <2>1, <2>2 DEF Charged
  <2> QED
    BY <2>1, <2>3, <2>4 DEF Charged
<1>5. ASSUME NEW w \in Workers, Attempted(w) PROVE Charged'
  <2> DEFINE g == worker[w].group
  <2>1. /\ completed' = completed /\ collected' = collected /\ next' = next
        /\ worker[w].step = "calling" /\ worker'[w].step # "calling"
        /\ worker'[w].group = g /\ worker'[w].attempts = worker[w].attempts
        /\ \A v \in Workers \ {w} : worker'[v] = worker[v]
    BY <1>5 DEF Attempted, Alone, Verdicts
  <2>2. g \in 1..next /\ g \in Groups /\ g # NoGroup
    BY <1>0, <2>1 DEF Shape, Elements, Groups
  <2>3. calls'[g] = calls[g] + 1 /\ \A h \in Groups \ {g} : calls'[h] = calls[h]
    BY <1>5, <2>2 DEF Attempted, Types
  <2>4. calls'[g] = worker[w].attempts
    BY <1>0, <2>1, <2>2, <2>3 DEF Charged, Elements
  <2>5. /\ \A i \in 1..Len(completed) : completed[i].group \in Groups \ {g}
        /\ \A i \in 1..Len(collected) : collected[i].group \in Groups \ {g}
    BY <1>0 DEF OneHolder, Elements, Outcomes
  <2>6. \A v \in Workers \ {w} : worker[v].group # NoGroup => worker[v].group \in Groups \ {g}
    BY <1>0 DEF OneHolder, Elements
  <2>7. \A h \in Groups : h > next => h \in Groups \ {g}
    BY <1>0, <2>2 DEF Elements, Groups
  <2> HIDE DEF g
  <2>8. \A h \in Groups : h > next' => calls'[h] = 0
    BY <2>1, <2>3, <2>7 DEF Charged
  <2>9. \A v \in Workers : worker'[v].group # NoGroup =>
          calls'[worker'[v].group] =
            IF worker'[v].step = "calling" THEN worker'[v].attempts - 1 ELSE worker'[v].attempts
    BY <2>1, <2>3, <2>4, <2>6 DEF Charged
  <2>10. /\ \A i \in 1..Len(completed) : calls'[completed[i].group] = completed[i].attempts
         /\ \A i \in 1..Len(collected) : calls'[collected[i].group] = collected[i].attempts
    BY <2>3, <2>5 DEF Charged
  <2> QED
    BY <2>1, <2>8, <2>9, <2>10 DEF Charged
<1>6. ASSUME NEW w \in Workers, Retried(w) PROVE Charged'
  <2>1. /\ completed' = completed /\ collected' = collected /\ next' = next /\ calls' = calls
        /\ worker[w].step = "backoff" /\ worker'[w].group = worker[w].group
        /\ \/ worker'[w].step = "calling" /\ worker'[w].attempts = worker[w].attempts + 1
           \/ worker'[w].step = "cancelled" /\ worker'[w].attempts = worker[w].attempts
        /\ \A v \in Workers \ {w} : worker'[v] = worker[v]
    BY <1>6 DEF Retried, Alone
  <2>2. worker[w].group # NoGroup => calls[worker[w].group] = worker[w].attempts
    BY <2>1 DEF Charged
  <2>3. worker'[w].group # NoGroup =>
          calls[worker'[w].group] =
            IF worker'[w].step = "calling" THEN worker'[w].attempts - 1 ELSE worker'[w].attempts
    <3>1. worker[w].attempts \in Int
      BY <1>0 DEF Elements
    <3> QED
      BY <2>1, <2>2, <3>1
  <2> QED
    BY <2>1, <2>3 DEF Charged
<1>7. ASSUME NEW w \in Workers, Delivered(w) PROVE Charged'
  <2>1. /\ collected' = collected /\ next' = next /\ calls' = calls
        /\ worker'[w].group = NoGroup
        /\ \A v \in Workers \ {w} : worker'[v] = worker[v]
        /\ \A i \in 1..Len(completed') :
             \/ i \in 1..Len(completed) /\ completed'[i] = completed[i]
             \/ /\ completed'[i].group = worker[w].group
                /\ completed'[i].attempts = worker[w].attempts
    BY <1>7 DEF Delivered, Alone, Grown, Outcome
  <2>2. worker[w].group # NoGroup /\ worker[w].step # "calling"
    BY <1>7 DEF Delivered, Shape, Verdicts
  <2> QED
    BY <2>1, <2>2 DEF Charged
<1>8. ASSUME NEW w \in Workers, Exited(w) PROVE Charged'
  <2>1. worker[w].group = NoGroup
    BY <1>8 DEF Exited, Shape
  <2> QED
    BY <1>8, <2>1 DEF Exited, Charged, Alone
<1> QED
  BY Effects, <1>1, <1>2, <1>3, <1>4, <1>5, <1>6, <1>7, <1>8

LEMMA TypesKept ==
  ASSUME Types, Shape, Next
  PROVE  Types'
<1>1. loop' \in {"select", "handling", "stopping", "closing", "returned"}
  <2>1. CASE Loop
    BY <2>1 DEF Loop, Types, Send, Receive, Handle, HandlerFails, SeeCancel, Drain, AllReceived, ReturnAll
  <2>2. CASE CancelContext \/ Returned
    BY <2>2 DEF CancelContext, Returned, vars, Types
  <2>3. ASSUME NEW w \in Workers, Work(w) PROVE loop' = loop
    BY <2>3 DEF Work, Attempt, Retry, Deliver, Exit
  <2> QED
    BY <2>1, <2>2, <2>3 DEF Next, Types
<1>2. /\ next' \in 0..NumGroups
      /\ collected' \in Seq(Outcomes) /\ completed' \in Seq(Outcomes)
      /\ worker' \in WorkerStates
  <2>1. CASE Quiet \/ Received
    BY <2>1 DEF Quiet, Received, Types
  <2>2. CASE Drained
    BY <2>2, EmptySeq DEF Drained, Types
  <2>3. ASSUME NEW w \in Workers, Sent(w) PROVE /\ next' \in 0..NumGroups
                   /\ collected' \in Seq(Outcomes) /\ completed' \in Seq(Outcomes)
                   /\ worker' \in WorkerStates
    BY <2>3, ElementTypes DEF Sent, Types, Elements
  <2>4. ASSUME NEW w \in Workers, Attempted(w) \/ Retried(w) \/ Delivered(w) \/ Exited(w)
        PROVE  /\ next' \in 0..NumGroups
                   /\ collected' \in Seq(Outcomes) /\ completed' \in Seq(Outcomes)
                   /\ worker' \in WorkerStates
    BY <2>4 DEF Attempted, Retried, Delivered, Exited, Types
  <2> QED
    BY <2>1, <2>2, <2>3, <2>4, Effects
<1>3. calls' \in [Groups -> Nat]
  <2>1. ASSUME NEW w \in Workers, Attempted(w) PROVE calls' \in [Groups -> Nat]
    <3>1. worker[w].group \in Groups
      BY <2>1, ElementTypes DEF Attempted, Shape, Elements
    <3> QED
      BY <2>1, <3>1 DEF Attempted, Types
  <2>2. CASE UNCHANGED calls
    BY <2>2 DEF Types
  <2> QED
    BY <2>1, <2>2, Effects DEF Quiet, Received, Drained, Sent, Retried, Delivered, Exited
<1> QED
  BY <1>1, <1>2, <1>3 DEF Types

-----------------------------------------------------------------------------
(* A worker's step leaves the loop as it is; after the return there is none. *)
LEMMA WorkerPhases ==
  ASSUME Types, Shape, Phases, NEW w \in Workers, Work(w)
  PROVE  Phases'
<1>1. UNCHANGED <<loop, closed, collected, result, handled, next>>
  BY DEF Work, Attempt, Retry, Deliver, Exit
<1>2. ValidGroups' = ValidGroups
  BY <1>1 DEF ValidGroups
<1>3. ~Done(w)
  BY DEF Work, Attempt, Retry, Deliver, Exit, Done, Verdicts
<1>4. loop # "returned"
  BY <1>3 DEF Phases
<1>5. ~closed => \A v \in Workers : ~Done(v)'
  <2>1. CASE Exited(w)
    BY <2>1 DEF Exited
  <2>2. CASE Attempted(w) \/ Retried(w) \/ Delivered(w)
    BY <2>2 DEF Attempted, Retried, Delivered, Phases, Done, Alone, Verdicts
  <2> QED
    BY <2>1, <2>2, AttemptEffect, RetryEffect, DeliverEffect, ExitEffect DEF Work
<1> QED
  BY <1>1, <1>2, <1>4, <1>5 DEF Phases

LEMMA PhasesKept ==
  ASSUME Types, Shape, Count, Phases, Next
  PROVE  Phases'
<1>0. Elements
  BY ElementTypes
<1>1. ASSUME NEW w \in Workers, Send(w) PROVE Phases'
  <2>1. Sent(w)
    BY <1>1, SendEffect
  <2>2. /\ UNCHANGED <<loop, closed, collected, result, handled>> /\ loop = "select"
    BY <1>1 DEF Send, Selecting
  <2>3. ValidGroups' = ValidGroups
    BY <2>2 DEF ValidGroups
  <2>4. ~closed /\ \A v \in Workers : ~Done(v)'
    BY <2>1, <2>2 DEF Phases, Sent, Alone, Done
  <2> QED
    BY <2>2, <2>3, <2>4 DEF Phases
<1>2. CASE Receive
  <2>1. Grown(collected, collected', completed[1])
    BY <1>2, ReceiveEffect DEF Received
  <2>2. /\ UNCHANGED <<next, result, closed, worker, handled>> /\ loop = "select"
        /\ loop' = IF completed[1].verdict = "valid" THEN "handling" ELSE "select"
    <3>1. Head(completed) = completed[1]
      BY <1>2, Shrinking DEF Receive, Types
    <3> QED
      BY <1>2, <3>1 DEF Receive, Selecting
  <2>3. /\ Len(collected') > 0
        /\ collected'[Len(collected')] = completed[1]
    BY <1>0, <2>1 DEF Grown, Elements
  <2>4. ValidGroups' = ValidGroups \cup (IF completed[1].verdict = "valid"
                                        THEN {completed[1].group} ELSE {})
    BY <2>1 DEF ValidGroups, Grown
  <2> QED
    BY <2>2, <2>3, <2>4 DEF Phases, Done
<1>3. CASE Handle
  <2>1. /\ UNCHANGED <<next, collected, result, closed, worker, completed>>
        /\ loop = "handling" /\ loop' = "select"
        /\ handled' = handled \cup {collected[Len(collected)].group}
    BY <1>3 DEF Handle, Last
  <2>2. ValidGroups' = ValidGroups
    BY <2>1 DEF ValidGroups
  <2> QED
    BY <2>1, <2>2 DEF Phases, Done
<1>4. CASE HandlerFails
  BY <1>4 DEF HandlerFails, Phases, Done
<1>5. CASE SeeCancel
  BY <1>5 DEF SeeCancel, Phases, Done
<1>6. CASE Drain
  BY <1>6 DEF Drain, Phases, Done
<1>7. CASE AllReceived
  <2>1. /\ UNCHANGED <<collected, handled>> /\ loop = "select" /\ loop' = "closing"
        /\ closed' /\ Len(collected) = NumGroups
    BY <1>7 DEF AllReceived
  <2>2. ValidGroups' = ValidGroups
    BY <2>1 DEF ValidGroups
  <2> QED
    BY <2>1, <2>2 DEF Phases
<1>8. CASE ReturnAll
  <2>1. /\ UNCHANGED <<next, collected, closed, worker, completed, handled>>
        /\ loop = "closing" /\ loop' = "returned"
        /\ \A w \in Workers : Done(w)
    BY <1>8 DEF ReturnAll
  <2>2. ValidGroups' = ValidGroups
    BY <2>1 DEF ValidGroups
  <2>3. next = NumGroups /\ Len(completed) = 0
    <3>1. Len(collected) = NumGroups
      BY <2>1 DEF Phases
    <3>2. Cardinality(Busy) \in Nat
      BY BusyIsFinite
    <3> QED
      BY <1>0, <3>1, <3>2 DEF Count, Elements
  <2>4. completed = << >>
    BY <2>3, EmptySeq DEF Types
  <2>5. closed
    BY <2>1, ExecutorAssumption DEF Phases
  <2> QED
    BY <2>1, <2>2, <2>3, <2>4, <2>5 DEF Phases, Done
<1>9. CASE CancelContext
  BY <1>9 DEF CancelContext, Phases, Done, ValidGroups
<1>10. CASE Returned
  BY <1>10 DEF Returned, vars, Phases, Done, ValidGroups
<1>11. ASSUME NEW w \in Workers, Work(w) PROVE Phases'
  BY <1>11, WorkerPhases
<1> QED
  BY <1>1, <1>2, <1>3, <1>4, <1>5, <1>6, <1>7, <1>8, <1>9, <1>10, <1>11 DEF Next, Loop

-----------------------------------------------------------------------------
LEMMA InitHolds == Init => IInv
<1> SUFFICES ASSUME Init PROVE IInv
  OBVIOUS
<1>1. Len(completed) = 0 /\ Len(collected) = 0 /\ next = 0
  BY DEF Init
<1>2. \A w \in Workers : worker[w] = Resting
  BY DEF Init
<1>3. Types
  <2>1. Resting \in [step : WorkerSteps, group : Groups \cup {NoGroup}, attempts : 0..MaxRetries + 1]
    BY ExecutorAssumption DEF Resting, WorkerSteps
  <2>2. \A S : << >> \in Seq(S)
    BY EmptySeq
  <2> QED
    BY <2>1, <2>2, ExecutorAssumption DEF Init, Types, WorkerStates
<1>4. 1..0 = {}
  OBVIOUS
<1>5. Shape /\ OneHolder /\ Held
  BY <1>1, <1>2, <1>4 DEF Shape, OneHolder, Held, Resting
<1>6. Count
  <2>1. Busy = {}
    BY <1>2 DEF Busy, Resting
  <2> QED
    BY <1>1, <2>1, FS_EmptySet DEF Count
<1>7. Charged
  BY <1>1, <1>2, <1>4 DEF Init, Charged, Resting
<1>8. Phases
  <2>1. ValidGroups = {}
    BY <1>1, <1>4 DEF ValidGroups
  <2> QED
    BY <1>2, <2>1 DEF Init, Phases, Done, Resting
<1> QED
  BY <1>3, <1>5, <1>6, <1>7, <1>8 DEF IInv

LEMMA StepKeeps == IInv /\ [Next]_vars => IInv'
<1> SUFFICES ASSUME IInv, [Next]_vars PROVE IInv'
  OBVIOUS
<1>1. CASE Next
  BY <1>1, TypesKept, ShapeKept, OneHolderKept, HeldKept, CountKept, ChargedKept, PhasesKept
  DEF IInv
<1>2. CASE UNCHANGED vars
  <2>1. Types' /\ Shape'
    BY <1>2 DEF vars, IInv, Types, Shape
  <2>2. OneHolder' /\ Held'
    BY <1>2 DEF vars, IInv, OneHolder, Held
  <2>3. Count' /\ Charged'
    BY <1>2 DEF vars, IInv, Count, Busy, Charged
  <2>4. Phases'
    BY <1>2 DEF vars, IInv, Phases, Done, ValidGroups
  <2> QED
    BY <2>1, <2>2, <2>3, <2>4 DEF IInv
<1> QED
  BY <1>1, <1>2

(***************************************************************************)
(* The invariant of Execute, for any pool, groups, retries and failures.   *)
(***************************************************************************)
THEOREM Invariance == Spec => []IInv
  BY InitHolds, StepKeeps, PTL DEF Spec

(***************************************************************************)
(* No group is lost and none is reported twice, whatever is cancelled.     *)
(***************************************************************************)
THEOREM NoGroupLost == Spec => []EachGroupOnce
<1>1. IInv => EachGroupOnce
  <2> SUFFICES ASSUME IInv PROVE EachGroupOnce
    OBVIOUS
  <2> DEFINE both == completed \o collected
             groups == [i \in 1..Len(both) |-> both[i].group]
  <2>0. Elements
    BY ElementTypes DEF IInv
  <2>1. Joined(completed, collected, both)
    BY Joining DEF IInv, Types
  <2>2. Len(both) \in Nat
    BY <2>0, <2>1 DEF Joined, Elements
  <2>3. Len(groups) = Len(both) /\ DOMAIN groups = 1..Len(both)
    BY <2>2
  <2>4. ToSet(groups) = { both[i].group : i \in 1..Len(both) }
    BY <2>3 DEF ToSet
  <2> HIDE DEF both, groups
  <2>5. { both[i].group : i \in 1..Len(both) }
          = { completed[i].group : i \in 1..Len(completed) }
            \cup { collected[i].group : i \in 1..Len(collected) }
    <3>1. \A i \in 1..Len(both) : (i - Len(completed)) + Len(completed) = i
      BY <2>0, <2>2 DEF Elements
    <3>2. \A i \in 1..Len(both) :
            \/ i \in 1..Len(completed) /\ both[i] = completed[i]
            \/ /\ i - Len(completed) \in 1..Len(collected)
               /\ both[i] = collected[i - Len(completed)]
      BY <2>1, <3>1 DEF Joined
    <3>3. \A i \in 1..Len(completed) : i \in 1..Len(both) /\ both[i] = completed[i]
      BY <2>1 DEF Joined
    <3>4. \A i \in 1..Len(collected) :
            i + Len(completed) \in 1..Len(both) /\ both[i + Len(completed)] = collected[i]
      BY <2>1 DEF Joined
    <3> QED
      BY SMTT(30), <3>2, <3>3, <3>4
  <2>6. \A w \in Busy : w \in Workers /\ worker[w].group \in 1..next
    BY DEF Busy, IInv, Shape
  <2>7. \A w \in Workers : worker[w].group \in 1..next => w \in Busy
    BY <2>0 DEF Busy, Elements, Groups
  <2>8. ToSet(groups) \cup { worker[w].group : w \in Busy } = 1..next
    <3>1. ASSUME NEW g \in 1..next
          PROVE  \/ g \in { worker[w].group : w \in Busy }
                 \/ g \in { completed[i].group : i \in 1..Len(completed) }
                 \/ g \in { collected[i].group : i \in 1..Len(collected) }
      BY <2>7 DEF IInv, Held
    <3>2. /\ \A i \in 1..Len(completed) : completed[i].group \in 1..next
          /\ \A i \in 1..Len(collected) : collected[i].group \in 1..next
      BY DEF IInv, Held
    <3> QED
      BY ZenonT(60), <2>4, <2>5, <2>6, <3>1, <3>2
  <2>9. Len(groups) + Cardinality(Busy) = next
    BY <2>1, <2>3 DEF IInv, Count, Joined
  <2> QED
    BY <2>8, <2>9 DEF EachGroupOnce, both, groups
<1> QED
  BY <1>1, Invariance, PTL

(***************************************************************************)
(* When Execute returns it accounts for every group it sent and for every  *)
(* provider call it made; a clean return handled every valid answer.       *)
(***************************************************************************)
THEOREM ReturnIsComplete == Spec => []ReturnAccounts
<1>1. IInv => ReturnAccounts
  <2> SUFFICES ASSUME IInv PROVE ReturnAccounts
    OBVIOUS
  <2>0. Elements
    BY ElementTypes DEF IInv
  <2>1. AttemptsCharged
    <3>1. ASSUME NEW g \in Groups
          PROVE  calls[g] <= MaxRetries + 1
      <4>1. CASE g > next
        BY <2>0, <4>1 DEF IInv, Charged, Elements
      <4>2. ASSUME NEW w \in Workers, worker[w].group = g
            PROVE  calls[g] <= MaxRetries + 1
        <5>1. g # NoGroup
          BY <2>0 DEF Elements
        <5> QED
          BY <2>0, <4>2, <5>1 DEF IInv, Charged, Elements
      <4>3. ASSUME NEW i \in 1..Len(completed), completed[i].group = g
            PROVE  calls[g] <= MaxRetries + 1
        BY <2>0, <4>3 DEF IInv, Charged, Elements, Outcomes
      <4>4. ASSUME NEW i \in 1..Len(collected), collected[i].group = g
            PROVE  calls[g] <= MaxRetries + 1
        BY <2>0, <4>4 DEF IInv, Charged, Elements, Outcomes
      <4>5. g > next \/ g \in 1..next
        BY <2>0 DEF Elements, Groups
      <4> QED
        BY <4>1, <4>2, <4>3, <4>4, <4>5 DEF IInv, Held
    <3> QED
      BY <3>1 DEF AttemptsCharged, IInv, Charged
  <2>2. ASSUME loop = "returned"
        PROVE  { collected[i].group : i \in 1..Len(collected) } = 1..next
    <3>1. Len(completed) = 0 /\ \A w \in Workers : Done(w)
      BY <2>2 DEF IInv, Phases
    <3>2. \A w \in Workers : worker[w].group \notin 1..next
      BY <2>0, <3>1 DEF IInv, Shape, Done, Elements, Groups
    <3> QED
      BY <3>1, <3>2 DEF IInv, Held
  <2>3. ValidGroups = { o.group : o \in { p \in ToSet(collected) : p.verdict = "valid" } }
    <3>1. ToSet(collected) = { collected[i] : i \in 1..Len(collected) }
      BY DEF ToSet, IInv, Types
    <3> QED
      BY <3>1 DEF ValidGroups
  <2>4. loop = "returned" =>
          /\ \A w \in Workers : Done(w)
          /\ result = "ok" => next = NumGroups /\ handled = ValidGroups
    BY DEF IInv, Phases
  <2> QED
    BY <2>1, <2>2, <2>3, <2>4 DEF ReturnAccounts
<1> QED
  BY <1>1, Invariance, PTL

(***************************************************************************)
(* The accounts of Execute are complete at every moment and at its return. *)
(***************************************************************************)
THEOREM GroupsAreAccounted == Spec => []GroupsAccounted
<1>1. EachGroupOnce /\ ReturnAccounts => GroupsAccounted
  BY DEF GroupsAccounted
<1> QED
  BY <1>1, NoGroupLost, ReturnIsComplete, PTL

-----------------------------------------------------------------------------
(* Implements: what the caller relies on, step by step.  Two more facts    *)
(* make the invariant strong enough: an attempt is counted before it is    *)
(* made, and the result is set when the loop stops or returns, not before, *)
(* with execCtx done from then on.                                         *)
Tried ==
  \A w \in Workers : worker[w].step \in {"calling", "backoff"} => worker[w].attempts >= 1

Ended ==
  /\ loop \in {"stopping", "returned"} <=> result # "none"
  /\ loop = "stopping" => execDone

EInv == IInv /\ Tried /\ Ended

LEMMA TriedKept ==
  ASSUME IInv, Tried, Next
  PROVE  Tried'
<1>1. Types /\ Shape /\ Elements
  BY ElementTypes DEF IInv
<1>2. CASE UNCHANGED worker
  BY <1>2 DEF Tried
<1>3. ASSUME NEW w \in Workers, Alone(w),
             worker'[w].step \in {"calling", "backoff"} => worker'[w].attempts >= 1
      PROVE  Tried'
  BY <1>3 DEF Tried, Alone
<1>4. ASSUME NEW w \in Workers, Send(w) PROVE Tried'
  BY <1>1, <1>3, <1>4, SendEffect DEF Sent
<1>5. ASSUME NEW w \in Workers, Attempt(w) PROVE Tried'
  BY <1>1, <1>3, <1>5, AttemptEffect DEF Attempted, Tried
<1>6. ASSUME NEW w \in Workers, Retry(w) PROVE Tried'
  <2>1. Retried(w) /\ worker[w].attempts \in 0..MaxRetries + 1 /\ MaxRetries \in Nat
    BY <1>1, <1>6, RetryEffect DEF Elements
  <2> QED
    BY <1>3, <2>1 DEF Retried
<1>7. ASSUME NEW w \in Workers, Deliver(w) PROVE Tried'
  BY <1>1, <1>3, <1>7, DeliverEffect DEF Delivered
<1>8. ASSUME NEW w \in Workers, Exit(w) PROVE Tried'
  BY <1>1, <1>3, <1>8, ExitEffect DEF Exited
<1>9. CASE Receive \/ Handle \/ HandlerFails \/ SeeCancel \/ Drain \/ AllReceived \/ ReturnAll
  BY <1>2, <1>9 DEF Receive, Handle, HandlerFails, SeeCancel, Drain, AllReceived, ReturnAll
<1>10. CASE CancelContext \/ Returned
  BY <1>2, <1>10 DEF CancelContext, Returned, vars
<1> QED
  BY <1>4, <1>5, <1>6, <1>7, <1>8, <1>9, <1>10 DEF Next, Loop, Work

LEMMA EndedKept ==
  ASSUME Ended, Next
  PROVE  Ended'
<1>1. ASSUME NEW w \in Workers, Work(w) PROVE Ended'
  BY <1>1 DEF Ended, Work, Attempt, Retry, Deliver, Exit
<1>2. ASSUME NEW w \in Workers, Send(w) PROVE Ended'
  BY <1>2 DEF Ended, Send
<1>3. CASE Receive
  BY <1>3 DEF Ended, Receive, Selecting
<1>4. CASE Handle \/ HandlerFails \/ SeeCancel \/ Drain \/ AllReceived \/ ReturnAll
  BY <1>4 DEF Ended, Handle, HandlerFails, SeeCancel, Selecting, Drain, AllReceived, ReturnAll
<1>5. CASE CancelContext \/ Returned
  BY <1>5 DEF Ended, CancelContext, Returned, vars
<1> QED
  BY <1>1, <1>2, <1>3, <1>4, <1>5 DEF Next, Loop

LEMMA EInvHolds == Spec => []EInv
<1>1. Init => EInv
  BY InitHolds DEF Init, EInv, Tried, Ended, Resting
<1>2. EInv /\ [Next]_vars => EInv'
  <2>1. ASSUME EInv, Next PROVE EInv'
    BY <2>1, StepKeeps, TriedKept, EndedKept DEF EInv
  <2>2. ASSUME EInv, UNCHANGED vars PROVE EInv'
    BY <2>2, StepKeeps DEF EInv, Tried, Ended, vars
  <2> QED
    BY <2>1, <2>2
<1> QED
  BY <1>1, <1>2, PTL DEF Spec

-----------------------------------------------------------------------------
(* What is in the air and what has come back, element by element.          *)
InFlight(w) == worker[w].step \in {"calling", "backoff"}
Holding(w) == worker[w].step \in Verdicts

LEMMA Aloft ==
  /\ \A g : g \in Flying <=> \E w \in Workers : InFlight(w) /\ worker[w].group = g
  /\ \A g : g \in Flying' <=> \E w \in Workers : InFlight(w)' /\ worker'[w].group = g
  BY DEF Flying, InFlight

LEMMA Back ==
  /\ \A o : o \in Arrived <=> o \in ToSet(completed) \/ \E w \in Workers : Holding(w) /\ Outcome(w) = o
  /\ \A o : o \in Arrived' <=>
       o \in ToSet(completed)' \/ \E w \in Workers : Holding(w)' /\ Outcome(w)' = o
  BY DEF Arrived, Holding

LEMMA InSequence ==
  ASSUME NEW s, NEW S, s \in Seq(S)
  PROVE  \A x : x \in ToSet(s) <=> \E i \in 1..Len(s) : s[i] = x
<1>1. DOMAIN s = 1..Len(s)
  BY LenProperties
<1> QED
  BY <1>1 DEF ToSet

LEMMA SendRefined ==
  ASSUME EInv, NEW w \in Workers, Send(w)
  PROVE  E!Send
<1>1. Sent(w) /\ Elements /\ loop = "select" /\ UNCHANGED <<loop, result, handled>>
  BY SendEffect, ElementTypes DEF EInv, IInv, Send, Selecting
<1>2. result = "none"
  BY <1>1 DEF EInv, Ended
<1>3. Cardinality(Flying) < Cardinality(Workers)
  <2> DEFINE F == {v \in Workers : worker[v].step \in {"calling", "backoff"}}
             f == [v \in F |-> worker[v].group]
  <2>1. w \notin F /\ F \in SUBSET Workers
    BY <1>1 DEF Sent
  <2>2. Flying = {f[v] : v \in F}
    BY DEF Flying
  <2>3. DOMAIN f = F /\ f = [v \in F |-> f[v]]
    OBVIOUS
  <2> HIDE DEF F, f
  <2>4. IsFiniteSet(Workers)
    BY ExecutorAssumption
  <2>5. /\ Cardinality(F) \in Nat /\ Cardinality(Workers) \in Nat
        /\ Cardinality(F) < Cardinality(Workers)
    BY <2>1, <2>4, ProperPart
  <2>6. IsFiniteSet(F)
    BY <2>1, <2>4, FS_Subset
  <2>7. /\ IsFiniteSet({f[v] : v \in F})
        /\ Cardinality({f[v] : v \in F}) <= Cardinality(F)
    BY <2>3, <2>6, Values
  <2>8. Cardinality(Flying) \in Nat /\ Cardinality(Flying) <= Cardinality(F)
    BY <2>2, <2>7, FS_CardinalityType
  <2> QED
    BY <2>5, <2>8
<1>4. /\ next + 1 \in next + 1..NumGroups
      /\ next' + 1..NumGroups = (next + 1..NumGroups) \ {next + 1}
  BY <1>1 DEF Sent, Elements
<1>5. Flying' = Flying \cup {next + 1}
  <2>1. InFlight(w)' /\ ~InFlight(w) /\ worker'[w].group = next + 1
    BY <1>1 DEF Sent, InFlight
  <2>2. \A v \in Workers \ {w} : worker'[v] = worker[v] /\ (InFlight(v)' <=> InFlight(v))
    BY <1>1 DEF Sent, Alone, InFlight
  <2> QED
    BY <2>1, <2>2, Aloft, Zenon
<1>6. Arrived' = Arrived
  <2>1. ~Holding(w)' /\ ~Holding(w) /\ completed' = completed
    BY <1>1 DEF Sent, Holding, Verdicts
  <2>2. \A v \in Workers \ {w} : Outcome(v)' = Outcome(v) /\ (Holding(v)' <=> Holding(v))
    BY <1>1 DEF Sent, Alone, Holding, Outcome
  <2> QED
    BY <2>1, <2>2, Back
<1>7. ToSet(collected)' = ToSet(collected) /\ Last(collected)' = Last(collected)
  BY <1>1 DEF Sent
<1>8. E!Cardinality(Flying) = Cardinality(Flying)
  BY Zenon DEF E!Cardinality, Cardinality
<1>9. E!Cardinality(Flying) < Cardinality(Workers)
  BY <1>3, <1>8
<1> QED
  BY <1>1, <1>2, <1>4, <1>5, <1>6, <1>7, <1>9 DEF E!Send, E!Running

-----------------------------------------------------------------------------
(* A worker steps; the loop does not.                                      *)
Elsewhere == UNCHANGED <<loop, next, collected, result, handled>>

(* It holds an answer now: Answer.                                         *)
LEMMA Landing ==
  ASSUME EInv, NEW w \in Workers, InFlight(w), Holding(w)', Alone(w), Elsewhere, completed' = completed,
         worker'[w].group = worker[w].group, worker'[w].attempts = worker[w].attempts,
         execDone => worker'[w].step = "cancelled"
  PROVE  E!Answer
<1>1. Elements /\ OneHolder
  BY ElementTypes DEF EInv, IInv
<1> DEFINE g == worker[w].group
<1>2. loop # "returned"
  BY DEF EInv, IInv, Phases, Done, InFlight
<1>3. g # NoGroup /\ (result # "none" => worker'[w].step = "cancelled")
  BY <1>2 DEF EInv, IInv, Shape, InFlight, Ended
<1>4. g \in Flying
  BY Aloft
<1>5. Outcome(w)' = [group |-> g, verdict |-> worker'[w].step, attempts |-> worker[w].attempts]
  BY DEF Outcome
<1>6. worker'[w].step \in Verdicts /\ worker[w].attempts \in 1..MaxRetries + 1
  BY <1>1 DEF Holding, EInv, Tried, InFlight, Elements
<1>7. Flying' = Flying \ {g}
  <2>1. ~InFlight(w)'
    BY DEF InFlight, Holding, Verdicts
  <2>2. \A v \in Workers \ {w} :
          worker'[v] = worker[v] /\ (InFlight(v)' <=> InFlight(v)) /\ worker[v].group # g
    BY <1>1, <1>3 DEF Alone, InFlight, OneHolder
  <2> HIDE DEF g
  <2>3. worker[w].group = g
    BY DEF g
  <2>4. \A v \in Workers : InFlight(v)' <=> v # w /\ InFlight(v)
    BY <2>1, <2>2
  <2>5. \A v \in Workers : v # w => worker'[v] = worker[v] /\ worker[v].group # g
    BY <2>2
  <2>6. \A x : x \in Flying' <=> x \in Flying /\ x # g
    <3> TAKE x
    <3>1. ASSUME NEW v \in Workers, InFlight(v)', worker'[v].group = x
          PROVE  x \in Flying /\ x # g
      <4>1. v # w /\ InFlight(v)
        BY <2>4, <3>1
      <4>2. worker[v].group = x /\ x # g
        BY <2>5, <3>1, <4>1
      <4> QED
        BY <4>1, <4>2, Aloft, Zenon
    <3>2. ASSUME NEW v \in Workers, InFlight(v), worker[v].group = x, x # g
          PROVE  x \in Flying'
      <4>1. v # w
        BY <2>3, <3>2
      <4>2. InFlight(v)' /\ worker'[v].group = x
        BY <2>4, <2>5, <3>2, <4>1
      <4> QED
        BY <4>2, Aloft, Zenon
    <3> QED
      BY <3>1, <3>2, Aloft, Zenon
  <2> QED
    BY <2>6
<1>8. Arrived' = Arrived \cup {Outcome(w)'}
  <2>1. ~Holding(w)
    BY DEF InFlight, Holding, Verdicts
  <2>2. \A v \in Workers \ {w} : Outcome(v)' = Outcome(v) /\ (Holding(v)' <=> Holding(v))
    BY DEF Alone, Holding, Outcome
  <2>3. ToSet(completed)' = ToSet(completed)
    OBVIOUS
  <2> QED
    BY <2>1, <2>2, <2>3, Back, Zenon
<1>9. /\ ToSet(collected)' = ToSet(collected) /\ Last(collected)' = Last(collected)
      /\ UNCHANGED <<loop, next, result, handled>>
  BY DEF Elsewhere
<1> HIDE DEF g
<1> QED
  BY <1>2, <1>3, <1>4, <1>5, <1>6, <1>7, <1>8, <1>9 DEF E!Answer, E!Running

(* It holds none before or after: nothing the caller sees.                 *)
LEMMA NotSeen ==
  ASSUME NEW w \in Workers, InFlight(w) <=> InFlight(w)', ~Holding(w), ~Holding(w)', Alone(w),
         Elsewhere, completed' = completed, worker'[w].group = worker[w].group
  PROVE  UNCHANGED E!executionVars
<1>1. Flying' = Flying
  <2>1. \A v \in Workers : worker'[v].group = worker[v].group /\ (InFlight(v)' <=> InFlight(v))
    BY DEF Alone, InFlight
  <2> QED
    BY <2>1, Aloft, Zenon
<1>2. Arrived' = Arrived
  <2>1. \A v \in Workers \ {w} : Outcome(v)' = Outcome(v) /\ (Holding(v)' <=> Holding(v))
    BY DEF Alone, Holding, Outcome
  <2>2. ToSet(completed)' = ToSet(completed)
    OBVIOUS
  <2> QED
    BY <2>1, <2>2, Back, Zenon
<1>3. /\ ToSet(collected)' = ToSet(collected) /\ Last(collected)' = Last(collected)
      /\ UNCHANGED <<loop, next, result, handled>>
  BY DEF Elsewhere
<1> QED
  BY <1>1, <1>2, <1>3 DEF E!executionVars

LEMMA DeliverNotSeen ==
  ASSUME EInv, NEW w \in Workers, Deliver(w)
  PROVE  UNCHANGED E!executionVars
<1>1. Delivered(w) /\ Elements /\ completed \in Seq(Outcomes)
  BY DeliverEffect, ElementTypes DEF EInv, IInv, Types
<1>2. Elsewhere
  BY DEF Deliver, Elsewhere
<1>3. ~InFlight(w) /\ Holding(w) /\ ~InFlight(w)' /\ ~Holding(w)'
  BY <1>1 DEF Delivered, InFlight, Holding, Verdicts
<1>4. Flying' = Flying
  <2>1. \A v \in Workers \ {w} : worker'[v].group = worker[v].group /\ (InFlight(v)' <=> InFlight(v))
    BY <1>1 DEF Delivered, Alone, InFlight
  <2> QED
    BY <1>3, <2>1, Aloft, Zenon
<1>5. Arrived' = Arrived
  <2>1. \A v \in Workers \ {w} : Outcome(v)' = Outcome(v) /\ (Holding(v)' <=> Holding(v))
    BY <1>1 DEF Delivered, Alone, Holding, Outcome
  <2>2. ToSet(completed)' = ToSet(completed) \cup {Outcome(w)}
    <3>1. completed' \in Seq(Outcomes) /\ Grown(completed, completed', Outcome(w))
      BY <1>1 DEF Delivered
    <3>2. \A x : x \in ToSet(completed) <=> \E i \in 1..Len(completed) : completed[i] = x
      BY <1>1, InSequence
    <3>3. \A x : x \in ToSet(completed') <=> \E i \in 1..Len(completed') : completed'[i] = x
      BY <3>1, InSequence
    <3>4. \A x : (\E i \in 1..Len(completed') : completed'[i] = x)
                <=> x = Outcome(w) \/ \E i \in 1..Len(completed) : completed[i] = x
      BY <3>1, Zenon DEF Grown
    <3> QED
      BY <3>2, <3>3, <3>4
  <2> QED
    BY <1>3, <2>1, <2>2, Back, Zenon
<1>6. /\ ToSet(collected)' = ToSet(collected) /\ Last(collected)' = Last(collected)
      /\ UNCHANGED <<loop, next, result, handled>>
  BY <1>2 DEF Elsewhere
<1> QED
  BY <1>4, <1>5, <1>6 DEF E!executionVars

LEMMA WorkRefined ==
  ASSUME EInv, NEW w \in Workers, Work(w)
  PROVE  E!Answer \/ UNCHANGED E!executionVars
<1>0. Types /\ Shape
  BY DEF EInv, IInv
<1>1. CASE Attempt(w)
  <2>1. Attempted(w) /\ Elsewhere /\ completed' = completed
    BY <1>0, <1>1, AttemptEffect DEF Attempt, Attempted, Elsewhere
  <2>2. InFlight(w) /\ ~Holding(w)
    BY <2>1 DEF Attempted, InFlight, Holding, Verdicts
  <2>3. CASE worker'[w].step = "backoff"
    <3>1. InFlight(w)' /\ ~Holding(w)'
      BY <2>3 DEF InFlight, Holding, Verdicts
    <3> QED
      BY <2>1, <2>2, <3>1, NotSeen DEF Attempted
  <2>4. CASE worker'[w].step \in Verdicts
    <3>1. Holding(w)'
      BY <2>4 DEF Holding
    <3>2. execDone => worker'[w].step = "cancelled"
      <4>1. "cancelled" \in WorkerSteps
        BY DEF WorkerSteps, Verdicts
      <4> QED
        BY <1>0, <1>1, <4>1, Stepped DEF Attempt, Finish
    <3> QED
      BY <2>1, <2>2, <3>1, <3>2, Landing DEF Attempted
  <2> QED
    BY <2>1, <2>3, <2>4 DEF Attempted
<1>2. CASE Retry(w)
  <2>1. Retried(w) /\ Elsewhere /\ completed' = completed
    BY <1>0, <1>2, RetryEffect DEF Retry, Retried, Elsewhere
  <2>2. InFlight(w) /\ ~Holding(w)
    BY <2>1 DEF Retried, InFlight, Holding, Verdicts
  <2>3. CASE worker'[w].step = "calling"
    <3>1. InFlight(w)' /\ ~Holding(w)'
      BY <2>3 DEF InFlight, Holding, Verdicts
    <3> QED
      BY <2>1, <2>2, <3>1, NotSeen DEF Retried
  <2>4. CASE worker'[w].step = "cancelled" /\ worker'[w].attempts = worker[w].attempts
    <3>1. Holding(w)'
      BY <2>4 DEF Holding, Verdicts
    <3> QED
      BY <2>1, <2>2, <2>4, <3>1, Landing DEF Retried
  <2> QED
    BY <2>1, <2>3, <2>4 DEF Retried
<1>3. CASE Deliver(w)
  BY <1>3, DeliverNotSeen
<1>4. CASE Exit(w)
  <2>1. Exited(w) /\ Elsewhere /\ completed' = completed
    BY <1>0, <1>4, ExitEffect DEF Exit, Exited, Elsewhere
  <2>2. ~InFlight(w) /\ ~Holding(w) /\ ~InFlight(w)' /\ ~Holding(w)'
    BY <2>1 DEF Exited, InFlight, Holding, Verdicts
  <2> QED
    BY <2>1, <2>2, NotSeen DEF Exited
<1> QED
  BY <1>1, <1>2, <1>3, <1>4 DEF Work

-----------------------------------------------------------------------------
(* The loop steps; no worker does.                                         *)
LEMMA PoolAtRest ==
  ASSUME UNCHANGED worker
  PROVE  Flying' = Flying /\ (UNCHANGED completed => Arrived' = Arrived)
  BY DEF Flying, Arrived, Outcome

LEMMA ReceiveRefined ==
  ASSUME EInv, Receive
  PROVE  E!Collect
<1> DEFINE o == completed[1]
<1>1. Received /\ Elements /\ OneHolder /\ completed \in Seq(Outcomes) /\ collected \in Seq(Outcomes)
  BY ReceiveEffect, ElementTypes DEF EInv, IInv, Types
<1>2. /\ loop = "select" /\ result = "none" /\ UNCHANGED <<next, result, handled, worker>>
      /\ loop' = IF o.verdict = "valid" THEN "handling" ELSE "select"
  <2>1. Head(completed) = o
    BY <1>1, Shrinking DEF Receive
  <2> QED
    BY <2>1 DEF Receive, Selecting, EInv, Ended
<1>3. /\ completed' \in Seq(Outcomes) /\ collected' \in Seq(Outcomes)
      /\ Shrunk(completed, completed') /\ Grown(collected, collected', o)
  BY <1>1 DEF Received
<1>4. Last(collected') = o
  BY <1>3 DEF Grown, Last
<1>5. Flying' = Flying
  BY <1>2, PoolAtRest
<1>6. 1 \in 1..Len(completed)
  BY <1>3 DEF Shrunk
<1>7. \A x : x \in ToSet(completed) <=> \E i \in 1..Len(completed) : completed[i] = x
  BY <1>1, InSequence
<1>8. \A x : x \in ToSet(completed') <=> \E i \in 1..Len(completed') : completed'[i] = x
  BY <1>3, InSequence
<1>9. ToSet(collected') = ToSet(collected) \cup {o}
  <2>1. \A x : x \in ToSet(collected) <=> \E i \in 1..Len(collected) : collected[i] = x
    BY <1>1, InSequence
  <2>2. \A x : x \in ToSet(collected') <=> \E i \in 1..Len(collected') : collected'[i] = x
    BY <1>3, InSequence
  <2> HIDE DEF o
  <2>3. \A x : (\E i \in 1..Len(collected') : collected'[i] = x)
               <=> x = o \/ \E i \in 1..Len(collected) : collected[i] = x
    BY <1>3, Zenon DEF Grown
  <2> QED
    BY <2>1, <2>2, <2>3
<1>10. \A w \in Workers : Outcome(w) # o /\ Outcome(w)' = Outcome(w) /\ (Holding(w)' <=> Holding(w))
  <2>1. \A w \in Workers : Outcome(w).group # o.group
    BY <1>1, <1>6 DEF OneHolder, Outcome
  <2> QED
    BY <1>2, <2>1 DEF Outcome, Holding
<1>11. ToSet(completed') = ToSet(completed) \ {o}
  <2>1. \A i \in 1..Len(completed') : completed'[i] = completed[i + 1] /\ i + 1 \in 1..Len(completed)
                                      /\ i + 1 # 1
    BY <1>3 DEF Shrunk
  <2>2. \A i \in 1..Len(completed) : i # 1 => completed[i] # o
    BY <1>1, <1>6 DEF OneHolder
  <2>3. \A i \in 1..Len(completed) : i = 1 \/ \E j \in 1..Len(completed') : completed'[j] = completed[i]
    BY <1>3, Zenon DEF Shrunk
  <2>4. \A x : (\E i \in 1..Len(completed') : completed'[i] = x)
               <=> x # o /\ \E i \in 1..Len(completed) : completed[i] = x
    <3> TAKE x
    <3>1. ASSUME NEW i \in 1..Len(completed'), completed'[i] = x
          PROVE  x # o /\ \E j \in 1..Len(completed) : completed[j] = x
      BY <2>1, <2>2, <3>1
    <3>2. ASSUME NEW i \in 1..Len(completed), completed[i] = x, x # o
          PROVE  \E j \in 1..Len(completed') : completed'[j] = x
      BY <2>3, <3>2
    <3> QED
      BY <3>1, <3>2
  <2> HIDE DEF o
  <2> QED
    BY <1>7, <1>8, <2>4
<1>12. o \in Arrived
  BY <1>6, <1>7, Back
<1>13. Arrived' = Arrived \ {o}
  <2> HIDE DEF o
  <2>1. ToSet(completed)' = ToSet(completed) \ {o}
    BY <1>11
  <2> QED
    BY <1>10, <2>1, Back, Zenon
<1> HIDE DEF o
<1> QED
  BY <1>2, <1>4, <1>5, <1>9, <1>12, <1>13 DEF E!Collect, E!Running

LEMMA DrainRefined ==
  ASSUME EInv, Drain
  PROVE  E!Drain
<1>1. Drained /\ completed \in Seq(Outcomes) /\ collected \in Seq(Outcomes)
  BY DrainEffect DEF EInv, IInv, Types
<1>2. /\ loop = "stopping" /\ loop' = "returned" /\ result # "none"
      /\ UNCHANGED <<next, result, handled, worker>>
  BY DEF Drain, EInv, Ended
<1>3. \A w \in Workers : ~InFlight(w) /\ ~Holding(w) /\ ~Holding(w)'
  BY <1>1, <1>2 DEF Drained, Done, InFlight, Holding, Verdicts
<1>4. Flying = {} /\ Flying' = {}
  <2>1. Flying = {}
    BY <1>3, Aloft
  <2> QED
    BY <1>2, <2>1, PoolAtRest
<1>5. Arrived = ToSet(completed)
  BY <1>3, Back
<1>6. Arrived' = {}
  <2>1. ToSet(completed') = {}
    BY <1>1 DEF Drained, ToSet
  <2> QED
    BY <1>3, <2>1, Back
<1>7. ToSet(collected') = ToSet(collected) \cup ToSet(completed)
  <2>1. collected' \in Seq(Outcomes) /\ Joined(collected, completed, collected')
    BY <1>1 DEF Drained
  <2>2. /\ \A x : x \in ToSet(collected) <=> \E i \in 1..Len(collected) : collected[i] = x
        /\ \A x : x \in ToSet(completed) <=> \E i \in 1..Len(completed) : completed[i] = x
        /\ \A x : x \in ToSet(collected') <=> \E i \in 1..Len(collected') : collected'[i] = x
    BY <1>1, <2>1, InSequence
  <2>3. Len(collected) \in Nat /\ \A i \in 1..Len(collected') : (i - Len(collected)) + Len(collected) = i
    BY <1>1, LenProperties
  <2>4. \A i \in 1..Len(collected') :
          \/ i \in 1..Len(collected) /\ collected'[i] = collected[i]
          \/ i - Len(collected) \in 1..Len(completed) /\ collected'[i] = completed[i - Len(collected)]
    BY <2>1, <2>3 DEF Joined
  <2>5. /\ \A i \in 1..Len(collected) : i \in 1..Len(collected') /\ collected'[i] = collected[i]
        /\ \A i \in 1..Len(completed) :
             i + Len(collected) \in 1..Len(collected') /\ collected'[i + Len(collected)] = completed[i]
    BY <2>1 DEF Joined
  <2>6. \A x : (\E i \in 1..Len(collected') : collected'[i] = x)
               <=> \/ \E i \in 1..Len(collected) : collected[i] = x
                   \/ \E i \in 1..Len(completed) : completed[i] = x
    BY <2>4, <2>5, Zenon
  <2> QED
    BY <2>2, <2>6
<1> QED
  BY <1>2, <1>4, <1>5, <1>6, <1>7 DEF E!Drain, E!Running

LEMMA ReturnRefined ==
  ASSUME EInv, ReturnAll
  PROVE  E!Finish
<1>1. /\ loop = "closing" /\ loop' = "returned" /\ \A w \in Workers : Done(w)
      /\ result' \in {"ok", "cancelled"}
      /\ UNCHANGED <<next, collected, worker, completed, handled>>
  BY DEF ReturnAll
<1>2. result = "none"
  BY <1>1 DEF EInv, Ended
<1>3. next = NumGroups /\ completed = << >>
  <2>1. Len(collected) = NumGroups /\ Elements
    BY <1>1, ElementTypes DEF EInv, IInv, Phases
  <2>2. Cardinality(Busy) \in Nat
    BY BusyIsFinite
  <2>3. next = NumGroups /\ Len(completed) = 0
    BY <2>1, <2>2 DEF EInv, IInv, Count, Elements
  <2> QED
    BY <2>3, EmptySeq DEF EInv, IInv, Types
<1>4. next + 1..NumGroups = {}
  BY <1>3, ExecutorAssumption
<1>5. \A w \in Workers : ~InFlight(w) /\ ~Holding(w)
  BY <1>1 DEF Done, InFlight, Holding, Verdicts
<1>6. Flying = {}
  BY <1>5, Aloft
<1>7. Arrived = {}
  <2>1. ToSet(completed) = {}
    BY <1>3 DEF ToSet
  <2> QED
    BY <1>5, <2>1, Back
<1>8. Flying' = Flying /\ Arrived' = Arrived
  BY <1>1, PoolAtRest
<1> QED
  BY <1>1, <1>2, <1>4, <1>6, <1>7, <1>8 DEF E!Finish, E!Running

LEMMA LoopRefined ==
  ASSUME EInv, Loop \/ CancelContext \/ Returned
  PROVE  E!Next \/ UNCHANGED E!executionVars
<1>1. ASSUME NEW w \in Workers, Send(w) PROVE E!Next
  BY <1>1, SendRefined DEF E!Next
<1>2. CASE Receive
  BY <1>2, ReceiveRefined DEF E!Next
<1>3. CASE Handle
  <2>1. Flying' = Flying /\ Arrived' = Arrived
    BY <1>3, PoolAtRest DEF Handle
  <2>2. E!Accept
    BY <1>3, <2>1 DEF Handle, EInv, Ended, E!Accept, E!Running
  <2> QED
    BY <2>2 DEF E!Next
<1>4. CASE HandlerFails
  <2>1. Flying' = Flying /\ Arrived' = Arrived
    BY <1>4, PoolAtRest DEF HandlerFails
  <2>2. E!Stop
    BY <1>4, <2>1 DEF HandlerFails, EInv, Ended, E!Stop, E!Running
  <2> QED
    BY <2>2 DEF E!Next
<1>5. CASE SeeCancel
  <2>1. Flying' = Flying /\ Arrived' = Arrived
    BY <1>5, PoolAtRest DEF SeeCancel
  <2>2. E!Stop
    BY <1>5, <2>1 DEF SeeCancel, Selecting, EInv, Ended, E!Stop, E!Running
  <2> QED
    BY <2>2 DEF E!Next
<1>6. CASE Drain
  BY <1>6, DrainRefined DEF E!Next
<1>7. CASE AllReceived
  <2>1. Flying' = Flying /\ Arrived' = Arrived
    BY <1>7, PoolAtRest DEF AllReceived
  <2> QED
    BY <1>7, <2>1 DEF AllReceived, E!executionVars
<1>8. CASE ReturnAll
  BY <1>8, ReturnRefined DEF E!Next
<1>9. CASE CancelContext
  <2>1. Flying' = Flying /\ Arrived' = Arrived
    BY <1>9, PoolAtRest DEF CancelContext
  <2> QED
    BY <1>9, <2>1 DEF CancelContext, E!executionVars
<1>10. CASE Returned
  <2>1. Flying' = Flying /\ Arrived' = Arrived
    BY <1>10, PoolAtRest DEF Returned, vars
  <2> QED
    BY <1>10, <2>1 DEF Returned, vars, E!executionVars
<1> QED
  BY <1>1, <1>2, <1>3, <1>4, <1>5, <1>6, <1>7, <1>8, <1>9, <1>10 DEF Loop

(***************************************************************************)
(* Execute is what its caller relies on: the loop, the pool and the two    *)
(* channels implement Execution, for any pool, groups, retries, failures   *)
(* and cancellations.                                                      *)
(***************************************************************************)
THEOREM ExecuteImplementsExecution == Spec => Implements
<1>1. Init => E!Init
  <2> SUFFICES ASSUME Init PROVE E!Init
    OBVIOUS
  <2>1. \A w \in Workers : ~InFlight(w) /\ ~Holding(w)
    BY DEF Init, Resting, InFlight, Holding, Verdicts
  <2>2. ToSet(<< >>) = {}
    BY DEF ToSet
  <2>3. Flying = {}
    BY <2>1, Aloft
  <2>4. Arrived = {}
    BY <2>1, <2>2, Back DEF Init
  <2>5. next + 1..NumGroups = Groups
    BY ExecutorAssumption DEF Init, Groups
  <2> QED
    BY <2>2, <2>3, <2>4, <2>5 DEF Init, E!Init
<1>2. EInv /\ [Next]_vars => [E!Next]_(E!executionVars)
  <2> SUFFICES ASSUME EInv, [Next]_vars PROVE E!Next \/ UNCHANGED E!executionVars
    OBVIOUS
  <2>1. CASE UNCHANGED vars
    <3>1. Flying' = Flying /\ Arrived' = Arrived
      BY <2>1, PoolAtRest DEF vars
    <3> QED
      BY <2>1, <3>1 DEF vars, E!executionVars
  <2>2. ASSUME NEW w \in Workers, Work(w) PROVE E!Next \/ UNCHANGED E!executionVars
    BY <2>2, WorkRefined DEF E!Next
  <2> QED
    BY <2>1, <2>2, LoopRefined DEF Next
<1> QED
  BY <1>1, <1>2, EInvHolds, PTL DEF Spec, Implements, E!Spec

=============================================================================
