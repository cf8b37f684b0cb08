-------------------------- MODULE McpServerProofs --------------------------
(***************************************************************************)
(* For any ids, any pool and any number of frames: the table of active     *)
(* requests is exact, no request is answered twice, and one initialize     *)
(* gets the session.                                                       *)
(*                                                                         *)
(* None of these is inductive.  The argument is about places: a request in *)
(* flight is in one place only (offered, queued at one position, or with   *)
(* one worker), so the worker that deletes the entry of its id deletes no  *)
(* other request's; and a response exists only once its worker is done.    *)
(***************************************************************************)
EXTENDS McpServer, FiniteSetTheorems, SequenceTheorems, TLAPS

WorkerSteps == {"idle", "dispatching", "checking", "writing", "finished", "exited"}
WorkerReplies == {"none", "ok", "already_initialized", "not_initialized"}

Types ==
  /\ requests \in Seq([id : Ids, method : Methods])
  /\ reader \in {"scanning", "offering", "closing", "returned"}
  /\ active \subseteq [id : Ids, request : 1..Last]
  /\ queue \in Seq(1..Last)
  /\ worker \in [Workers -> [request : (1..Last) \cup {Free},
                             step : WorkerSteps, reply : WorkerReplies]]
  /\ aborted \subseteq 1..Last
  /\ rootDone \in BOOLEAN /\ broken \in BOOLEAN
  /\ initialized \in BOOLEAN /\ ready \in BOOLEAN
  /\ output \in Seq([request : 0..Last, reply : WorkerReplies \cup {"duplicate", "busy"}])

(* A request in flight is in one place.                                    *)
OnePlace ==
  /\ \A i, j \in 1..Len(queue) : queue[i] = queue[j] => i = j
  /\ \A v, w \in Workers :
       worker[v].request = worker[w].request /\ worker[v].request # Free => v = w
  /\ \A i \in 1..Len(queue), w \in Workers : queue[i] # worker[w].request
  /\ reader = "offering" =>
       /\ Last > 0
       /\ \A i \in 1..Len(queue) : queue[i] # Last
       /\ \A w \in Workers : worker[w].request # Last
  /\ \A w \in Workers :
       worker[w].request = Free <=> worker[w].step \in {"idle", "exited"}

(* TableExact, place by place; an entry is under its own request's id.     *)
Entry(r) == [id |-> requests[r].id, request |-> r]

Table ==
  /\ \A a \in active : a = Entry(a.request)
  /\ \A a, b \in active : a.id = b.id => a = b
  /\ \A i \in 1..Len(queue) : Entry(queue[i]) \in active
  /\ \A w \in Workers : worker[w].request # Free => Entry(worker[w].request) \in active
  /\ reader = "offering" => Entry(Last) \in active
  /\ ~rootDone => \A a \in active :
       \/ \E i \in 1..Len(queue) : queue[i] = a.request
       \/ \E w \in Workers : worker[w].request = a.request
       \/ reader = "offering" /\ a.request = Last

(* A response is the last thing that happens to a request.                 *)
Answered ==
  /\ \A i, j \in 1..Len(output) :
       output[i].request = output[j].request /\ output[i].request # 0 => i = j
  /\ \A i \in 1..Len(output) : output[i].request # 0 =>
       /\ \A k \in 1..Len(queue) : queue[k] # output[i].request
       /\ reader = "offering" => output[i].request # Last
       /\ \A w \in Workers :
            worker[w].request = output[i].request => worker[w].step = "finished"

(* Whoever claimed the session: the response, or the worker on its way.    *)
Accepted(i) ==
  /\ output[i].request # 0
  /\ requests[output[i].request].method = "initialize"
  /\ output[i].reply = "ok"

Claiming(w) ==
  /\ worker[w].step \in {"checking", "writing"}
  /\ requests[worker[w].request].method = "initialize"
  /\ worker[w].reply = "ok"

Handshake ==
  /\ \A i \in 1..Len(output) : Accepted(i) => initialized
  /\ \A w \in Workers : Claiming(w) => initialized
  /\ \A i, j \in 1..Len(output) : Accepted(i) /\ Accepted(j) => i = j
  /\ \A v, w \in Workers : Claiming(v) /\ Claiming(w) => v = w
  /\ \A i \in 1..Len(output), w \in Workers : ~(Accepted(i) /\ Claiming(w))

Uncancelled(r) == requests[r].method = "initialize" => r \notin aborted

HandshakeSafe ==
  /\ \A i \in 1..Len(queue) : Uncancelled(queue[i])
  /\ \A w \in Workers : worker[w].request # Free => Uncancelled(worker[w].request)
  /\ reader = "offering" => Uncancelled(Last)

IInv == Types /\ OnePlace /\ Table /\ Answered /\ Handshake /\ HandshakeSafe

-----------------------------------------------------------------------------
(* What the two sequences that grow look like afterwards.                  *)
ReplyKinds == WorkerReplies \cup {"duplicate", "busy"}

LEMMA Extended ==
  ASSUME NEW S, NEW s \in Seq(S), NEW e \in S
  PROVE  /\ Append(s, e) \in Seq(S)
         /\ Len(Append(s, e)) = Len(s) + 1
         /\ \A i \in 1..Len(s) : Append(s, e)[i] = s[i]
         /\ Append(s, e)[Len(s) + 1] = e
  BY AppendProperties

LEMMA Shifted ==
  ASSUME NEW S, NEW s \in Seq(S), s # << >>
  PROVE  /\ Head(s) = s[1] /\ Len(s) \in Nat /\ Len(s) > 0
         /\ Tail(s) \in Seq(S)
         /\ Len(Tail(s)) = Len(s) - 1
         /\ \A i \in 1..Len(Tail(s)) : Tail(s)[i] = s[i + 1]
  BY HeadTailProperties

Entered(id, method) ==
  /\ requests' \in Seq([id : Ids, method : Methods])
  /\ Last' = Last + 1 /\ Last \in Nat
  /\ \A r \in 1..Last : requests'[r] = requests[r]
  /\ requests'[Last + 1] = [id |-> id, method |-> method]
  /\ \A a \in active : a.id # id
  /\ active' = active \cup {[id |-> id, request |-> Last + 1]}

LEMMA Accepting ==
  ASSUME Types, ReadRequest
  PROVE  \E id \in Ids, method \in Methods : Entered(id, method)
<1>1. PICK id \in Ids, method \in Methods :
        /\ \A a \in active : a.id # id
        /\ requests' = Append(requests, [id |-> id, method |-> method])
        /\ active' = active \cup {[id |-> id, request |-> Len(requests) + 1]}
  BY DEF ReadRequest, Last
<1>2. [id |-> id, method |-> method] \in [id : Ids, method : Methods]
  OBVIOUS
<1>3. requests \in Seq([id : Ids, method : Methods])
  BY DEF Types
<1> QED
  BY <1>1, <1>2, <1>3, Extended, LenProperties DEF Entered, Last

Written(r, reply) ==
  /\ Len(output) \in Nat
  /\ Len(output') = Len(output) + 1
  /\ \A i \in 1..Len(output) : output'[i] = output[i]
  /\ output'[Len(output) + 1] = [request |-> r, reply |-> reply]

LEMMA Replying ==
  ASSUME Types, NEW r \in 0..Last, NEW reply \in ReplyKinds, Reply(r, reply)
  PROVE  /\ output' \in Seq([request : 0..Last, reply : ReplyKinds])
         /\ rootDone' \in BOOLEAN /\ broken' \in BOOLEAN
         /\ rootDone => rootDone'
         /\ output' = output \/ Written(r, reply)
<1> DEFINE Frames == [request : 0..Last, reply : ReplyKinds]
<1>1. output \in Seq(Frames)
  BY DEF Types, ReplyKinds
<1>2. [request |-> r, reply |-> reply] \in Frames
  OBVIOUS
<1> HIDE DEF Frames
<1>3. CASE output' = Append(output, [request |-> r, reply |-> reply])
  <2>1. output' \in Seq(Frames) /\ Written(r, reply)
    BY <1>1, <1>2, <1>3, Extended, LenProperties DEF Written
  <2>2. rootDone' \in BOOLEAN /\ broken' \in BOOLEAN /\ (rootDone => rootDone')
    BY DEF Reply, Types
  <2> QED
    BY <2>1, <2>2 DEF Frames
<1>4. CASE output' = output
  <2>1. output' \in Seq(Frames)
    BY <1>1, <1>4
  <2>2. rootDone' \in BOOLEAN /\ broken' \in BOOLEAN /\ (rootDone => rootDone')
    BY DEF Reply, Types
  <2> QED
    BY <1>4, <2>1, <2>2 DEF Frames
<1> QED
  BY <1>3, <1>4 DEF Reply

(* The same types, element by element.                                     *)
Points ==
  /\ Last \in Nat /\ Len(queue) \in Nat /\ Len(output) \in Nat
  /\ \A i \in 1..Len(queue) : queue[i] \in 1..Last
  /\ \A a \in active : a.request \in 1..Last
  /\ \A w \in Workers :
       /\ worker[w].request \in 1..Last \/ worker[w].request = Free
       /\ worker[w].reply \in WorkerReplies
  /\ \A i \in 1..Len(output) : output[i].request \in 0..Last
  /\ \A n \in 0..Last + 1 : n # Free

LEMMA ElementTypes ==
  ASSUME Types
  PROVE  Points
<1>1. Last \in Nat /\ Len(queue) \in Nat /\ Len(output) \in Nat
  BY LenProperties DEF Types, Last
<1>2. \A i \in 1..Len(queue) : queue[i] \in 1..Last
  BY ElementOfSeq DEF Types
<1>3. \A i \in 1..Len(output) : output[i] \in [request : 0..Last, reply : ReplyKinds]
  BY ElementOfSeq DEF Types, ReplyKinds
<1>4. \A n \in 0..Last + 1 : n # Free
  BY <1>1, McpAssumption
<1>5. \A a \in active : a.request \in 1..Last
  BY DEF Types
<1>6. \A w \in Workers :
        /\ worker[w].request \in 1..Last \/ worker[w].request = Free
        /\ worker[w].reply \in WorkerReplies
  BY DEF Types
<1> QED
  BY <1>1, <1>2, <1>3, <1>4, <1>5, <1>6 DEF Points

(* One worker moves, and the others stay.                                  *)
Alone(w) == \A v \in Workers \ {w} : worker'[v] = worker[v]

LEMMA Placed ==
  ASSUME Types, NEW w \in Workers, NEW r \in (1..Last) \cup {Free}, NEW s \in WorkerSteps,
         NEW reply \in WorkerReplies,
         worker' = [worker EXCEPT ![w] = [request |-> r, step |-> s, reply |-> reply]]
  PROVE  /\ worker' \in [Workers -> [request : (1..Last) \cup {Free},
                                    step : WorkerSteps, reply : WorkerReplies]]
         /\ worker'[w].request = r /\ worker'[w].step = s /\ worker'[w].reply = reply
         /\ Alone(w)
  BY DEF Types, Alone

LEMMA Stepped ==
  ASSUME Types, NEW w \in Workers, NEW s \in WorkerSteps,
         worker' = [worker EXCEPT ![w].step = s]
  PROVE  /\ worker' \in [Workers -> [request : (1..Last) \cup {Free},
                                    step : WorkerSteps, reply : WorkerReplies]]
         /\ worker'[w].request = worker[w].request /\ worker'[w].step = s
         /\ worker'[w].reply = worker[w].reply
         /\ Alone(w)
  BY DEF Types, Alone

LEMMA Dispatched ==
  ASSUME Types, NEW w \in Workers, Dispatch(w)
  PROVE  /\ worker' \in [Workers -> [request : (1..Last) \cup {Free},
                                    step : WorkerSteps, reply : WorkerReplies]]
         /\ worker'[w].request = worker[w].request /\ worker'[w].step = "checking"
         /\ worker'[w].reply = Answer(requests[worker[w].request].method)
         /\ Alone(w)
<1> DEFINE reply == Answer(requests[worker[w].request].method)
<1>1. worker' = [worker EXCEPT ![w].reply = reply, ![w].step = "checking"]
  BY DEF Dispatch
<1>2. reply \in WorkerReplies
  BY DEF Answer, WorkerReplies
<1>3. "checking" \in WorkerSteps
  BY DEF WorkerSteps
<1> HIDE DEF reply
<1>4. worker \in [Workers -> [request : (1..Last) \cup {Free},
                               step : WorkerSteps, reply : WorkerReplies]]
  BY DEF Types
<1>5. worker' \in [Workers -> [request : (1..Last) \cup {Free},
                                step : WorkerSteps, reply : WorkerReplies]]
  BY <1>1, <1>2, <1>3, <1>4
<1>6. /\ worker'[w].request = worker[w].request /\ worker'[w].step = "checking"
      /\ worker'[w].reply = reply
      /\ Alone(w)
  BY <1>1, <1>4 DEF Alone
<1> QED
  BY <1>5, <1>6 DEF reply

(* The head of the queue goes to a worker.                                 *)
LEMMA Taken ==
  ASSUME Types, NEW w \in Workers, Take(w)
  PROVE  /\ queue' \in Seq(1..Last)
         /\ Len(queue) > 0 /\ Len(queue') = Len(queue) - 1
         /\ \A i \in 1..Len(queue') : queue'[i] = queue[i + 1]
         /\ worker' \in [Workers -> [request : (1..Last) \cup {Free},
                                    step : WorkerSteps, reply : WorkerReplies]]
         /\ worker'[w].request = queue[1]
         /\ worker'[w].step \in {"finished", "dispatching"}
         /\ Alone(w)
<1>1. queue \in Seq(1..Last) /\ queue # << >>
  BY DEF Take, Types
<1>2. /\ queue' \in Seq(1..Last)
      /\ Len(queue) \in Nat /\ Len(queue) > 0 /\ Len(queue') = Len(queue) - 1
      /\ \A i \in 1..Len(queue') : queue'[i] = queue[i + 1]
      /\ Head(queue) = queue[1]
  BY <1>1, Shifted DEF Take
<1>3. queue[1] \in 1..Last
  BY <1>2, ElementTypes DEF Points
<1>4. PICK s \in {"finished", "dispatching"} :
        worker' = [worker EXCEPT ![w] = [request |-> queue[1], step |-> s, reply |-> "none"]]
  BY <1>2 DEF Take
<1>5. s \in WorkerSteps /\ "none" \in WorkerReplies
  BY DEF WorkerSteps, WorkerReplies
<1> QED
  BY <1>2, <1>3, <1>4, <1>5, Placed

-----------------------------------------------------------------------------
LEMMA TypesKept ==
  ASSUME Types, OnePlace, Next
  PROVE  Types'
<1> USE DEF session
<1>0. Points
  BY ElementTypes
<1>1. CASE ReadRequest
  <2>1. PICK id \in Ids, method \in Methods : Entered(id, method)
    BY <1>1, Accepting
  <2>2. 1..Last \subseteq 1..Last' /\ Last + 1 \in 1..Last'
    BY <2>1 DEF Entered
  <2>3. active' \subseteq [id : Ids, request : 1..Last']
    BY <2>1, <2>2 DEF Entered, Types
  <2>4. queue' \in Seq(1..Last')
    BY <1>1, <2>2, SeqMonotonic DEF ReadRequest, Types
  <2>5. worker' \in [Workers -> [request : (1..Last') \cup {Free},
                                 step : WorkerSteps, reply : WorkerReplies]]
    BY <1>1, <2>2 DEF ReadRequest, Types
  <2>6. output' \in Seq([request : 0..Last', reply : ReplyKinds])
    <3>1. [request : 0..Last, reply : ReplyKinds] \subseteq [request : 0..Last', reply : ReplyKinds]
      BY <2>1 DEF Entered
    <3> QED
      BY <1>1, <3>1, SeqMonotonic DEF ReadRequest, Types, ReplyKinds
  <2>7. aborted' \subseteq 1..Last'
    BY <1>1, <2>2 DEF ReadRequest, Types
  <2> QED
    BY <1>1, <2>1, <2>3, <2>4, <2>5, <2>6, <2>7
    DEF ReadRequest, Entered, Types, ReplyKinds
<1>2. CASE ReadDuplicate
  <2>1. /\ output' \in Seq([request : 0..Last, reply : ReplyKinds])
        /\ rootDone' \in BOOLEAN /\ broken' \in BOOLEAN
    <3>1. 0 \in 0..Last /\ "duplicate" \in ReplyKinds
      BY <1>0 DEF Points, ReplyKinds
    <3> QED
      BY <1>2, <3>1, Replying DEF ReadDuplicate
  <2> QED
    BY <1>2, <2>1 DEF ReadDuplicate, Types, Last, ReplyKinds
<1>3. CASE ReadCancelled
  BY <1>3 DEF ReadCancelled, Types, Last
<1>4. CASE ReadInitialized
  BY <1>4 DEF ReadInitialized, Types, Last
<1>5. CASE InputEnds
  BY <1>5 DEF InputEnds, Types, Last
<1>6. CASE Enqueue
  <2>1. Last \in 1..Last /\ Last' = Last
    BY <1>0, <1>6 DEF Enqueue, OnePlace, Points, Last
  <2>2. queue' \in Seq(1..Last)
    BY <1>6, <2>1, Extended DEF Enqueue, Types
  <2> QED
    BY <1>6, <2>1, <2>2 DEF Enqueue, Types
<1>7. CASE GiveUp
  <2>1. Last \in 1..Last /\ Last' = Last
    BY <1>0, <1>7 DEF GiveUp, OnePlace, Points, Last
  <2> QED
    BY <1>7, <2>1 DEF GiveUp, Types
<1>8. CASE Busy
  <2>1. Last \in 1..Last /\ Last' = Last
    BY <1>0, <1>8 DEF Busy, OnePlace, Points, Last
  <2>2. /\ output' \in Seq([request : 0..Last, reply : ReplyKinds])
        /\ rootDone' \in BOOLEAN /\ broken' \in BOOLEAN
    <3>1. Last \in 0..Last /\ "busy" \in ReplyKinds
      BY <2>1 DEF ReplyKinds
    <3> QED
      BY <1>8, <3>1, Replying DEF Busy
  <2> QED
    BY <1>8, <2>1, <2>2 DEF Busy, Drop, Types, ReplyKinds
<1>9. CASE Return
  BY <1>9 DEF Return, Types, Last
<1>10. CASE CancelRoot
  BY <1>10 DEF CancelRoot, Types, Last
<1>11. ASSUME NEW w \in Workers, Take(w) PROVE Types'
  <2>1. queue' \in Seq(1..Last)
    BY <1>11, Taken
  <2>2. worker' \in [Workers -> [request : (1..Last) \cup {Free},
                                 step : WorkerSteps, reply : WorkerReplies]]
    BY <1>11, Taken
  <2> QED
    BY <1>11, <2>1, <2>2 DEF Take, Types, Last
<1>12. ASSUME NEW w \in Workers, Dispatch(w) PROVE Types'
  <2>1. worker' \in [Workers -> [request : (1..Last) \cup {Free},
                                 step : WorkerSteps, reply : WorkerReplies]]
    BY <1>12, Dispatched
  <2>2. initialized' \in BOOLEAN
    BY <1>12 DEF Dispatch
  <2> QED
    BY <1>12, <2>1, <2>2 DEF Dispatch, Types, Last
<1>13. ASSUME NEW w \in Workers, Check(w) PROVE Types'
  <2>1. PICK s \in {"finished", "writing"} : worker' = [worker EXCEPT ![w].step = s]
    BY <1>13 DEF Check
  <2>2. worker' \in [Workers -> [request : (1..Last) \cup {Free},
                                 step : WorkerSteps, reply : WorkerReplies]]
    BY <2>1, Stepped DEF WorkerSteps
  <2> QED
    BY <1>13, <2>2 DEF Check, Types, Last
<1>14. ASSUME NEW w \in Workers, Write(w) PROVE Types'
  <2>1. worker[w].request \in 0..Last /\ worker[w].reply \in ReplyKinds
    BY <1>0, <1>14 DEF Write, OnePlace, Points, ReplyKinds
  <2>2. /\ output' \in Seq([request : 0..Last, reply : ReplyKinds])
        /\ rootDone' \in BOOLEAN /\ broken' \in BOOLEAN
    BY <1>14, <2>1, Replying DEF Write
  <2>3. worker' \in [Workers -> [request : (1..Last) \cup {Free},
                                 step : WorkerSteps, reply : WorkerReplies]]
    BY <1>14, Stepped DEF Write, WorkerSteps
  <2> QED
    BY <1>14, <2>2, <2>3 DEF Write, Types, Last, ReplyKinds
<1>15. ASSUME NEW w \in Workers, Release(w) PROVE Types'
  <2>1. worker' \in [Workers -> [request : (1..Last) \cup {Free},
                                 step : WorkerSteps, reply : WorkerReplies]]
    BY <1>15, Placed DEF Release, Idle, WorkerSteps, WorkerReplies
  <2> QED
    BY <1>15, <2>1 DEF Release, Drop, Types, Last
<1>16. ASSUME NEW w \in Workers, Exit(w) PROVE Types'
  <2>1. worker' \in [Workers -> [request : (1..Last) \cup {Free},
                                 step : WorkerSteps, reply : WorkerReplies]]
    BY <1>16, Stepped DEF Exit, WorkerSteps
  <2> QED
    BY <1>16, <2>1 DEF Exit, Types, Last
<1>17. CASE Returned
  BY <1>17 DEF Returned, vars, Types, Last
<1> QED
  BY <1>1, <1>2, <1>3, <1>4, <1>5, <1>6, <1>7, <1>8, <1>9, <1>10, <1>11, <1>12,
     <1>13, <1>14, <1>15, <1>16, <1>17
     DEF Next, Offer, Work

(* What each step of a worker does to it, for the parts of the invariant.  *)
LEMMA WorkerMoves ==
  ASSUME Types, NEW w \in Workers
  PROVE  /\ Check(w) => /\ worker[w].step = "checking"
                        /\ worker'[w].request = worker[w].request
                        /\ worker'[w].reply = worker[w].reply
                        /\ worker'[w].step \in {"finished", "writing"}
                        /\ Alone(w)
         /\ Write(w) => /\ worker[w].step = "writing"
                        /\ worker'[w].request = worker[w].request
                        /\ worker'[w].step = "finished"
                        /\ Alone(w)
         /\ Release(w) => /\ worker[w].step = "finished"
                          /\ worker'[w].request = Free /\ worker'[w].step = "idle"
                          /\ Alone(w)
         /\ Exit(w) => /\ worker[w].step = "idle"
                       /\ worker'[w].request = worker[w].request
                       /\ worker'[w].step = "exited"
                       /\ Alone(w)
<1>1. ASSUME Check(w)
      PROVE  /\ worker'[w].request = worker[w].request
             /\ worker'[w].reply = worker[w].reply
             /\ worker'[w].step \in {"finished", "writing"}
             /\ Alone(w)
  <2>1. PICK s \in {"finished", "writing"} : worker' = [worker EXCEPT ![w].step = s]
    BY <1>1 DEF Check
  <2> QED
    BY <2>1, Stepped DEF WorkerSteps
<1>2. ASSUME Write(w)
      PROVE  /\ worker'[w].request = worker[w].request /\ worker'[w].step = "finished"
             /\ Alone(w)
  BY <1>2, Stepped DEF Write, WorkerSteps
<1>3. ASSUME Release(w)
      PROVE  /\ worker'[w].request = Free /\ worker'[w].step = "idle"
             /\ Alone(w)
  BY <1>3, Placed DEF Release, Idle, WorkerSteps, WorkerReplies
<1>4. ASSUME Exit(w)
      PROVE  /\ worker'[w].request = worker[w].request /\ worker'[w].step = "exited"
             /\ Alone(w)
  BY <1>4, Stepped DEF Exit, WorkerSteps
<1> QED
  BY <1>1, <1>2, <1>3, <1>4 DEF Check, Write, Release, Exit

LEMMA Queued ==
  ASSUME Types, OnePlace, Enqueue
  PROVE  /\ Last \in 1..Last /\ Last' = Last
         /\ Len(queue') = Len(queue) + 1
         /\ \A i \in 1..Len(queue) : queue'[i] = queue[i]
         /\ queue'[Len(queue) + 1] = Last
<1>1. Last \in 1..Last /\ Last' = Last
  BY ElementTypes DEF Enqueue, OnePlace, Points, Last
<1> QED
  BY <1>1, Extended DEF Enqueue, Types

-----------------------------------------------------------------------------
LEMMA OnePlaceKept ==
  ASSUME Types, OnePlace, Next
  PROVE  OnePlace'
<1> USE DEF session
<1>0. Points
  BY ElementTypes
<1>1. CASE ReadRequest
  <2>1. PICK id \in Ids, method \in Methods : Entered(id, method)
    BY <1>1, Accepting
  <2>2. Last' = Last + 1 /\ queue' = queue /\ worker' = worker
    BY <1>1, <2>1 DEF Entered, ReadRequest
  <2>3. \A i \in 1..Len(queue) : queue[i] # Last + 1
    BY <1>0 DEF Points
  <2>4. \A w \in Workers : worker[w].request # Last + 1
    BY <1>0 DEF Points
  <2> QED
    BY <1>0, <2>2, <2>3, <2>4 DEF OnePlace, Points
<1>2. CASE ReadDuplicate
  BY <1>2 DEF ReadDuplicate, OnePlace, Last
<1>3. CASE ReadCancelled
  BY <1>3 DEF ReadCancelled, OnePlace, Last
<1>4. CASE ReadInitialized
  BY <1>4 DEF ReadInitialized, OnePlace, Last
<1>5. CASE InputEnds
  BY <1>5 DEF InputEnds, OnePlace, Last
<1>6. CASE Enqueue
  <2>1. worker' = worker /\ reader = "offering" /\ reader' = "scanning"
    BY <1>6 DEF Enqueue
  <2>2. \A i \in 1..Len(queue') :
          \/ i \in 1..Len(queue) /\ queue'[i] = queue[i]
          \/ i = Len(queue) + 1 /\ queue'[i] = Last
    <3>1. \A i \in 1..Len(queue') : i \in 1..Len(queue) \/ i = Len(queue) + 1
      BY <1>0, <1>6, Queued DEF Points
    <3> QED
      BY <1>6, <3>1, Queued
  <2>3. /\ \A i \in 1..Len(queue) : queue[i] # Last
        /\ \A w \in Workers : worker[w].request # Last
    BY <2>1 DEF OnePlace
  <2> QED
    BY <2>1, <2>2, <2>3 DEF OnePlace
<1>7. CASE GiveUp
  BY <1>7 DEF GiveUp, OnePlace, Last
<1>8. CASE Busy
  BY <1>8 DEF Busy, OnePlace, Last
<1>9. CASE Return
  BY <1>9 DEF Return, OnePlace, Last
<1>10. CASE CancelRoot
  BY <1>10 DEF CancelRoot, OnePlace, Last
<1>11. ASSUME NEW w \in Workers, Take(w) PROVE OnePlace'
  <2>1. /\ Len(queue) > 0 /\ Len(queue') = Len(queue) - 1
        /\ \A i \in 1..Len(queue') : queue'[i] = queue[i + 1]
        /\ worker'[w].request = queue[1]
        /\ worker'[w].step \in {"finished", "dispatching"}
        /\ Alone(w)
    BY <1>11, Taken
  <2>2. reader' = reader /\ Last' = Last
    BY <1>11 DEF Take, Last
  <2>3. queue[1] \in 1..Last /\ queue[1] # Free
    BY <1>0, <2>1 DEF Points
  <2>4. \A i, j \in 1..Len(queue') : queue'[i] = queue'[j] => i = j
    BY <1>0, <2>1 DEF Points, OnePlace
  <2>5. \A i \in 1..Len(queue') : queue'[i] # queue[1]
    BY <1>0, <2>1 DEF Points, OnePlace
  <2>6. \A i \in 1..Len(queue'), v \in Workers : queue'[i] # worker'[v].request
    BY SMTT(30), <1>0, <2>1, <2>5 DEF Points, OnePlace, Alone
  <2>7. \A v, u \in Workers :
          worker'[v].request = worker'[u].request /\ worker'[v].request # Free => v = u
    BY <1>0, <2>1 DEF Points, OnePlace, Alone
  <2>8. \A v \in Workers :
          worker'[v].request = Free <=> worker'[v].step \in {"idle", "exited"}
    BY <2>1, <2>3 DEF OnePlace, Alone
  <2>9. reader = "offering" =>
          /\ \A i \in 1..Len(queue') : queue'[i] # Last
          /\ \A v \in Workers : worker'[v].request # Last
    <3>1. 1 \in 1..Len(queue) /\ \A i \in 1..Len(queue') : i + 1 \in 1..Len(queue)
      BY <1>0, <2>1 DEF Points
    <3> QED
      BY <2>1, <3>1 DEF OnePlace, Alone
  <2> QED
    BY <2>2, <2>4, <2>6, <2>7, <2>8, <2>9 DEF OnePlace
<1>12. ASSUME NEW w \in Workers, Dispatch(w) PROVE OnePlace'
  <2>1. queue' = queue /\ reader' = reader /\ Last' = Last /\ worker[w].step = "dispatching"
    BY <1>12 DEF Dispatch, Last
  <2> QED
    BY <1>12, <2>1, Dispatched DEF OnePlace, Alone
<1>13. ASSUME NEW w \in Workers, Check(w) PROVE OnePlace'
  <2>1. queue' = queue /\ reader' = reader /\ Last' = Last
    BY <1>13 DEF Check, Last
  <2> QED
    BY <1>13, <2>1, WorkerMoves DEF OnePlace, Alone
<1>14. ASSUME NEW w \in Workers, Write(w) PROVE OnePlace'
  <2>1. queue' = queue /\ reader' = reader /\ Last' = Last
    BY <1>14 DEF Write, Last
  <2> QED
    BY <1>14, <2>1, WorkerMoves DEF OnePlace, Alone
<1>15. ASSUME NEW w \in Workers, Release(w) PROVE OnePlace'
  <2>1. queue' = queue /\ reader' = reader /\ Last' = Last
    BY <1>15 DEF Release, Last
  <2>2. \A i \in 1..Len(queue) : queue[i] # Free
    BY <1>0 DEF Points
  <2>3. reader = "offering" => Last # Free
    BY <1>0 DEF Points
  <2> QED
    BY <1>15, <2>1, <2>2, <2>3, WorkerMoves DEF OnePlace, Alone
<1>16. ASSUME NEW w \in Workers, Exit(w) PROVE OnePlace'
  <2>1. queue' = queue /\ reader' = reader /\ Last' = Last
    BY <1>16 DEF Exit, Last
  <2> QED
    BY <1>16, <2>1, WorkerMoves DEF OnePlace, Alone
<1>17. CASE Returned
  BY <1>17 DEF Returned, vars, OnePlace, Last
<1> QED
  BY <1>1, <1>2, <1>3, <1>4, <1>5, <1>6, <1>7, <1>8, <1>9, <1>10, <1>11, <1>12,
     <1>13, <1>14, <1>15, <1>16, <1>17
     DEF Next, Offer, Work

-----------------------------------------------------------------------------
LEMMA TableKept ==
  ASSUME Types, OnePlace, Table, Next
  PROVE  Table'
<1> USE DEF session
<1>0. Points
  BY ElementTypes
<1>1. CASE ReadRequest
  <2>1. PICK id \in Ids, method \in Methods : Entered(id, method)
    BY <1>1, Accepting
  <2>2. /\ queue' = queue /\ worker' = worker /\ rootDone' = rootDone
        /\ reader = "scanning" /\ reader' = "offering" /\ Last' = Last + 1
        /\ active' = active \cup {Entry(Last)'}
    <3>1. Entry(Last)' = [id |-> id, request |-> Last + 1]
      BY <2>1 DEF Entered, Entry
    <3> QED
      BY <1>1, <2>1, <3>1 DEF ReadRequest, Scan, Entered
  <2>3. \A r \in 1..Last : Entry(r)' = Entry(r)
    BY <2>1 DEF Entered, Entry
  <2>4. Entry(Last)'.request = Last + 1 /\ \A a \in active : a.id # Entry(Last)'.id
    BY <2>1 DEF Entered, Entry
  <2>5. \A a \in active' : a = Entry(a.request)'
    BY <1>0, <2>2, <2>3, <2>4 DEF Points, Table
  <2>6. \A a, b \in active' : a.id = b.id => a = b
    BY <2>2, <2>4 DEF Table
  <2>7. /\ \A i \in 1..Len(queue') : Entry(queue[i])' \in active'
        /\ \A w \in Workers : worker'[w].request # Free => Entry(worker[w].request)' \in active'
    <3>1. \A i \in 1..Len(queue) : Entry(queue[i])' = Entry(queue[i])
      BY <1>0, <2>2, <2>3 DEF Points, Entry
    <3>2. \A w \in Workers : worker[w].request # Free =>
            Entry(worker[w].request)' = Entry(worker[w].request)
      BY <1>0, <2>2, <2>3 DEF Points, Entry
    <3> QED
      BY <2>2, <3>1, <3>2 DEF Table
  <2>8. ~rootDone' => \A a \in active' :
           \/ \E i \in 1..Len(queue') : queue'[i] = a.request
           \/ \E w \in Workers : worker'[w].request = a.request
           \/ reader' = "offering" /\ a.request = Last'
    BY <2>2, <2>4 DEF Table
  <2> QED
    BY <2>2, <2>5, <2>6, <2>7, <2>8 DEF Table
<1>2. CASE ReadDuplicate
  <2>1. rootDone => rootDone'
    BY <1>2 DEF ReadDuplicate, Reply
  <2> QED
    BY <1>2, <2>1 DEF ReadDuplicate, Scan, Table, Entry, Last
<1>3. CASE ReadCancelled
  BY <1>3 DEF ReadCancelled, Table, Entry, Last
<1>4. CASE ReadInitialized
  BY <1>4 DEF ReadInitialized, Table, Entry, Last
<1>5. CASE InputEnds
  BY <1>5 DEF InputEnds, Table, Entry, Last
<1>6. CASE Enqueue
  <2>1. /\ requests' = requests /\ active' = active /\ worker' = worker /\ rootDone' = rootDone
        /\ reader = "offering" /\ reader' = "scanning"
    BY <1>6 DEF Enqueue
  <2>2. \A i \in 1..Len(queue') : Entry(queue'[i]) \in active
    <3>1. \A i \in 1..Len(queue') : i \in 1..Len(queue) \/ i = Len(queue) + 1
      BY <1>0, <1>6, Queued DEF Points
    <3> QED
      BY <1>6, <2>1, <3>1, Queued DEF Table
  <2>3. ~rootDone' => \A a \in active' :
           \/ \E i \in 1..Len(queue') : queue'[i] = a.request
           \/ \E w \in Workers : worker'[w].request = a.request
    <3>1. 1..Len(queue) \subseteq 1..Len(queue') /\ Len(queue) + 1 \in 1..Len(queue')
      BY <1>0, <1>6, Queued DEF Points
    <3> QED
      BY <1>6, <2>1, <3>1, Queued DEF Table
  <2> QED
    BY <2>1, <2>2, <2>3 DEF Table, Entry
<1>7. CASE GiveUp
  BY <1>7 DEF GiveUp, Table, Entry, Last
<1>8. CASE Busy
  <2>1. rootDone => rootDone'
    BY <1>8 DEF Busy, Reply
  <2>2. /\ requests' = requests /\ queue' = queue /\ worker' = worker
        /\ active' = { a \in active : a.id # Entry(Last).id }
        /\ reader = "offering" /\ reader' = "scanning"
    BY <1>8 DEF Busy, Drop, Entry
  <2>3. \A r : r # Last /\ Entry(r) \in active => Entry(r) \in active'
    <3>1. \A r : Entry(r) = Entry(Last) => r = Last
      BY DEF Entry
    <3> QED
      BY <2>2, <3>1 DEF Table
  <2>4. \A a \in active' : a.request # Last
    BY <2>2 DEF Table
  <2>5. /\ \A i \in 1..Len(queue) : queue[i] # Last
        /\ \A w \in Workers : worker[w].request # Last
    BY <2>2 DEF OnePlace
  <2> QED
    BY <2>1, <2>2, <2>3, <2>4, <2>5 DEF Table, Entry
<1>9. CASE Return
  BY <1>9 DEF Return, Table, Entry, Last
<1>10. CASE CancelRoot
  BY <1>10 DEF CancelRoot, Table, Entry, Last
<1>11. ASSUME NEW w \in Workers, Take(w) PROVE Table'
  <2>1. /\ Len(queue) > 0 /\ Len(queue') = Len(queue) - 1
        /\ \A i \in 1..Len(queue') : queue'[i] = queue[i + 1]
        /\ worker'[w].request = queue[1]
        /\ Alone(w)
    BY <1>11, Taken
  <2>2. /\ requests' = requests /\ active' = active /\ rootDone' = rootDone /\ reader' = reader
        /\ Last' = Last /\ worker[w].request = Free
    BY <1>11 DEF Take, Last, OnePlace
  <2>3. 1 \in 1..Len(queue) /\ \A i \in 1..Len(queue') : i + 1 \in 1..Len(queue)
    BY <1>0, <2>1 DEF Points
  <2>4. \A i \in 1..Len(queue') : Entry(queue'[i]) \in active
    BY <2>1, <2>3 DEF Table
  <2>5. \A v \in Workers : worker'[v].request # Free => Entry(worker'[v].request) \in active
    BY <2>1, <2>3 DEF Table, Alone
  <2>6. ASSUME ~rootDone', NEW a \in active'
        PROVE  \/ \E i \in 1..Len(queue') : queue'[i] = a.request
               \/ \E v \in Workers : worker'[v].request = a.request
               \/ reader' = "offering" /\ a.request = Last'
    <3>1. ASSUME NEW i \in 1..Len(queue), queue[i] = a.request
          PROVE  \/ \E j \in 1..Len(queue') : queue'[j] = a.request
                 \/ worker'[w].request = a.request
      <4>1. CASE i = 1
        BY <2>1, <3>1, <4>1
      <4>2. CASE i # 1
        <5>1. i - 1 \in 1..Len(queue') /\ queue'[i - 1] = queue[i]
          BY <1>0, <2>1, <3>1, <4>2 DEF Points
        <5> QED
          BY <3>1, <5>1
      <4> QED
        BY <4>1, <4>2
    <3>2. ASSUME NEW v \in Workers, worker[v].request = a.request
          PROVE  worker'[v].request = a.request
      BY <1>0, <2>1, <2>2, <3>2 DEF Alone, Points
    <3>3. \/ \E i \in 1..Len(queue) : queue[i] = a.request
          \/ \E v \in Workers : worker[v].request = a.request
          \/ reader = "offering" /\ a.request = Last
      BY <2>2, <2>6 DEF Table
    <3> QED
      BY <2>2, <3>1, <3>2, <3>3
  <2> QED
    BY <2>2, <2>4, <2>5, <2>6 DEF Table, Entry
<1>12. ASSUME NEW w \in Workers, Dispatch(w) PROVE Table'
  <2>1. \A v \in Workers : worker'[v].request = worker[v].request
    BY <1>12, Dispatched DEF Alone
  <2>2. /\ requests' = requests /\ queue' = queue /\ reader' = reader
        /\ active' = active /\ rootDone' = rootDone /\ aborted' = aborted /\ Last' = Last
    BY <1>12 DEF Dispatch, Last
  <2> QED
    BY <2>1, <2>2 DEF Table, Entry
<1>13. ASSUME NEW w \in Workers, Check(w) PROVE Table'
  <2>1. \A v \in Workers : worker'[v].request = worker[v].request
    BY <1>13, WorkerMoves DEF Alone
  <2> QED
    BY <1>13, <2>1 DEF Check, Table, Entry, Last
<1>14. ASSUME NEW w \in Workers, Write(w) PROVE Table'
  <2>1. \A v \in Workers : worker'[v].request = worker[v].request
    BY <1>14, WorkerMoves DEF Alone
  <2>2. rootDone => rootDone'
    BY <1>14 DEF Write, Reply
  <2> QED
    BY <1>14, <2>1, <2>2 DEF Write, Table, Entry, Last
<1>15. ASSUME NEW w \in Workers, Release(w) PROVE Table'
  <2> DEFINE r == worker[w].request
  <2>1. r # Free /\ Entry(r) \in active
    BY <1>15 DEF Release, OnePlace, Table
  <2>2. /\ requests' = requests /\ queue' = queue /\ reader' = reader /\ rootDone' = rootDone
        /\ Last' = Last
        /\ active' = { a \in active : a.id # Entry(r).id }
    BY <1>15 DEF Release, Drop, Last, Entry
  <2>3. worker'[w].request = Free /\ \A v \in Workers \ {w} : worker'[v] = worker[v]
    BY <1>15, WorkerMoves DEF Alone
  <2>4. \A q : q # r /\ Entry(q) \in active => Entry(q) \in active'
    <3>1. \A q : Entry(q) = Entry(r) => q = r
      BY DEF Entry
    <3> QED
      BY <2>1, <2>2, <3>1 DEF Table
  <2>5. \A a \in active' : a.request # r
    BY <2>2 DEF Table
  <2>6. /\ \A i \in 1..Len(queue) : queue[i] # r
        /\ \A v \in Workers \ {w} : worker[v].request # Free => worker[v].request # r
        /\ reader = "offering" => Last # r
    BY <2>1 DEF OnePlace
  <2>7. \A v \in Workers : worker'[v].request # Free => Entry(worker'[v].request) \in active'
    BY <2>3, <2>4, <2>6 DEF Table
  <2>8. /\ \A i \in 1..Len(queue) : Entry(queue[i]) \in active'
        /\ reader = "offering" => Entry(Last) \in active'
    BY <2>4, <2>6 DEF Table
  <2>9. ~rootDone' => \A a \in active' :
           \/ \E i \in 1..Len(queue') : queue'[i] = a.request
           \/ \E v \in Workers : worker'[v].request = a.request
           \/ reader' = "offering" /\ a.request = Last'
    BY <2>2, <2>3, <2>5 DEF Table
  <2>10. /\ \A a \in active' : a = Entry(a.request)
         /\ \A a, b \in active' : a.id = b.id => a = b
    BY <2>2 DEF Table
  <2> HIDE DEF r
  <2> QED
    BY <2>2, <2>7, <2>8, <2>9, <2>10 DEF Table, Entry
<1>16. ASSUME NEW w \in Workers, Exit(w) PROVE Table'
  <2>1. \A v \in Workers : worker'[v].request = worker[v].request
    BY <1>16, WorkerMoves DEF Alone
  <2> QED
    BY <1>16, <2>1 DEF Exit, Table, Entry, Last
<1>17. CASE Returned
  BY <1>17 DEF Returned, vars, Table, Entry, Last
<1> QED
  BY <1>1, <1>2, <1>3, <1>4, <1>5, <1>6, <1>7, <1>8, <1>9, <1>10, <1>11, <1>12,
     <1>13, <1>14, <1>15, <1>16, <1>17
     DEF Next, Offer, Work

(* A written response is the one new element of the output.                *)
LEMMA Outputs ==
  ASSUME Types, NEW r \in 0..Last, NEW reply \in ReplyKinds, Reply(r, reply)
  PROVE  \A i \in 1..Len(output') :
           \/ i \in 1..Len(output) /\ output'[i] = output[i]
           \/ /\ i = Len(output) + 1
              /\ output'[i].request = r /\ output'[i].reply = reply
<1>1. Len(output) \in Nat
  BY ElementTypes DEF Points
<1>2. output' = output \/ Written(r, reply)
  BY Replying
<1>3. CASE output' = output
  BY <1>3
<1>4. CASE Written(r, reply)
  <2>1. \A i \in 1..Len(output') : i \in 1..Len(output) \/ i = Len(output) + 1
    BY <1>1, <1>4 DEF Written
  <2> QED
    BY <1>4, <2>1 DEF Written
<1> QED
  BY <1>2, <1>3, <1>4

LEMMA AnsweredKept ==
  ASSUME Types, OnePlace, Answered, Next
  PROVE  Answered'
<1> USE DEF session
<1>0. Points
  BY ElementTypes
<1>1. CASE ReadRequest
  <2>1. PICK id \in Ids, method \in Methods : Entered(id, method)
    BY <1>1, Accepting
  <2>2. Last' = Last + 1 /\ queue' = queue /\ worker' = worker /\ output' = output
    BY <1>1, <2>1 DEF Entered, ReadRequest
  <2>3. \A i \in 1..Len(output) : output[i].request # Last + 1
    BY <1>0 DEF Points
  <2> QED
    BY <2>2, <2>3 DEF Answered
<1>2. CASE ReadDuplicate
  <2>1. 0 \in 0..Last /\ "duplicate" \in ReplyKinds
    BY <1>0 DEF Points, ReplyKinds
  <2>2. \A i \in 1..Len(output') :
          \/ i \in 1..Len(output) /\ output'[i] = output[i]
          \/ output'[i].request = 0
    <3>1. Reply(0, "duplicate")
      BY <1>2 DEF ReadDuplicate
    <3> QED
      BY <2>1, <3>1, Outputs
  <2>3. /\ queue' = queue /\ worker' = worker /\ reader' = reader /\ Last' = Last
    BY <1>2 DEF ReadDuplicate, Last
  <2> QED
    BY <2>2, <2>3 DEF Answered
<1>3. CASE ReadCancelled
  BY <1>3 DEF ReadCancelled, Answered, Last
<1>4. CASE ReadInitialized
  BY <1>4 DEF ReadInitialized, Answered, Last
<1>5. CASE InputEnds
  BY <1>5 DEF InputEnds, Answered, Last
<1>6. CASE Enqueue
  <2>1. /\ worker' = worker /\ output' = output
        /\ reader = "offering" /\ reader' = "scanning"
    BY <1>6 DEF Enqueue
  <2>2. \A i \in 1..Len(queue') :
          \/ i \in 1..Len(queue) /\ queue'[i] = queue[i]
          \/ queue'[i] = Last
    <3>1. \A i \in 1..Len(queue') : i \in 1..Len(queue) \/ i = Len(queue) + 1
      BY <1>0, <1>6, Queued DEF Points
    <3> QED
      BY <1>6, <3>1, Queued
  <2> QED
    BY <2>1, <2>2 DEF Answered
<1>7. CASE GiveUp
  BY <1>7 DEF GiveUp, Answered, Last
<1>8. CASE Busy
  <2>1. Last \in 0..Last /\ "busy" \in ReplyKinds
    BY <1>0 DEF Points, ReplyKinds
  <2>2. \A i \in 1..Len(output') :
          \/ i \in 1..Len(output) /\ output'[i] = output[i]
          \/ i = Len(output) + 1 /\ output'[i].request = Last
    <3>1. Reply(Last, "busy")
      BY <1>8 DEF Busy
    <3> QED
      BY <2>1, <3>1, Outputs
  <2>3. /\ queue' = queue /\ worker' = worker /\ reader = "offering" /\ reader' = "scanning"
    BY <1>8 DEF Busy
  <2>4. \A i \in 1..Len(output) : output[i].request # 0 => output[i].request # Last
    BY <2>3 DEF Answered
  <2>5. /\ \A k \in 1..Len(queue) : queue[k] # Last
        /\ \A w \in Workers : worker[w].request # Last
    BY <2>3 DEF OnePlace
  <2>6. ASSUME NEW i \in 1..Len(output'), NEW j \in 1..Len(output'),
               output'[i].request = output'[j].request, output'[i].request # 0
        PROVE  i = j
    BY <2>2, <2>4, <2>6 DEF Answered
  <2>7. ASSUME NEW i \in 1..Len(output'), output'[i].request # 0
        PROVE  /\ \A k \in 1..Len(queue) : queue[k] # output'[i].request
               /\ \A w \in Workers :
                    worker[w].request = output'[i].request => worker[w].step = "finished"
    BY <2>2, <2>5, <2>7 DEF Answered
  <2> QED
    BY <2>3, <2>6, <2>7 DEF Answered
<1>9. CASE Return
  BY <1>9 DEF Return, Answered, Last
<1>10. CASE CancelRoot
  BY <1>10 DEF CancelRoot, Answered, Last
<1>11. ASSUME NEW w \in Workers, Take(w) PROVE Answered'
  <2>1. /\ Len(queue) > 0 /\ Len(queue') = Len(queue) - 1
        /\ \A i \in 1..Len(queue') : queue'[i] = queue[i + 1]
        /\ worker'[w].request = queue[1]
        /\ Alone(w)
    BY <1>11, Taken
  <2>2. output' = output /\ reader' = reader /\ Last' = Last
    BY <1>11 DEF Take, Last
  <2>3. 1 \in 1..Len(queue) /\ \A i \in 1..Len(queue') : i + 1 \in 1..Len(queue)
    BY <1>0, <2>1 DEF Points
  <2>4. \A i \in 1..Len(output) : output[i].request # 0 =>
          /\ \A k \in 1..Len(queue') : queue'[k] # output[i].request
          /\ \A v \in Workers :
               worker'[v].request = output[i].request => worker'[v].step = "finished"
    BY SMTT(30), <2>1, <2>3 DEF Answered, Alone
  <2> QED
    BY <2>2, <2>4 DEF Answered
<1>12. ASSUME NEW w \in Workers, Dispatch(w) PROVE Answered'
  <2>1. output' = output /\ queue' = queue /\ reader' = reader /\ Last' = Last
    BY <1>12 DEF Dispatch, Last
  <2>2. worker[w].step = "dispatching"
    BY <1>12 DEF Dispatch
  <2> QED
    BY <1>12, <2>1, <2>2, Dispatched DEF Answered, Alone
<1>13. ASSUME NEW w \in Workers, Check(w) PROVE Answered'
  <2>1. output' = output /\ queue' = queue /\ reader' = reader /\ Last' = Last
    BY <1>13 DEF Check, Last
  <2> QED
    BY <1>13, <2>1, WorkerMoves DEF Answered, Alone
<1>14. ASSUME NEW w \in Workers, Write(w) PROVE Answered'
  <2> DEFINE r == worker[w].request
  <2>1. r \in 1..Last /\ worker[w].reply \in ReplyKinds /\ worker[w].step = "writing"
    BY <1>0, <1>14 DEF Write, OnePlace, Points, ReplyKinds
  <2>2. \A i \in 1..Len(output') :
          \/ i \in 1..Len(output) /\ output'[i] = output[i]
          \/ i = Len(output) + 1 /\ output'[i].request = r
    <3>1. r \in 0..Last
      BY <1>0, <2>1 DEF Points
    <3>2. Reply(r, worker[w].reply)
      BY <1>14 DEF Write
    <3> QED
      BY <2>1, <3>1, <3>2, Outputs
  <2>3. /\ queue' = queue /\ reader' = reader /\ Last' = Last
        /\ worker'[w].request = r /\ worker'[w].step = "finished"
        /\ \A v \in Workers \ {w} : worker'[v] = worker[v]
    BY <1>14, WorkerMoves DEF Write, Last, Alone
  <2>4. r # Free /\ r # 0
    BY <1>0, <2>1 DEF Points
  <2>5. /\ \A i \in 1..Len(output) : output[i].request # r
        /\ \A k \in 1..Len(queue) : queue[k] # r
        /\ reader = "offering" => Last # r
        /\ \A v \in Workers \ {w} : worker[v].request # r
    BY <2>1, <2>4 DEF Answered, OnePlace
  <2> HIDE DEF r
  <2>6. ASSUME NEW i \in 1..Len(output'), NEW j \in 1..Len(output'),
               output'[i].request = output'[j].request, output'[i].request # 0
        PROVE  i = j
    BY <2>2, <2>5, <2>6 DEF Answered
  <2>7. ASSUME NEW i \in 1..Len(output'), output'[i].request # 0
        PROVE  /\ \A k \in 1..Len(queue) : queue[k] # output'[i].request
               /\ reader = "offering" => output'[i].request # Last
               /\ \A v \in Workers :
                    worker'[v].request = output'[i].request => worker'[v].step = "finished"
    BY <2>2, <2>3, <2>5, <2>7 DEF Answered
  <2> QED
    BY <2>3, <2>6, <2>7 DEF Answered
<1>15. ASSUME NEW w \in Workers, Release(w) PROVE Answered'
  <2>1. output' = output /\ queue' = queue /\ reader' = reader /\ Last' = Last
    BY <1>15 DEF Release, Last
  <2>2. \A i \in 1..Len(output) : output[i].request # Free
    BY <1>0 DEF Points
  <2> QED
    BY <1>15, <2>1, <2>2, WorkerMoves DEF Answered, Alone
<1>16. ASSUME NEW w \in Workers, Exit(w) PROVE Answered'
  <2>1. output' = output /\ queue' = queue /\ reader' = reader /\ Last' = Last
    BY <1>16 DEF Exit, Last
  <2>2. \A i \in 1..Len(output) : output[i].request # Free
    BY <1>0 DEF Points
  <2>3. worker[w].request = Free
    BY <1>16, WorkerMoves DEF OnePlace
  <2> QED
    BY <1>16, <2>1, <2>2, <2>3, WorkerMoves DEF Answered, Alone
<1>17. CASE Returned
  BY <1>17 DEF Returned, vars, Answered, Last
<1> QED
  BY <1>1, <1>2, <1>3, <1>4, <1>5, <1>6, <1>7, <1>8, <1>9, <1>10, <1>11, <1>12,
     <1>13, <1>14, <1>15, <1>16, <1>17
     DEF Next, Offer, Work

-----------------------------------------------------------------------------
LEMMA HandshakeKept ==
  ASSUME Types, OnePlace, Answered, Handshake, Next
  PROVE  Handshake'
<1> USE DEF session
<1>0. Points
  BY ElementTypes
<1>1. CASE ReadRequest
  <2>1. PICK id \in Ids, method \in Methods : Entered(id, method)
    BY <1>1, Accepting
  <2>2. worker' = worker /\ output' = output /\ initialized' = initialized
    BY <1>1 DEF ReadRequest
  <2>3. \A i \in 1..Len(output) : Accepted(i)' <=> Accepted(i)
    <3>1. \A i \in 1..Len(output) : output[i].request # 0 => output[i].request \in 1..Last
      BY <1>0 DEF Points
    <3> QED
      BY <2>1, <2>2, <3>1 DEF Accepted, Entered
  <2>4. \A w \in Workers : Claiming(w)' <=> Claiming(w)
    <3>1. \A w \in Workers :
            worker[w].step \in {"checking", "writing"} => worker[w].request \in 1..Last
      BY <1>0 DEF Points, OnePlace
    <3> QED
      BY <2>1, <2>2, <3>1 DEF Claiming, Entered
  <2> QED
    BY <2>2, <2>3, <2>4 DEF Handshake
<1>2. CASE ReadDuplicate
  <2>1. 0 \in 0..Last /\ "duplicate" \in ReplyKinds
    BY <1>0 DEF Points, ReplyKinds
  <2>2. \A i \in 1..Len(output') :
          \/ i \in 1..Len(output) /\ output'[i] = output[i]
          \/ output'[i].request = 0
    <3>1. Reply(0, "duplicate")
      BY <1>2 DEF ReadDuplicate
    <3> QED
      BY <2>1, <3>1, Outputs
  <2>3. worker' = worker /\ requests' = requests /\ initialized' = initialized
    BY <1>2 DEF ReadDuplicate
  <2>4. \A i \in 1..Len(output') : Accepted(i)' => i \in 1..Len(output) /\ Accepted(i)
    BY <2>2, <2>3 DEF Accepted
  <2>5. \A w \in Workers : Claiming(w)' <=> Claiming(w)
    BY <2>3 DEF Claiming
  <2> QED
    BY <2>3, <2>4, <2>5 DEF Handshake
<1>3. CASE ReadCancelled
  BY <1>3 DEF ReadCancelled, Handshake, Accepted, Claiming, Last
<1>4. CASE ReadInitialized
  BY <1>4 DEF ReadInitialized, Handshake, Accepted, Claiming, Last
<1>5. CASE InputEnds
  BY <1>5 DEF InputEnds, Handshake, Accepted, Claiming, Last
<1>6. CASE Enqueue
  BY <1>6 DEF Enqueue, Handshake, Accepted, Claiming, Last
<1>7. CASE GiveUp
  BY <1>7 DEF GiveUp, Handshake, Accepted, Claiming, Last
<1>8. CASE Busy
  <2>1. Last \in 0..Last /\ "busy" \in ReplyKinds
    BY <1>0 DEF Points, ReplyKinds
  <2>2. \A i \in 1..Len(output') :
          \/ i \in 1..Len(output) /\ output'[i] = output[i]
          \/ output'[i].reply = "busy"
    <3>1. Reply(Last, "busy")
      BY <1>8 DEF Busy
    <3> QED
      BY <2>1, <3>1, Outputs
  <2>3. worker' = worker /\ requests' = requests /\ initialized' = initialized
    BY <1>8 DEF Busy
  <2>4. \A i \in 1..Len(output') : Accepted(i)' => i \in 1..Len(output) /\ Accepted(i)
    BY <2>2, <2>3 DEF Accepted
  <2>5. \A w \in Workers : Claiming(w)' <=> Claiming(w)
    BY <2>3 DEF Claiming
  <2> QED
    BY <2>3, <2>4, <2>5 DEF Handshake
<1>9. CASE Return
  <2>1. worker' = worker /\ requests' = requests /\ initialized' = initialized /\ output' = output
    BY <1>9 DEF Return
  <2> QED
    BY <2>1 DEF Handshake, Accepted, Claiming
<1>10. CASE CancelRoot
  BY <1>10 DEF CancelRoot, Handshake, Accepted, Claiming, Last
<1>11. ASSUME NEW w \in Workers, Take(w) PROVE Handshake'
  <2>1. requests' = requests /\ initialized' = initialized /\ output' = output
    BY <1>11 DEF Take
  <2>2. \A v \in Workers : Claiming(v)' => Claiming(v)
    BY <1>11, <2>1, Taken DEF Claiming, Alone
  <2>3. \A i : Accepted(i)' <=> Accepted(i)
    BY <2>1 DEF Accepted
  <2> QED
    BY <2>1, <2>2, <2>3 DEF Handshake
<1>12. ASSUME NEW w \in Workers, Dispatch(w) PROVE Handshake'
  <2>1. requests' = requests /\ output' = output
    BY <1>12 DEF Dispatch
  <2>2. /\ initialized => initialized'
        /\ requests[worker[w].request].method = "initialize" => initialized'
    BY <1>12 DEF Dispatch
  <2>3. \A v \in Workers : Claiming(v)' => Claiming(v) \/ v = w
    BY <1>12, <2>1, Dispatched DEF Claiming, Alone
  <2>4. Claiming(w)' => ~initialized /\ initialized'
    <3>1. ASSUME Claiming(w)'
          PROVE  /\ requests[worker[w].request].method = "initialize"
                 /\ Answer(requests[worker[w].request].method) = "ok"
      BY <1>12, <2>1, <3>1, Dispatched DEF Claiming
    <3> QED
      BY <2>2, <3>1 DEF Answer
  <2>5. \A i : Accepted(i)' <=> Accepted(i)
    BY <2>1 DEF Accepted
  <2>6. ~initialized => /\ \A v \in Workers : ~Claiming(v)
                        /\ \A i \in 1..Len(output) : ~Accepted(i)
    BY DEF Handshake
  <2> QED
    BY <2>1, <2>2, <2>3, <2>4, <2>5, <2>6 DEF Handshake
<1>13. ASSUME NEW w \in Workers, Check(w) PROVE Handshake'
  <2>1. requests' = requests /\ initialized' = initialized /\ output' = output
    BY <1>13 DEF Check
  <2>2. \A v \in Workers : Claiming(v)' => Claiming(v)
    BY <1>13, <2>1, WorkerMoves DEF Claiming, Alone
  <2>3. \A i : Accepted(i)' <=> Accepted(i)
    BY <2>1 DEF Accepted
  <2> QED
    BY <2>1, <2>2, <2>3 DEF Handshake
<1>14. ASSUME NEW w \in Workers, Write(w) PROVE Handshake'
  <2> DEFINE r == worker[w].request
  <2>1. r \in 0..Last /\ worker[w].reply \in ReplyKinds /\ worker[w].step = "writing"
    BY <1>0, <1>14 DEF Write, OnePlace, Points, ReplyKinds
  <2>2. \A i \in 1..Len(output') :
          \/ i \in 1..Len(output) /\ output'[i] = output[i]
          \/ /\ i = Len(output) + 1
             /\ output'[i].request = r /\ output'[i].reply = worker[w].reply
    <3>1. Reply(r, worker[w].reply)
      BY <1>14 DEF Write
    <3> QED
      BY <2>1, <3>1, Outputs
  <2>3. requests' = requests /\ initialized' = initialized
    BY <1>14 DEF Write
  <2>4. /\ \A v \in Workers : Claiming(v)' => Claiming(v)
        /\ ~Claiming(w)'
    BY <1>14, <2>3, WorkerMoves DEF Claiming, Alone
  <2>5. \A i \in 1..Len(output') : Accepted(i)' =>
          \/ i \in 1..Len(output) /\ Accepted(i)
          \/ i = Len(output) + 1 /\ Claiming(w)
    BY <2>1, <2>2, <2>3 DEF Accepted, Claiming
  <2> HIDE DEF r
  <2> QED
    BY <2>3, <2>4, <2>5 DEF Handshake
<1>15. ASSUME NEW w \in Workers, Release(w) PROVE Handshake'
  <2>1. requests' = requests /\ initialized' = initialized /\ output' = output
    BY <1>15 DEF Release
  <2>2. \A v \in Workers : Claiming(v)' => Claiming(v)
    BY <1>15, <2>1, WorkerMoves DEF Claiming, Alone
  <2>3. \A i : Accepted(i)' <=> Accepted(i)
    BY <2>1 DEF Accepted
  <2> QED
    BY <2>1, <2>2, <2>3 DEF Handshake
<1>16. ASSUME NEW w \in Workers, Exit(w) PROVE Handshake'
  <2>1. requests' = requests /\ initialized' = initialized /\ output' = output
    BY <1>16 DEF Exit
  <2>2. \A v \in Workers : Claiming(v)' => Claiming(v)
    BY <1>16, <2>1, WorkerMoves DEF Claiming, Alone
  <2>3. \A i : Accepted(i)' <=> Accepted(i)
    BY <2>1 DEF Accepted
  <2> QED
    BY <2>1, <2>2, <2>3 DEF Handshake
<1>17. CASE Returned
  BY <1>17 DEF Returned, vars, Handshake, Accepted, Claiming
<1> QED
  BY <1>1, <1>2, <1>3, <1>4, <1>5, <1>6, <1>7, <1>8, <1>9, <1>10, <1>11, <1>12,
     <1>13, <1>14, <1>15, <1>16, <1>17
     DEF Next, Offer, Work

-----------------------------------------------------------------------------
LEMMA HandshakeSafeKept ==
  ASSUME Types, OnePlace, Table, HandshakeSafe, Next
  PROVE  HandshakeSafe'
<1> USE DEF session
<1>0. Points
  BY ElementTypes
<1>1. CASE ReadRequest
  <2>1. PICK id \in Ids, method \in Methods : Entered(id, method)
    BY <1>1, Accepting
  <2>2. /\ queue' = queue /\ worker' = worker /\ aborted' = aborted /\ Last' = Last + 1
    BY <1>1, <2>1 DEF ReadRequest, Entered
  <2>3. Last + 1 \notin aborted
    BY <1>0 DEF Types, Points
  <2>4. \A r \in 1..Last : Uncancelled(r)' <=> Uncancelled(r)
    BY <2>1, <2>2 DEF Entered, Uncancelled
  <2>5. \A i \in 1..Len(queue') : Uncancelled(queue[i])'
    BY <1>0, <2>2, <2>4 DEF HandshakeSafe, Points, Uncancelled
  <2>6. \A w \in Workers : worker[w].request # Free => Uncancelled(worker[w].request)'
    BY <1>0, <2>2, <2>4 DEF HandshakeSafe, Points, Uncancelled
  <2>7. Uncancelled(Last)'
    BY <2>2, <2>3 DEF Uncancelled
  <2> QED
    BY <2>2, <2>5, <2>6, <2>7 DEF HandshakeSafe
<1>2. CASE ReadDuplicate
  BY <1>2 DEF ReadDuplicate, HandshakeSafe, Uncancelled, Last
<1>3. CASE ReadCancelled
  <2>1. PICK a \in active : requests[a.request].method # "initialize"
                            /\ aborted' = aborted \cup {a.request}
    BY <1>3 DEF ReadCancelled
  <2> QED
    BY <1>3, <2>1 DEF ReadCancelled, HandshakeSafe, Uncancelled, Last
<1>4. CASE ReadInitialized
  BY <1>4 DEF ReadInitialized, HandshakeSafe, Uncancelled, Last
<1>5. CASE InputEnds
  BY <1>5 DEF InputEnds, HandshakeSafe, Uncancelled, Last
<1>6. CASE Enqueue
  <2>1. /\ worker' = worker /\ aborted' = aborted /\ requests' = requests
        /\ reader = "offering" /\ reader' = "scanning"
    BY <1>6 DEF Enqueue
  <2>2. \A i \in 1..Len(queue') :
          \/ i \in 1..Len(queue) /\ queue'[i] = queue[i]
          \/ queue'[i] = Last
    <3>1. \A i \in 1..Len(queue') : i \in 1..Len(queue) \/ i = Len(queue) + 1
      BY <1>0, <1>6, Queued DEF Points
    <3> QED
      BY <1>6, <3>1, Queued
  <2> QED
    BY <2>1, <2>2 DEF HandshakeSafe, Uncancelled
<1>7. CASE GiveUp
  <2>1. /\ worker' = worker /\ queue' = queue /\ aborted' = aborted \cup {Last}
        /\ requests' = requests /\ reader = "offering" /\ reader' = "scanning"
    BY <1>7 DEF GiveUp
  <2> QED
    BY <2>1 DEF OnePlace, HandshakeSafe, Uncancelled
<1>8. CASE Busy
  <2>1. /\ worker' = worker /\ queue' = queue /\ aborted' = aborted \cup {Last}
        /\ requests' = requests /\ reader = "offering" /\ reader' = "scanning"
    BY <1>8 DEF Busy
  <2> QED
    BY <2>1 DEF OnePlace, HandshakeSafe, Uncancelled
<1>9. CASE Return
  BY <1>9 DEF Return, HandshakeSafe, Uncancelled, Last
<1>10. CASE CancelRoot
  BY <1>10 DEF CancelRoot, HandshakeSafe, Uncancelled, Last
<1>11. ASSUME NEW w \in Workers, Take(w) PROVE HandshakeSafe'
  <2>1. /\ Len(queue) > 0 /\ Len(queue') = Len(queue) - 1
        /\ \A i \in 1..Len(queue') : queue'[i] = queue[i + 1]
        /\ worker'[w].request = queue[1]
        /\ Alone(w)
    BY <1>11, Taken
  <2>2. requests' = requests /\ aborted' = aborted /\ reader' = reader /\ Last' = Last
    BY <1>11 DEF Take, Last
  <2>3. 1 \in 1..Len(queue) /\ \A i \in 1..Len(queue') : i + 1 \in 1..Len(queue)
    BY <1>0, <2>1 DEF Points
  <2> QED
    BY <2>1, <2>2, <2>3 DEF HandshakeSafe, Uncancelled, Alone
<1>12. ASSUME NEW w \in Workers, Dispatch(w) PROVE HandshakeSafe'
  <2>1. \A v \in Workers : worker'[v].request = worker[v].request
    BY <1>12, Dispatched DEF Alone
  <2>2. /\ requests' = requests /\ queue' = queue /\ reader' = reader
        /\ active' = active /\ rootDone' = rootDone /\ aborted' = aborted /\ Last' = Last
    BY <1>12 DEF Dispatch, Last
  <2> QED
    BY <2>1, <2>2 DEF HandshakeSafe, Uncancelled
<1>13. ASSUME NEW w \in Workers, Check(w) PROVE HandshakeSafe'
  <2>1. \A v \in Workers : worker'[v].request = worker[v].request
    BY <1>13, WorkerMoves DEF Alone
  <2> QED
    BY <1>13, <2>1 DEF Check, HandshakeSafe, Uncancelled, Last
<1>14. ASSUME NEW w \in Workers, Write(w) PROVE HandshakeSafe'
  <2>1. \A v \in Workers : worker'[v].request = worker[v].request
    BY <1>14, WorkerMoves DEF Alone
  <2> QED
    BY <1>14, <2>1 DEF Write, HandshakeSafe, Uncancelled, Last
<1>15. ASSUME NEW w \in Workers, Release(w) PROVE HandshakeSafe'
  <2>1. requests' = requests /\ aborted' = aborted /\ reader' = reader /\ queue' = queue
    BY <1>15 DEF Release
  <2> QED
    BY <1>15, <2>1, WorkerMoves DEF HandshakeSafe, Uncancelled, Alone, Last
<1>16. ASSUME NEW w \in Workers, Exit(w) PROVE HandshakeSafe'
  <2>1. \A v \in Workers : worker'[v].request = worker[v].request
    BY <1>16, WorkerMoves DEF Alone
  <2> QED
    BY <1>16, <2>1 DEF Exit, HandshakeSafe, Uncancelled, Last
<1>17. CASE Returned
  BY <1>17 DEF Returned, vars, HandshakeSafe, Uncancelled, Last
<1> QED
  BY <1>1, <1>2, <1>3, <1>4, <1>5, <1>6, <1>7, <1>8, <1>9, <1>10, <1>11, <1>12,
     <1>13, <1>14, <1>15, <1>16, <1>17
     DEF Next, Offer, Work

-----------------------------------------------------------------------------
LEMMA InitHolds == Init => IInv
<1> SUFFICES ASSUME Init PROVE IInv
  OBVIOUS
<1>1. Last = 0 /\ Len(queue) = 0 /\ Len(output) = 0
  BY DEF Init, Last
<1>2. Types
  <2>1. Idle \in [request : (1..Last) \cup {Free}, step : WorkerSteps, reply : WorkerReplies]
    BY DEF Idle, WorkerSteps, WorkerReplies
  <2>2. \A S : << >> \in Seq(S)
    BY EmptySeq
  <2> QED
    BY <2>1, <2>2 DEF Init, Types
<1>3. \A w \in Workers : worker[w].request = Free /\ worker[w].step = "idle"
  BY DEF Init, Idle
<1>4. 1..0 = {}
  OBVIOUS
<1>5. OnePlace
  BY <1>1, <1>3, <1>4 DEF Init, OnePlace
<1>6. Table /\ Answered
  BY <1>1, <1>3, <1>4 DEF Init, Table, Answered
<1>7. Handshake /\ HandshakeSafe
  BY <1>1, <1>3, <1>4 DEF Init, Handshake, HandshakeSafe, Claiming
<1> QED
  BY <1>2, <1>5, <1>6, <1>7 DEF IInv

LEMMA StepKeeps == IInv /\ [Next]_vars => IInv'
<1> SUFFICES ASSUME IInv, [Next]_vars PROVE IInv'
  OBVIOUS
<1>1. CASE Next
  BY <1>1, TypesKept, OnePlaceKept, TableKept, AnsweredKept, HandshakeKept, HandshakeSafeKept
  DEF IInv
<1>2. CASE UNCHANGED vars
  BY <1>2 DEF vars, session, IInv, Types, OnePlace, Table, Entry, Answered, Handshake,
     Accepted, Claiming, HandshakeSafe, Uncancelled, Last
<1> QED
  BY <1>1, <1>2

(***************************************************************************)
(* The invariant of the server, whatever the client sends.                 *)
(***************************************************************************)
THEOREM Invariance == Spec => []IInv
  BY InitHolds, StepKeeps, PTL DEF Spec

(***************************************************************************)
(* Every request in flight can be found, and cancelled, under its own id;  *)
(* and until shutdown nothing else is in the table, so no id is refused as *)
(* a duplicate for a request that is over.                                 *)
(***************************************************************************)
THEOREM TableIsExact == Spec => []TableExact
<1>1. IInv => TableExact
  <2> SUFFICES ASSUME IInv PROVE TableExact
    OBVIOUS
  <2>1. \A r \in InFlight :
          \/ \E i \in 1..Len(queue) : queue[i] = r
          \/ \E w \in Workers : worker[w].request = r /\ r # Free
          \/ reader = "offering" /\ r = Last
    BY DEF InFlight
  <2>2. \A r \in InFlight : Entry(r) \in active
    BY <2>1 DEF IInv, Table
  <2>3. \A i \in 1..Len(queue) : queue[i] \in InFlight
    BY DEF InFlight
  <2>4. \A w \in Workers : worker[w].request # Free => worker[w].request \in InFlight
    BY DEF InFlight
  <2>5. reader = "offering" => Last \in InFlight
    BY DEF InFlight
  <2>6. \A a \in active : a.request # Free
    BY ElementTypes DEF IInv, Points
  <2>7. ~rootDone => \A a \in active : a.request \in InFlight
    BY <2>3, <2>4, <2>5, <2>6 DEF IInv, Table
  <2> QED
    BY <2>2, <2>7 DEF TableExact, Entry, IInv, Table
<1> QED
  BY <1>1, Invariance, PTL

(* A set with at most one element.                                         *)
LEMMA AtMostOne ==
  ASSUME NEW S, \A x, y \in S : x = y
  PROVE  Cardinality(S) <= 1
<1>1. CASE S = {}
  BY <1>1, FS_EmptySet
<1>2. CASE S # {}
  <2>1. PICK x \in S : TRUE
    BY <1>2
  <2>2. S = {x}
    BY <2>1
  <2> QED
    BY <2>2, FS_Singleton
<1> QED
  BY <1>1, <1>2

(***************************************************************************)
(* No request is answered twice, one initialize at most is accepted, and   *)
(* no initialize in flight is ever cancelled by the client.                *)
(***************************************************************************)
THEOREM AnsweredAtMostOnce == Spec => []AnsweredOnce
<1>1. IInv => AnsweredOnce
  <2> SUFFICES ASSUME IInv PROVE AnsweredOnce
    OBVIOUS
  <2>1. \A r \in 1..Last : Cardinality(Replies(r)) <= 1
    <3> TAKE r \in 1..Last
    <3>1. r # 0
      BY ElementTypes DEF IInv, Points
    <3>2. \A i, j \in Replies(r) : i = j
      BY <3>1 DEF IInv, Answered, Replies
    <3> QED
      BY <3>2, AtMostOne
  <2>2. Cardinality({ i \in 1..Len(output) :
          /\ output[i].request # 0
          /\ requests[output[i].request].method = "initialize"
          /\ output[i].reply = "ok" }) <= 1
    <3> DEFINE accepted == { i \in 1..Len(output) :
                 /\ output[i].request # 0
                 /\ requests[output[i].request].method = "initialize"
                 /\ output[i].reply = "ok" }
    <3>1. \A i, j \in accepted : i = j
      BY DEF IInv, Handshake, Accepted
    <3> HIDE DEF accepted
    <3>2. Cardinality(accepted) <= 1
      BY <3>1, AtMostOne
    <3> QED
      BY <3>2 DEF accepted
  <2>3. \A r \in InFlight : requests[r].method = "initialize" => r \notin aborted
    BY DEF IInv, HandshakeSafe, Uncancelled, InFlight
  <2> QED
    BY <2>1, <2>2, <2>3 DEF AnsweredOnce, OneHandshake
<1> QED
  BY <1>1, Invariance, PTL

=============================================================================
