----------------------------- MODULE McpServer -----------------------------
(***************************************************************************)
(* Server.Serve: one reader of the client's frames, a bounded queue, a     *)
(* pool of workers, and one writer of response frames.  The table of       *)
(* active requests is keyed by request id; the reader enters a request and *)
(* the worker that finished it deletes the entry, each under activeMu, but *)
(* not in one step with the queue or with the response.                    *)
(*                                                                         *)
(* A client may send anything: reuse ids, cancel what it likes, initialize *)
(* twice, close its end at any moment.  Malformed frames are answered by   *)
(* the reader alone and touch none of this state; they are left out.       *)
(***************************************************************************)
EXTENDS Integers, Sequences, FiniteSets, Functions

CONSTANTS
  Ids,        \* request ids the client uses
  Workers,    \* limit workers, and a queue of limit places
  Free,       \* a worker without a request
  MaxFrames   \* bound on the frames a client sends

ASSUME McpAssumption ==
  /\ IsFiniteSet(Workers) /\ Workers # {}
  /\ Free \notin Nat
  /\ MaxFrames \in Nat

Methods == {"initialize", "tools/call", "ping"}
Limit == Cardinality(Workers)

VARIABLES
  requests,     \* accepted request frames in order: [id, method]
  reader,       \* "scanning", "offering" the last request, "closing", "returned"
  active,       \* set of [id, request]: the active map
  queue,        \* requests waiting for a worker
  worker,       \* worker -> [request, step, reply]
  aborted,      \* requests whose own context was cancelled
  rootDone,     \* the root context is cancelled
  initialized, ready,  \* lifecycle
  output,       \* response frames written: [request, reply]
  broken,       \* frameWriter.failure is set
  frames        \* frames sent, counted against MaxFrames

session == <<initialized, ready>>
vars == <<requests, reader, active, queue, worker, aborted, rootDone, session,
          output, broken, frames>>

Idle == [request |-> Free, step |-> "idle", reply |-> "none"]

Init ==
  /\ requests = << >> /\ reader = "scanning" /\ active = {} /\ queue = << >>
  /\ worker = [w \in Workers |-> Idle]
  /\ aborted = {} /\ rootDone = FALSE
  /\ initialized = FALSE /\ ready = FALSE
  /\ output = << >> /\ broken = FALSE /\ frames = 0

Last == Len(requests)
Aborted(r) == r \in aborted \/ rootDone
Drop(id) == { a \in active : a.id # id }

(* writer.write by the reader: after a failed write nothing is written.    *)
Reply(r, reply) ==
  \/ /\ ~broken
     /\ output' = Append(output, [request |-> r, reply |-> reply])
     /\ UNCHANGED <<broken, rootDone>>
  \/ /\ broken' = TRUE
     /\ rootDone' = TRUE
     /\ UNCHANGED output

-----------------------------------------------------------------------------
(* The reader.                                                             *)

Scan ==
  /\ reader = "scanning"
  /\ frames < MaxFrames
  /\ frames' = frames + 1

(* A request whose id is not active is entered, then offered to the queue. *)
ReadRequest ==
  /\ Scan
  /\ \E id \in Ids, method \in Methods :
       /\ \A a \in active : a.id # id
       /\ requests' = Append(requests, [id |-> id, method |-> method])
       /\ active' = active \cup {[id |-> id, request |-> Last + 1]}
  /\ reader' = "offering"
  /\ UNCHANGED <<queue, worker, aborted, rootDone, session, output, broken>>

(* Answered DUPLICATE_REQUEST_ID; request 0 stands for no request.         *)
ReadDuplicate ==
  /\ Scan
  /\ active # {}
  /\ Reply(0, "duplicate")
  /\ UNCHANGED <<requests, reader, active, queue, worker, aborted, session>>

Enqueue ==
  /\ reader = "offering"
  /\ Len(queue) < Limit
  /\ queue' = Append(queue, Last)
  /\ reader' = "scanning"
  /\ UNCHANGED <<requests, active, worker, aborted, rootDone, session, output, broken, frames>>

(* The other ready case of the select: the entry stays in the table.       *)
GiveUp ==
  /\ reader = "offering"
  /\ rootDone
  /\ aborted' = aborted \cup {Last}
  /\ reader' = "scanning"
  /\ UNCHANGED <<requests, active, queue, worker, rootDone, session, output, broken, frames>>

(* A bug this project can tell: after the busy answer it offers again.     *)
BusyFallsThrough ==
  /\ reader = "offering"
  /\ ~rootDone /\ Len(queue) = Limit
  /\ Reply(Last, "busy")
  /\ UNCHANGED <<requests, reader, active, queue, worker, aborted, session, frames>>

Busy ==
  /\ reader = "offering"
  /\ ~rootDone /\ Len(queue) = Limit
  /\ aborted' = aborted \cup {Last}
  /\ active' = Drop(requests[Last].id)
  /\ Reply(Last, "busy")
  /\ reader' = "scanning"
  /\ UNCHANGED <<requests, queue, worker, session, frames>>

(* A bug this project can tell: an initialize request is cancelled too.    *)
CancelAny ==
  /\ Scan
  /\ \E a \in active : aborted' = aborted \cup {a.request}
  /\ UNCHANGED <<requests, reader, active, queue, worker, rootDone, session, output, broken>>

(* notifications/cancelled: initialize cannot be cancelled.                *)
ReadCancelled ==
  /\ Scan
  /\ \E a \in active :
       /\ requests[a.request].method # "initialize"
       /\ aborted' = aborted \cup {a.request}
  /\ UNCHANGED <<requests, reader, active, queue, worker, rootDone, session, output, broken>>

(* notifications/initialized: markReady, ignored before initialize.        *)
ReadInitialized ==
  /\ Scan
  /\ ready' = (ready \/ initialized)
  /\ UNCHANGED <<requests, reader, active, queue, worker, aborted, rootDone, initialized,
                 output, broken>>

(* End of input, or input closed because the root context is done.         *)
InputEnds ==
  /\ reader = "scanning"
  /\ rootDone' = TRUE
  /\ reader' = "closing"
  /\ UNCHANGED <<requests, active, queue, worker, aborted, session, output, broken, frames>>

Return ==
  /\ reader = "closing"
  /\ \A w \in Workers : worker[w].step = "exited"
  /\ reader' = "returned"
  /\ UNCHANGED <<requests, active, queue, worker, aborted, rootDone, session, output, broken,
                 frames>>

-----------------------------------------------------------------------------
(* The workers.                                                            *)

Take(w) ==
  /\ worker[w].step = "idle"
  /\ queue # << >>
  /\ worker' = [worker EXCEPT ![w] = [request |-> Head(queue), reply |-> "none",
                  step |-> IF Aborted(Head(queue)) THEN "finished" ELSE "dispatching"]]
  /\ queue' = Tail(queue)
  /\ UNCHANGED <<requests, reader, active, aborted, rootDone, session, output, broken, frames>>

Answer(method) ==
  IF method = "initialize" /\ initialized THEN "already_initialized"
  ELSE IF method = "tools/call" /\ ~ready THEN "not_initialized" ELSE "ok"

(* A bug this project can tell: the entry goes before the response.        *)
ReleaseEarly(w) ==
  /\ worker[w].step = "dispatching"
  /\ LET method == requests[worker[w].request].method
     IN /\ worker' = [worker EXCEPT ![w].reply = Answer(method), ![w].step = "checking"]
        /\ initialized' = (initialized \/ method = "initialize")
  /\ active' = Drop(requests[worker[w].request].id)
  /\ UNCHANGED <<requests, reader, queue, aborted, rootDone, ready, output, broken, frames>>

(* dispatch, which claims the session for the first initialize.            *)
Dispatch(w) ==
  /\ worker[w].step = "dispatching"
  /\ LET method == requests[worker[w].request].method
     IN /\ worker' = [worker EXCEPT ![w].reply = Answer(method), ![w].step = "checking"]
        /\ initialized' = (initialized \/ method = "initialize")
  /\ UNCHANGED <<requests, reader, active, queue, aborted, rootDone, ready, output, broken, frames>>

(* A cancellation seen here leaves the request without a response ...      *)
Check(w) ==
  /\ worker[w].step = "checking"
  /\ worker' = [worker EXCEPT ![w].step =
                  IF Aborted(worker[w].request) THEN "finished" ELSE "writing"]
  /\ UNCHANGED <<requests, reader, active, queue, aborted, rootDone, session, output, broken,
                 frames>>

(* ... one that comes later does not.                                      *)
Write(w) ==
  /\ worker[w].step = "writing"
  /\ Reply(worker[w].request, worker[w].reply)
  /\ worker' = [worker EXCEPT ![w].step = "finished"]
  /\ UNCHANGED <<requests, reader, active, queue, aborted, session, frames>>

Release(w) ==
  /\ worker[w].step = "finished"
  /\ active' = Drop(requests[worker[w].request].id)
  /\ worker' = [worker EXCEPT ![w] = Idle]
  /\ UNCHANGED <<requests, reader, queue, aborted, rootDone, session, output, broken, frames>>

(* Bugs this project can tell: a worker that finds nothing to do leaves,   *)
(* or the queue is closed only after the workers were waited for.          *)
ExitWhenIdle(w) ==
  /\ worker[w].step = "idle" /\ queue = << >>
  /\ worker' = [worker EXCEPT ![w].step = "exited"]
  /\ UNCHANGED <<requests, reader, active, queue, aborted, rootDone, session, output, broken,
                 frames>>

ExitAfterReturn(w) ==
  /\ worker[w].step = "idle"
  /\ reader = "returned" /\ queue = << >>
  /\ worker' = [worker EXCEPT ![w].step = "exited"]
  /\ UNCHANGED <<requests, reader, active, queue, aborted, rootDone, session, output, broken,
                 frames>>

Exit(w) ==
  /\ worker[w].step = "idle"
  /\ reader = "closing" /\ queue = << >>
  /\ worker' = [worker EXCEPT ![w].step = "exited"]
  /\ UNCHANGED <<requests, reader, active, queue, aborted, rootDone, session, output, broken,
                 frames>>

Work(w) == Take(w) \/ Dispatch(w) \/ Check(w) \/ Write(w) \/ Release(w) \/ Exit(w)

-----------------------------------------------------------------------------
(* The caller of Serve cancels its context.                                *)
CancelRoot ==
  /\ ~rootDone
  /\ rootDone' = TRUE
  /\ UNCHANGED <<requests, reader, active, queue, worker, aborted, session, output, broken, frames>>

Returned == reader = "returned" /\ UNCHANGED vars

Offer == Enqueue \/ GiveUp \/ Busy

Next ==
  \/ ReadRequest \/ ReadDuplicate \/ ReadCancelled \/ ReadInitialized \/ InputEnds
  \/ Offer \/ Return \/ CancelRoot \/ Returned
  \/ \E w \in Workers : Work(w)

(***************************************************************************)
(* Goroutines that can run are scheduled; tool handlers return.  The       *)
(* client owes nothing; once the root context is done the input is closed. *)
(***************************************************************************)
Spec ==
  /\ Init /\ [][Next]_vars
  /\ WF_vars(Offer) /\ WF_vars(Return) /\ WF_vars(rootDone /\ InputEnds)
  /\ \A w \in Workers : WF_vars(Work(w))

-----------------------------------------------------------------------------
InFlight ==
  {queue[i] : i \in 1..Len(queue)}
  \cup {worker[w].request : w \in {v \in Workers : worker[v].request # Free}}
  \cup (IF reader = "offering" THEN {Last} ELSE {})

Replies(r) == { i \in 1..Len(output) : output[i].request = r }

(***************************************************************************)
(* The table is exact: every request in flight is findable under its own   *)
(* id (so that it can be cancelled, and its id is not taken twice), and    *)
(* until shutdown the table names nothing else.                            *)
(***************************************************************************)
TableExact ==
  /\ \A r \in InFlight : [id |-> requests[r].id, request |-> r] \in active
  /\ \A a, b \in active : a.id = b.id => a = b
  /\ ~rootDone => \A a \in active : a.request \in InFlight

(***************************************************************************)
(* No request is answered twice, busy and late answers included, and one   *)
(* client gets the session: of all initialize requests, pipelined or       *)
(* retried, at most one succeeds, and cancelling never kills one: it stays *)
(* without an answer only when the server stops or is busy.                *)
(***************************************************************************)
OneHandshake ==
  /\ Cardinality({ i \in 1..Len(output) :
       /\ output[i].request # 0
       /\ requests[output[i].request].method = "initialize"
       /\ output[i].reply = "ok" }) <= 1
  /\ \A r \in InFlight : requests[r].method = "initialize" => r \notin aborted

AnsweredOnce ==
  /\ \A r \in 1..Last : Cardinality(Replies(r)) <= 1
  /\ OneHandshake

(***************************************************************************)
(* Every accepted request is answered, unless the client cancelled it or   *)
(* the server shuts down: the queue never starves, and no request is       *)
(* dropped between the table, the queue and a worker.                      *)
(***************************************************************************)
EveryRequestAnswered ==
  \A r \in 1..MaxFrames :
    r <= Last ~> (Replies(r) # {} \/ r \in aborted \/ rootDone)

(* Serve returns once its context is cancelled, its client gone or broken. *)
ServeReturns == rootDone ~> reader = "returned"

=============================================================================
