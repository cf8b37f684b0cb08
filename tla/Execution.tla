----------------------------- MODULE Execution -----------------------------
(***************************************************************************)
(* What a caller may rely on of embed.Execute, whatever its goroutines and *)
(* channels do: request groups leave a queue, at most Concurrency of them  *)
(* are at the provider, each comes back as one outcome, outcomes are       *)
(* collected one at a time and a valid one is handed to the success        *)
(* handler before the next is collected.  Execute ends when nothing is     *)
(* left, or, after a handler error or a cancellation, when every group at  *)
(* the provider is back; what it returns holds the outcome of every group  *)
(* that was sent.  EmbedService takes Execute in this form.                *)
(***************************************************************************)
EXTENDS Integers, FiniteSets

CONSTANTS
  Groups,        \* request groups
  Concurrency,   \* groups at the provider at a time
  Verdicts,      \* what becomes of a group: "valid", "cancelled" or an error
  Attempts       \* provider calls a group may take

VARIABLES
  queue,      \* groups not sent
  flying,     \* groups at the provider
  arrived,    \* outcomes not collected: [group, verdict, attempts]
  outcomes,   \* outcomes collected
  handling,   \* the group the success handler is at: a set of one or none
  handled,    \* groups the handler accepted
  result,     \* "none" while Execute runs to its end, then "ok", "handler" or "cancelled"
  returned

executionVars == <<queue, flying, arrived, outcomes, handling, handled, result, returned>>

Init ==
  /\ queue = Groups
  /\ flying = {} /\ arrived = {} /\ outcomes = {} /\ handling = {} /\ handled = {}
  /\ result = "none" /\ returned = FALSE

Running == result = "none"

Send ==
  /\ Running /\ handling = {}
  /\ Cardinality(flying) < Concurrency
  /\ \E g \in queue : queue' = queue \ {g} /\ flying' = flying \cup {g}
  /\ UNCHANGED <<arrived, outcomes, handling, handled, result, returned>>

(* Workers go on while the handler runs; once the loop stops, what is      *)
(* still at the provider comes back cancelled.                             *)
Answer ==
  /\ ~returned
  /\ \E g \in flying : \E v \in Verdicts, n \in Attempts :
       /\ ~Running => v = "cancelled"
       /\ flying' = flying \ {g}
       /\ arrived' = arrived \cup {[group |-> g, verdict |-> v, attempts |-> n]}
  /\ UNCHANGED <<queue, outcomes, handling, handled, result, returned>>

Collect ==
  /\ Running /\ handling = {}
  /\ \E o \in arrived :
       /\ arrived' = arrived \ {o} /\ outcomes' = outcomes \cup {o}
       /\ handling' = IF o.verdict = "valid" THEN {o.group} ELSE {}
  /\ UNCHANGED <<queue, flying, handled, result, returned>>

Accept ==
  /\ Running /\ handling # {}
  /\ handled' = handled \cup handling /\ handling' = {}
  /\ UNCHANGED <<queue, flying, arrived, outcomes, result, returned>>

(* The handler failed, or the caller's context is done.                    *)
Stop ==
  /\ Running
  /\ result' = IF handling = {} THEN "cancelled" ELSE "handler"
  /\ handling' = {}
  /\ UNCHANGED <<queue, flying, arrived, outcomes, handled, returned>>

Drain ==
  /\ ~Running /\ ~returned /\ flying = {}
  /\ outcomes' = outcomes \cup arrived /\ arrived' = {}
  /\ returned' = TRUE
  /\ UNCHANGED <<queue, flying, handling, handled, result>>

Finish ==
  /\ Running /\ handling = {}
  /\ queue = {} /\ flying = {} /\ arrived = {}
  /\ result' \in {"ok", "cancelled"} /\ returned' = TRUE
  /\ UNCHANGED <<queue, flying, arrived, outcomes, handling, handled>>

Next == Send \/ Answer \/ Collect \/ Accept \/ Stop \/ Drain \/ Finish
Spec == Init /\ [][Next]_executionVars
=============================================================================
