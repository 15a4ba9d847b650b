----------------------------- MODULE EgressPool -----------------------------
(***************************************************************************)
(* The pool of egress nodes (x/egress.py) under the JSON client that uses  *)
(* it (x/http.py).  Threads share the cursor of the round robin and the    *)
(* counters of the nodes, each step of which is made under the pool's      *)
(* lock; between the steps of one call those of others run.                *)
(***************************************************************************)
EXTENDS Naturals, Sequences, FiniteSets

CONSTANTS Callers,     \* threads
          Nodes,       \* number of nodes; a node is its index
          MaxAttempts, \* max_attempts
          MaxCalls     \* bound on the calls

ASSUME EgressAssumption ==
  /\ Nodes \in Nat \ {0} /\ MaxCalls \in Nat
  /\ MaxAttempts \in 1..Nodes

VARIABLES next,     \* _cursor
          calls,    \* calls made so far
          counters, \* of each node: attempts, successes, failures
          calling,  \* the call of each thread
          chosen,   \* of each node: calls that tried it first
          got       \* what the last get_json of each thread returned

egressVars == <<next, calls, counters, calling, chosen, got>>

NodeIds == 0..(Nodes - 1)

NoCall == [route |-> <<>>, open |-> FALSE]

EgressInit ==
  /\ next = 0 /\ calls = 0
  /\ counters = [n \in NodeIds |-> [attempts |-> 0, successes |-> 0, failures |-> 0]]
  /\ calling = [c \in Callers |-> NoCall]
  /\ chosen = [n \in NodeIds |-> 0]
  /\ got = [c \in Callers |-> "nothing"]

\* The call continues behind the nodes it may try.
SlipAdvance(cursor) == (cursor + MaxAttempts) % Nodes

Advance(cursor) == (cursor + 1) % Nodes

\* get_json calls open, and open calls _route.
Route(c) ==
  /\ calling[c] = NoCall /\ calls < MaxCalls
  /\ calls' = calls + 1
  /\ calling' = [calling EXCEPT ![c].route = [k \in 1..MaxAttempts |-> (next + k - 1) % Nodes]]
  /\ chosen' = [chosen EXCEPT ![next] = @ + 1]
  /\ next' = Advance(next)
  /\ UNCHANGED <<counters, got>>

MarkAttempt(c) ==
  /\ calling[c].route # <<>> /\ ~calling[c].open
  /\ calling' = [calling EXCEPT ![c].open = TRUE]
  /\ counters' = [counters EXCEPT ![Head(calling[c].route)].attempts = @ + 1]
  /\ UNCHANGED <<next, calls, chosen, got>>

\* A node that does not answer, or answers with a status worth another node:
\* the next one is tried, and after the last get_json raises.
MarkFailure(c) ==
  /\ calling[c].open
  /\ counters' = [counters EXCEPT ![Head(calling[c].route)].failures = @ + 1]
  /\ calling' = [calling EXCEPT ![c] = [route |-> Tail(@.route), open |-> FALSE]]
  /\ got' = IF Tail(calling[c].route) = <<>> THEN [got EXCEPT ![c] = "error"] ELSE got
  /\ UNCHANGED <<next, calls, chosen>>

\* Any other answer ends the call, also an HTTP error that is raised again.
\* What get_json makes of it is its own affair: the document, None for 204, or
\* an error for another status, too long a body or one that is not JSON.
MarkSuccess(c) ==
  /\ calling[c].open
  /\ counters' = [counters EXCEPT ![Head(calling[c].route)].successes = @ + 1]
  /\ calling' = [calling EXCEPT ![c] = NoCall]
  /\ \E answer \in {"document", "nothing", "error"} : got' = [got EXCEPT ![c] = answer]
  /\ UNCHANGED <<next, calls, chosen>>

EgressNext ==
  \E c \in Callers : Route(c) \/ MarkAttempt(c) \/ MarkFailure(c) \/ MarkSuccess(c)

-----------------------------------------------------------------------------

\* The load is spread: whatever the calls that overlap and fail, no node is tried
\* first more than once more often than another ("Thread-safe round-robin
\* routing", egress.py:121); and the counters that the status view shows add up:
\* an attempt that is neither a success nor a failure is under way.
EvenAndExact ==
  \A n \in NodeIds :
    /\ \A m \in NodeIds : chosen[n] <= chosen[m] + 1
    /\ counters[n].attempts =
         counters[n].successes + counters[n].failures
           + Cardinality({c \in Callers : calling[c].open /\ Head(calling[c].route) = n})
=============================================================================
