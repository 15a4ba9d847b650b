----------------------------- MODULE PartsProofs -----------------------------
(***************************************************************************)
(* Proofs about the parts between the sources and a buy: access to X, BSC  *)
(* and DeBot (the pool of egress nodes and its counters, the quotes of the *)
(* market, the client and its login, the repository of statuses and its    *)
(* cache), research and the judgements on it (the research of a trigger,   *)
(* the investigation, the gate, the replay), the entry window and its      *)
(* chain, the paper trade, the audit of a DEX.  Any number of threads, of  *)
(* edits, of statuses, of nodes, of seconds and of tokens, any reserves    *)
(* and taxes.  Each part is proved about by itself, as a specification of  *)
(* its own.                                                                *)
(***************************************************************************)
EXTENDS EgressPool, MarketQuote, DebotLogin, StatusRepository, TriggerResearch, Investigation,
        NarrativeGate, CausalReplay, EntryWindow, PaperTrade, DexAudit,
        FiniteSetTheorems, SequenceTheorems, TLAPS

-----------------------------------------------------------------------------
(* EgressPool *)

EgressSpec == EgressInit /\ [][EgressNext]_egressVars

\* The calls that are waiting for the answer of node n.
OpenOn(n) == {c \in Callers : calling[c].open /\ Head(calling[c].route) = n}

\* The nodes before the cursor have been first once more than the others.
Even(turns) == \A n \in NodeIds : chosen[n] = IF n < next THEN turns + 1 ELSE turns

Call == [route : Seq(NodeIds), open : BOOLEAN]

CallSound(c) ==
  /\ calling[c] \in Call
  /\ calling[c].open => calling[c].route # <<>>

CountSound(n) ==
  /\ counters[n] = [attempts |-> counters[n].attempts, successes |-> counters[n].successes,
                    failures |-> counters[n].failures]
  /\ counters[n].attempts \in Nat /\ counters[n].successes \in Nat /\ counters[n].failures \in Nat
  /\ IsFiniteSet(OpenOn(n))
  /\ counters[n].attempts
       = counters[n].successes + counters[n].failures + Cardinality(OpenOn(n))

EgressInv ==
  /\ next \in NodeIds
  /\ chosen = [n \in NodeIds |-> chosen[n]]
  /\ counters = [n \in NodeIds |-> counters[n]]
  /\ calling = [c \in Callers |-> calling[c]]
  /\ \E turns \in Nat : Even(turns)
  /\ \A c \in Callers : CallSound(c)
  /\ \A n \in NodeIds : CountSound(n)

\* The remainder, for a number up to twice the divisor.
LEMMA AroundOnce ==
  ASSUME NEW m \in Nat, m < 2 * Nodes
  PROVE  m % Nodes = IF m < Nodes THEN m ELSE m - Nodes
<1>1. Nodes \in Nat /\ Nodes > 0
  BY EgressAssumption
<1>2. m = Nodes * (m \div Nodes) + (m % Nodes) /\ m % Nodes \in 0..(Nodes - 1) /\ m \div Nodes \in Nat
  BY <1>1
<1> QED BY <1>1, <1>2

LEMMA Remainder ==
  ASSUME NEW m \in Nat
  PROVE  m % Nodes \in NodeIds
  BY EgressAssumption DEF NodeIds

\* The calls of one thread, and no node but one, are concerned by its step.
LEMMA CallMoves ==
  ASSUME EgressInv, NEW c \in Callers, NEW call, calling' = [calling EXCEPT ![c] = call],
         call \in Call, call.open => call.route # <<>>
  PROVE  /\ calling' = [d \in Callers |-> calling'[d]] /\ calling'[c] = call
         /\ \A d \in Callers : d # c => calling'[d] = calling[d]
         /\ \A d \in Callers : CallSound(d)'
<1>1. /\ calling' = [d \in Callers |-> calling'[d]] /\ calling'[c] = call
      /\ \A d \in Callers : d # c => calling'[d] = calling[d]
  BY DEF EgressInv
<1>2. CallSound(c)'
  BY <1>1 DEF CallSound
<1>3. \A d \in Callers : d # c => CallSound(d)'
  BY <1>1 DEF CallSound, EgressInv
<1> QED BY <1>1, <1>2, <1>3

LEMMA CallFields ==
  ASSUME NEW call \in Call, NEW route \in Seq(NodeIds)
  PROVE  /\ [call EXCEPT !.open = TRUE] \in Call
         /\ [call EXCEPT !.open = TRUE].route = call.route
         /\ [call EXCEPT !.open = TRUE].open
         /\ [call EXCEPT !.route = route] \in Call
         /\ [call EXCEPT !.route = route].route = route
         /\ [call EXCEPT !.route = route].open = call.open
         /\ [route |-> route, open |-> FALSE] \in Call
         /\ NoCall \in Call /\ ~NoCall.open
<1>1. [call EXCEPT !.open = TRUE] \in Call
  BY DEF Call
<1>2. [call EXCEPT !.open = TRUE].route = call.route
  BY DEF Call
<1>3. [call EXCEPT !.open = TRUE].open
  BY DEF Call
<1>4. [call EXCEPT !.route = route] \in Call
  BY DEF Call
<1>5. [call EXCEPT !.route = route].route = route
  BY DEF Call
<1>6. [call EXCEPT !.route = route].open = call.open
  BY DEF Call
<1>7. [route |-> route, open |-> FALSE] \in Call
  BY DEF Call
<1>8. NoCall \in Call
  BY DEF Call, NoCall
<1>9. ~NoCall.open
  BY DEF NoCall
<1> QED BY <1>1, <1>2, <1>3, <1>4, <1>5, <1>6, <1>7, <1>8, <1>9

LEMMA RouteKept == ASSUME EgressInv, NEW c \in Callers, Route(c) PROVE EgressInv'
<1> DEFINE route == [k \in 1..MaxAttempts |-> (next + k - 1) % Nodes]
           call == [calling[c] EXCEPT !.route = route]
<1>0. /\ Nodes \in Nat /\ Nodes > 0 /\ MaxAttempts \in Nat
      /\ next \in Nat /\ next < Nodes
  BY EgressAssumption DEF EgressInv, NodeIds
<1>1. route \in Seq(NodeIds)
  <2>1. \A k \in 1..MaxAttempts : (next + k - 1) % Nodes \in NodeIds
    <3> TAKE k \in 1..MaxAttempts
    <3>1. next + k - 1 \in Nat
      BY <1>0
    <3> QED BY <3>1, Remainder
  <2> QED BY <1>0, <2>1
<1> HIDE DEF route
<1>2. call \in Call /\ ~call.open
  BY <1>1, CallFields DEF Route, EgressInv, CallSound
<1>3. /\ calling' = [calling EXCEPT ![c] = call] /\ ~calling[c].open
      /\ chosen' = [chosen EXCEPT ![next] = chosen[next] + 1]
      /\ next' = Advance(next) /\ counters' = counters
  BY DEF Route, NoCall, route
<1> HIDE DEF call
<1>4. /\ calling' = [d \in Callers |-> calling'[d]] /\ calling'[c] = call
      /\ \A d \in Callers : d # c => calling'[d] = calling[d]
      /\ \A d \in Callers : CallSound(d)'
  BY <1>1, <1>2, <1>3, CallMoves
<1>5. \A n \in NodeIds : CountSound(n)'
  <2>1. \A n \in NodeIds : OpenOn(n)' = OpenOn(n)
    BY <1>2, <1>3, <1>4 DEF OpenOn
  <2> QED BY <1>3, <2>1 DEF EgressInv, CountSound
<1>6. next' = (IF next + 1 < Nodes THEN next + 1 ELSE 0) /\ next' \in NodeIds
  BY <1>0, <1>3, AroundOnce DEF Advance, NodeIds
<1>7. \E turns \in Nat : Even(turns)'
  <2>1. PICK turns \in Nat : Even(turns)
    BY DEF EgressInv
  <2>2. chosen'[next] = turns + 1 /\ \A n \in NodeIds : n # next => chosen'[n] = chosen[n]
    BY <1>0, <1>3, <2>1 DEF EgressInv, Even
  <2>3. CASE next + 1 < Nodes
    <3>1. Even(turns)'
      BY <1>0, <1>6, <2>1, <2>2, <2>3 DEF Even, NodeIds
    <3> QED BY <3>1
  <2>4. CASE ~(next + 1 < Nodes)
    <3>1. \A n \in NodeIds : chosen'[n] = turns + 1
      BY <1>0, <2>1, <2>2, <2>4 DEF Even, NodeIds
    <3>2. \A n \in NodeIds : ~(n < next')
      BY <1>0, <1>6, <2>4 DEF NodeIds
    <3>3. Even(turns + 1)'
      BY <3>1, <3>2 DEF Even
    <3> QED BY <3>3
  <2> QED BY <2>3, <2>4
<1> QED BY <1>3, <1>4, <1>5, <1>6, <1>7 DEF EgressInv

\* An attempt that begins, or ends in success or failure, at node n.
LEMMA MarkKept ==
  ASSUME EgressInv, NEW c \in Callers, NEW n \in NodeIds, NEW call, NEW count,
         calling' = [calling EXCEPT ![c] = call], counters' = [counters EXCEPT ![n] = count],
         UNCHANGED <<next, chosen>>,
         call \in Call, call.open => call.route # <<>>,
         count = [attempts |-> count.attempts, successes |-> count.successes,
                  failures |-> count.failures],
         count.attempts \in Nat, count.successes \in Nat, count.failures \in Nat,
         \/ /\ ~calling[c].open /\ call.open /\ Head(call.route) = n
            /\ count.attempts = counters[n].attempts + 1
            /\ count.successes + count.failures = counters[n].successes + counters[n].failures
         \/ /\ calling[c].open /\ ~call.open /\ Head(calling[c].route) = n
            /\ count.attempts = counters[n].attempts
            /\ count.successes + count.failures = counters[n].successes + counters[n].failures + 1
  PROVE  EgressInv'
<1>1. /\ calling' = [d \in Callers |-> calling'[d]] /\ calling'[c] = call
      /\ \A d \in Callers : d # c => calling'[d] = calling[d]
      /\ \A d \in Callers : CallSound(d)'
  BY CallMoves
<1>2. /\ counters' = [m \in NodeIds |-> counters'[m]] /\ counters'[n] = count
      /\ \A m \in NodeIds : m # n => counters'[m] = counters[m]
  BY DEF EgressInv
<1>3. \A m \in NodeIds : m # n => OpenOn(m)' = OpenOn(m)
  BY <1>1 DEF OpenOn
<1>4. \A m \in NodeIds : m # n => CountSound(m)'
  BY <1>2, <1>3 DEF EgressInv, CountSound
<1>5. CountSound(n)
  BY DEF EgressInv
<1>6. Cardinality(OpenOn(n)) \in Nat /\ IsFiniteSet(OpenOn(n))
  BY <1>5, FS_CardinalityType DEF CountSound
<1>7. CASE ~calling[c].open /\ call.open /\ Head(call.route) = n
  <2>1. c \notin OpenOn(n) /\ OpenOn(n)' = OpenOn(n) \cup {c}
    BY <1>1, <1>7 DEF OpenOn
  <2>2. IsFiniteSet(OpenOn(n)') /\ Cardinality(OpenOn(n)') = Cardinality(OpenOn(n)) + 1
    BY <1>6, <2>1, FS_AddElement
  <2>3. CountSound(n)'
    BY <1>2, <1>5, <1>6, <1>7, <2>2 DEF CountSound
  <2> QED BY <1>1, <1>2, <1>4, <2>3 DEF EgressInv, Even
<1>8. CASE calling[c].open /\ ~call.open /\ Head(calling[c].route) = n
  <2>1. c \in OpenOn(n) /\ OpenOn(n)' = OpenOn(n) \ {c}
    BY <1>1, <1>8 DEF OpenOn
  <2>2. IsFiniteSet(OpenOn(n)') /\ Cardinality(OpenOn(n)') = Cardinality(OpenOn(n)) - 1
    BY <1>6, <2>1, FS_RemoveElement
  <2>3. CountSound(n)'
    BY <1>2, <1>5, <1>6, <1>8, <2>2 DEF CountSound
  <2> QED BY <1>1, <1>2, <1>4, <2>3 DEF EgressInv, Even
<1> QED BY <1>7, <1>8

\* The node a call with nodes left is about to try, or waits for.
LEMMA HeadNode ==
  ASSUME EgressInv, NEW c \in Callers, calling[c].route # <<>>
  PROVE  /\ calling[c] \in Call /\ Head(calling[c].route) \in NodeIds
         /\ Tail(calling[c].route) \in Seq(NodeIds)
         /\ CountSound(Head(calling[c].route))
<1>1. calling[c] \in Call /\ calling[c].route \in Seq(NodeIds)
  BY DEF EgressInv, CallSound, Call
<1>2. Head(calling[c].route) \in NodeIds /\ Tail(calling[c].route) \in Seq(NodeIds)
  BY <1>1, HeadTailProperties
<1> QED BY <1>1, <1>2 DEF EgressInv

LEMMA MarkAttemptKept == ASSUME EgressInv, NEW c \in Callers, MarkAttempt(c) PROVE EgressInv'
<1>1. calling[c].route # <<>> /\ ~calling[c].open
  BY DEF MarkAttempt
<1>2. PICK n \in NodeIds : n = Head(calling[c].route)
  BY <1>1, HeadNode
<1> DEFINE call == [calling[c] EXCEPT !.open = TRUE]
           count == [counters[n] EXCEPT !.attempts = counters[n].attempts + 1]
<1>3. /\ calling' = [calling EXCEPT ![c] = call] /\ counters' = [counters EXCEPT ![n] = count]
      /\ UNCHANGED <<next, chosen>>
  BY <1>2 DEF MarkAttempt
<1>4. calling[c] \in Call /\ calling[c].route \in Seq(NodeIds) /\ CountSound(n)
  BY <1>1, <1>2, HeadNode DEF Call
<1>5. call \in Call /\ call.route = calling[c].route /\ call.open
  BY <1>4, CallFields
<1>6. count = [attempts |-> counters[n].attempts + 1, successes |-> counters[n].successes,
               failures |-> counters[n].failures]
  BY <1>4 DEF CountSound
<1> HIDE DEF call, count
<1>7. /\ count = [attempts |-> count.attempts, successes |-> count.successes,
                 failures |-> count.failures]
      /\ count.attempts \in Nat /\ count.successes \in Nat /\ count.failures \in Nat
      /\ count.attempts = counters[n].attempts + 1
      /\ count.successes + count.failures = counters[n].successes + counters[n].failures
  BY <1>4, <1>6 DEF CountSound
<1>8. ~calling[c].open /\ Head(call.route) = n /\ call.route # <<>>
  BY <1>1, <1>2, <1>5
<1> QED BY <1>3, <1>5, <1>7, <1>8, MarkKept

LEMMA MarkFailureKept == ASSUME EgressInv, NEW c \in Callers, MarkFailure(c) PROVE EgressInv'
<1>1. calling[c].open /\ calling[c].route # <<>>
  BY DEF MarkFailure, EgressInv, CallSound
<1>2. PICK n \in NodeIds : n = Head(calling[c].route)
  BY <1>1, HeadNode
<1> DEFINE call == [route |-> Tail(calling[c].route), open |-> FALSE]
           count == [counters[n] EXCEPT !.failures = counters[n].failures + 1]
<1>3. /\ calling' = [calling EXCEPT ![c] = call] /\ counters' = [counters EXCEPT ![n] = count]
      /\ UNCHANGED <<next, chosen>>
  BY <1>2 DEF MarkFailure
<1>4. Tail(calling[c].route) \in Seq(NodeIds) /\ calling[c] \in Call /\ CountSound(n)
  BY <1>1, <1>2, HeadNode
<1>5. call \in Call /\ ~call.open
  BY <1>4, CallFields
<1>6. count = [attempts |-> counters[n].attempts, successes |-> counters[n].successes,
               failures |-> counters[n].failures + 1]
  BY <1>4 DEF CountSound
<1> HIDE DEF call, count
<1>7. /\ count = [attempts |-> count.attempts, successes |-> count.successes,
                 failures |-> count.failures]
      /\ count.attempts \in Nat /\ count.successes \in Nat /\ count.failures \in Nat
      /\ count.attempts = counters[n].attempts
      /\ count.successes + count.failures = counters[n].successes + counters[n].failures + 1
  BY <1>4, <1>6 DEF CountSound
<1>8. calling[c].open /\ Head(calling[c].route) = n
  BY <1>1, <1>2, <1>5
<1> QED BY <1>3, <1>5, <1>7, <1>8, MarkKept

LEMMA MarkSuccessKept == ASSUME EgressInv, NEW c \in Callers, MarkSuccess(c) PROVE EgressInv'
<1>1. calling[c].open /\ calling[c].route # <<>>
  BY DEF MarkSuccess, EgressInv, CallSound
<1>2. PICK n \in NodeIds : n = Head(calling[c].route)
  BY <1>1, HeadNode
<1> DEFINE count == [counters[n] EXCEPT !.successes = counters[n].successes + 1]
<1>3. /\ calling' = [calling EXCEPT ![c] = NoCall] /\ counters' = [counters EXCEPT ![n] = count]
      /\ UNCHANGED <<next, chosen>>
  BY <1>2 DEF MarkSuccess
<1>4. Tail(calling[c].route) \in Seq(NodeIds) /\ calling[c] \in Call /\ CountSound(n)
  BY <1>1, <1>2, HeadNode
<1>5. NoCall \in Call /\ ~NoCall.open
  BY <1>4, CallFields
<1>6. count = [attempts |-> counters[n].attempts, successes |-> counters[n].successes + 1,
               failures |-> counters[n].failures]
  BY <1>4 DEF CountSound
<1> HIDE DEF count
<1>7. /\ count = [attempts |-> count.attempts, successes |-> count.successes,
                 failures |-> count.failures]
      /\ count.attempts \in Nat /\ count.successes \in Nat /\ count.failures \in Nat
      /\ count.attempts = counters[n].attempts
      /\ count.successes + count.failures = counters[n].successes + counters[n].failures + 1
  BY <1>4, <1>6 DEF CountSound
<1>8. calling[c].open /\ Head(calling[c].route) = n
  BY <1>1, <1>2, <1>5
<1> QED BY <1>3, <1>5, <1>7, <1>8, MarkKept

LEMMA EgressInvStart == EgressInit => EgressInv
<1> SUFFICES ASSUME EgressInit PROVE EgressInv
  OBVIOUS
<1>1. Nodes \in Nat /\ Nodes > 0
  BY EgressAssumption
<1>2. next \in NodeIds /\ Even(0)
  BY <1>1 DEF EgressInit, NodeIds, Even
<1>3. \A c \in Callers : CallSound(c) /\ ~calling[c].open
  <2> TAKE c \in Callers
  <2>1. calling[c] = NoCall
    BY DEF EgressInit
  <2>2. NoCall \in Call /\ ~NoCall.open
    BY DEF Call, NoCall
  <2> QED BY <2>1, <2>2 DEF CallSound
<1>4. \A n \in NodeIds : CountSound(n)
  <2> TAKE n \in NodeIds
  <2>1. OpenOn(n) = {}
    BY <1>3 DEF OpenOn
  <2>2. IsFiniteSet(OpenOn(n)) /\ Cardinality(OpenOn(n)) = 0
    BY <2>1, FS_EmptySet
  <2>3. counters[n] = [attempts |-> 0, successes |-> 0, failures |-> 0]
    BY DEF EgressInit
  <2> QED BY <2>2, <2>3 DEF CountSound
<1> QED BY <1>2, <1>3, <1>4 DEF EgressInit, EgressInv

LEMMA EgressInvStep == EgressInv /\ [EgressNext]_egressVars => EgressInv'
<1> SUFFICES ASSUME EgressInv, [EgressNext]_egressVars PROVE EgressInv'
  OBVIOUS
<1>1. CASE UNCHANGED egressVars
  BY <1>1 DEF egressVars, EgressInv, CallSound, CountSound, OpenOn, Even
<1>2. CASE EgressNext
  BY <1>2, RouteKept, MarkAttemptKept, MarkFailureKept, MarkSuccessKept DEF EgressNext
<1> QED BY <1>1, <1>2

\* In every behaviour of the pool no node is tried first more than once more often
\* than another, and the counters of each add up to the attempts under way.
THEOREM EgressEvenAndExact == EgressSpec => []EvenAndExact
<1>1. EgressInv => EvenAndExact
  <2> SUFFICES ASSUME EgressInv PROVE EvenAndExact
    OBVIOUS
  <2>1. PICK turns \in Nat : Even(turns)
    BY DEF EgressInv
  <2>2. \A n, m \in NodeIds : chosen[n] <= chosen[m] + 1
    BY <2>1 DEF Even
  <2>3. \A n \in NodeIds :
          counters[n].attempts = counters[n].successes + counters[n].failures + Cardinality(OpenOn(n))
    BY DEF EgressInv, CountSound
  <2> QED BY <2>2, <2>3 DEF EvenAndExact, OpenOn
<1> QED BY <1>1, EgressInvStart, EgressInvStep, PTL DEF EgressSpec

-----------------------------------------------------------------------------
(* MarketQuote *)

QuoteSpec == QuoteInit /\ [][QuoteNext]_quoteVars

QuoteShape(q) ==
  q = [step |-> q.step, pair |-> q.pair, block |-> q.block, route |-> q.route, shown |-> q.shown]

\* What has been read shows the block of the quote; each step has the reads and the
\* conditions of those before it behind it.
QuoteSound(q) ==
  /\ QuoteShape(q)
  /\ q.step \in {"tokens", "state"} => q.shown \subseteq {q.block}
  /\ q.step \in {"decimals", "feed", "route", "rank", "reserves", "done"} => q.shown = {q.block}
  /\ q.step \in {"tokens", "decimals", "state"} => q.pair \in PairKinds
  /\ q.step = "feed" => q.pair = "wbnb" \/ (q.pair = "other" /\ q.route = "wbnb")
  /\ q.step \in {"route", "rank", "reserves"} => q.pair = "other"
  /\ q.step = "reserves" => q.route \in Bases
  /\ q.step = "reserves" /\ q.route = "wbnb" => chainRows[q.block].fresh
  /\ q.step = "done" /\ q.pair = "wbnb" => chainRows[q.block].fresh
  /\ q.step = "done" /\ q.pair = "other" => Depth(q.block, q.route) > 0

QuoteInv ==
  /\ quotes = [t \in Quoters |-> quotes[t]]
  /\ routeOf \in Bases \cup {"none"}
  /\ \A t \in Quoters : QuoteSound(quotes[t])

\* Two fields of a quote are changed, or its record is begun anew.
LEMMA StepAndShown ==
  ASSUME NEW q, QuoteShape(q), NEW step, NEW showing
  PROVE  [q EXCEPT !.step = step, !.shown = showing]
           = [step |-> step, pair |-> q.pair, block |-> q.block, route |-> q.route, shown |-> showing]
<1> DEFINE one == [q EXCEPT !.step = step]
<1>1. one = [step |-> step, pair |-> q.pair, block |-> q.block, route |-> q.route, shown |-> q.shown]
  BY DEF QuoteShape
<1>2. [q EXCEPT !.step = step, !.shown = showing] = [one EXCEPT !.shown = showing]
  OBVIOUS
<1> HIDE DEF one
<1> QED BY <1>1, <1>2

LEMMA RouteAndStep ==
  ASSUME NEW q, QuoteShape(q), NEW step, NEW route
  PROVE  [q EXCEPT !.route = route, !.step = step]
           = [step |-> step, pair |-> q.pair, block |-> q.block, route |-> route, shown |-> q.shown]
<1> DEFINE one == [q EXCEPT !.route = route]
<1>1. one = [step |-> q.step, pair |-> q.pair, block |-> q.block, route |-> route, shown |-> q.shown]
  BY DEF QuoteShape
<1>2. [q EXCEPT !.route = route, !.step = step] = [one EXCEPT !.step = step]
  OBVIOUS
<1> HIDE DEF one
<1> QED BY <1>1, <1>2

LEMMA QuoteBegun ==
  ASSUME NEW step, NEW pair, NEW block, NEW q,
         q = [NoQuote EXCEPT !.step = step, !.pair = pair, !.block = block]
  PROVE  q = [step |-> step, pair |-> pair, block |-> block, route |-> "none", shown |-> {}]
<1> DEFINE one == [NoQuote EXCEPT !.step = step]
           two == [one EXCEPT !.pair = pair]
<1>1. one = [step |-> step, pair |-> "none", block |-> 0, route |-> "none", shown |-> {}]
  BY DEF NoQuote
<1>2. [NoQuote EXCEPT !.step = step, !.pair = pair, !.block = block] = [two EXCEPT !.block = block]
  OBVIOUS
<1> HIDE DEF one
<1>3. two = [step |-> step, pair |-> pair, block |-> 0, route |-> "none", shown |-> {}]
  BY <1>1
<1> HIDE DEF two
<1> QED BY <1>2, <1>3

\* A step that moves one quote, on the chain as it is.
LEMMA QuoteMoves ==
  ASSUME QuoteInv, NEW t \in Quoters, NEW q, quotes' = [quotes EXCEPT ![t] = q],
         chainRows' = chainRows, routeOf' \in Bases \cup {"none"}, QuoteSound(q)
  PROVE  QuoteInv'
<1>1. /\ quotes' = [u \in Quoters |-> quotes'[u]] /\ quotes'[t] = q
      /\ \A u \in Quoters : u # t => quotes'[u] = quotes[u]
  BY DEF QuoteInv
<1>2. ASSUME NEW u \in Quoters PROVE QuoteSound(quotes[u])'
  <2>1. CASE u = t
    BY <1>1, <2>1 DEF QuoteSound, QuoteShape, Depth
  <2>2. CASE u # t
    BY <1>1, <2>2 DEF QuoteInv, QuoteSound, QuoteShape, Depth
  <2> QED BY <2>1, <2>2
<1> QED BY <1>1, <1>2 DEF QuoteInv

\* A batch moves one quote to its next step, and shows the quote's block.
LEMMA BatchRead ==
  ASSUME QuoteInv, NEW t \in Quoters, NEW step, ReadAt(t, step)
  PROVE  \E q : /\ quotes' = [quotes EXCEPT ![t] = q] /\ QuoteShape(q)
                /\ q.step = step /\ q.shown = quotes[t].shown \cup {quotes[t].block}
                /\ q.pair = quotes[t].pair /\ q.block = quotes[t].block /\ q.route = quotes[t].route
<1> DEFINE current == quotes[t]
           showing == current.shown \cup {current.block}
           q == [step |-> step, pair |-> current.pair, block |-> current.block, route |-> current.route, shown |-> showing]
<1>1. quotes' = [quotes EXCEPT ![t].step = step, ![t].shown = showing]
  BY DEF ReadAt, ShownBlock
<1>2. quotes = [u \in Quoters |-> quotes[u]] /\ QuoteShape(current)
  BY DEF QuoteInv, QuoteSound
<1>3. quotes' = [quotes EXCEPT ![t] = [current EXCEPT !.step = step, !.shown = showing]]
  BY <1>1, <1>2
<1>4. [current EXCEPT !.step = step, !.shown = showing] = q
  BY <1>2, StepAndShown
<1>5. quotes' = [quotes EXCEPT ![t] = q]
  BY <1>3, <1>4
<1>6. /\ QuoteShape(q) /\ q.step = step /\ q.shown = quotes[t].shown \cup {quotes[t].block}
      /\ q.pair = quotes[t].pair /\ q.block = quotes[t].block /\ q.route = quotes[t].route
  BY DEF QuoteShape
<1> HIDE DEF q
<1> QED BY <1>5, <1>6

LEMMA QuoteInvStep == QuoteInv /\ [QuoteNext]_quoteVars => QuoteInv'
<1> SUFFICES ASSUME QuoteInv, [QuoteNext]_quoteVars PROVE QuoteInv'
  OBVIOUS
<1>1. CASE UNCHANGED quoteVars
  BY <1>1 DEF quoteVars, QuoteInv, QuoteSound, QuoteShape, Depth
<1>2. CASE \E e \in EndpointIds : Grow(e)
  BY <1>2 DEF Grow, QuoteInv, QuoteSound, QuoteShape, Depth
<1>3. ASSUME NEW t \in Quoters, AskQuote(t) PROVE QuoteInv'
  <2>1. PICK pair, step, block :
          /\ pair \in PairKinds /\ step \in {"state", "tokens"}
          /\ quotes' = [quotes EXCEPT ![t] =
               [NoQuote EXCEPT !.step = step, !.pair = pair, !.block = block]]
    BY <1>3 DEF AskQuote
  <2>2. PICK q : q = [NoQuote EXCEPT !.step = step, !.pair = pair, !.block = block]
    OBVIOUS
  <2>3. q = [step |-> step, pair |-> pair, block |-> block, route |-> "none", shown |-> {}]
    BY <2>2, QuoteBegun
  <2>4. QuoteSound(q)
    BY <2>1, <2>3 DEF QuoteSound, QuoteShape
  <2>5. chainRows' = chainRows /\ routeOf' \in Bases \cup {"none"}
    BY <1>3 DEF AskQuote, QuoteInv
  <2> QED BY <2>1, <2>2, <2>4, <2>5, QuoteMoves
<1>4. ASSUME NEW t \in Quoters,
             \/ ReadTokens(t) \/ ReadDecimals(t) \/ ReadState(t) \/ ReadFeed(t) \/ ReadReserves(t)
      PROVE QuoteInv'
  <2>1. PICK step :
          /\ ReadAt(t, step)
          /\ \/ quotes[t].step = "tokens" /\ step = "decimals"
             \/ quotes[t].step = "decimals" /\ step = "state"
             \/ /\ quotes[t].step = "state"
                /\ \/ quotes[t].pair = "stable" /\ step = "done"
                   \/ quotes[t].pair = "wbnb" /\ step = "feed"
                   \/ quotes[t].pair \notin {"stable", "wbnb"} /\ step = "route"
             \/ /\ quotes[t].step = "feed" /\ chainRows[quotes[t].block].fresh
                /\ step = IF quotes[t].pair = "wbnb" THEN "done" ELSE "reserves"
             \/ /\ quotes[t].step = "reserves" /\ chainRows[quotes[t].block][quotes[t].route] > 0
                /\ step = "done"
    <3>1. CASE ReadTokens(t)
      BY <3>1 DEF ReadTokens
    <3>2. CASE ReadDecimals(t)
      BY <3>2 DEF ReadDecimals
    <3>3. CASE ReadState(t)
      BY <3>3 DEF ReadState
    <3>4. CASE ReadFeed(t)
      BY <3>4 DEF ReadFeed
    <3>5. CASE ReadReserves(t)
      BY <3>5 DEF ReadReserves
    <3> QED BY <1>4, <3>1, <3>2, <3>3, <3>4, <3>5
  <2>2. PICK q : /\ quotes' = [quotes EXCEPT ![t] = q] /\ QuoteShape(q)
                 /\ q.step = step /\ q.shown = quotes[t].shown \cup {quotes[t].block}
                 /\ q.pair = quotes[t].pair /\ q.block = quotes[t].block /\ q.route = quotes[t].route
    BY <2>1, BatchRead
  <2>3. QuoteSound(quotes[t])
    BY DEF QuoteInv
  <2>4. q.shown = {q.block}
    BY <2>1, <2>2, <2>3 DEF QuoteSound
  <2>5. QuoteSound(q)
    BY <2>1, <2>2, <2>3, <2>4 DEF QuoteSound, PairKinds, Bases, Depth
  <2>6. chainRows' = chainRows /\ routeOf' \in Bases \cup {"none"}
    BY <1>4 DEF ReadTokens, ReadDecimals, ReadState, ReadFeed, ReadReserves, QuoteInv
  <2> QED BY <2>2, <2>5, <2>6, QuoteMoves
<1>5. ASSUME NEW t \in Quoters, CachedRoute(t) \/ RankRoutes(t)
      PROVE QuoteInv'
  <2>1. PICK base \in Bases : UseRoute(t, base)
    BY <1>5 DEF CachedRoute, RankRoutes, QuoteInv, Deepest, Bases
  <2>2. /\ quotes[t].step \in {"route", "rank"} /\ QuoteSound(quotes[t])
        /\ chainRows' = chainRows /\ routeOf' \in Bases \cup {"none"}
    BY <1>5 DEF CachedRoute, RankRoutes, QuoteInv, Deepest, Bases
  <2> DEFINE q == [step |-> IF base = "wbnb" THEN "feed" ELSE "reserves", pair |-> quotes[t].pair,
                   block |-> quotes[t].block, route |-> base, shown |-> quotes[t].shown]
  <2>3. quotes = [u \in Quoters |-> quotes[u]] /\ QuoteShape(quotes[t])
    BY DEF QuoteInv, QuoteSound
  <2>4. quotes' = [quotes EXCEPT ![t] = q]
    <3>1. quotes' = [quotes EXCEPT ![t] = [quotes[t] EXCEPT !.route = base,
                                             !.step = IF base = "wbnb" THEN "feed" ELSE "reserves"]]
      BY <2>1, <2>3 DEF UseRoute
    <3> DEFINE step == IF base = "wbnb" THEN "feed" ELSE "reserves"
    <3>2. [quotes[t] EXCEPT !.route = base, !.step = step] = q
      BY <2>3, RouteAndStep
    <3> QED BY <3>1, <3>2
  <2>5. QuoteSound(q)
    BY <2>2 DEF QuoteSound, QuoteShape, Bases
  <2> QED BY <2>2, <2>4, <2>5, QuoteMoves
<1>6. ASSUME NEW t \in Quoters, NoCachedRoute(t) \/ FailQuote(t)
      PROVE QuoteInv'
  <2>1. PICK step \in {"rank", "failed"} :
          /\ quotes' = [quotes EXCEPT ![t].step = step]
          /\ step = "rank" => quotes[t].step = "route"
    BY <1>6 DEF NoCachedRoute, FailQuote
  <2> DEFINE q == [quotes[t] EXCEPT !.step = step]
  <2>2. quotes' = [quotes EXCEPT ![t] = q]
    BY <2>1
  <2>3. QuoteSound(quotes[t])
    BY DEF QuoteInv
  <2>4. /\ QuoteShape(q) /\ q.step = step /\ q.pair = quotes[t].pair /\ q.block = quotes[t].block
        /\ q.shown = quotes[t].shown
    BY <2>3 DEF QuoteSound, QuoteShape
  <2> HIDE DEF q
  <2>5. QuoteSound(q)
    BY <2>1, <2>3, <2>4 DEF QuoteSound
  <2>6. chainRows' = chainRows /\ routeOf' \in Bases \cup {"none"}
    BY <1>6 DEF NoCachedRoute, FailQuote, QuoteInv
  <2> QED BY <2>2, <2>5, <2>6, QuoteMoves
<1> QED BY <1>1, <1>2, <1>3, <1>4, <1>5, <1>6 DEF QuoteNext

\* In every behaviour of the quotes all that a quote rests on shows the block of its
\* head, and was to be had there.
THEOREM QuoteSameBlock == QuoteSpec => []SameBlock
<1>1. QuoteInit => QuoteInv
  BY DEF QuoteInit, QuoteInv, QuoteSound, QuoteShape, NoQuote
<1>2. QuoteInv => SameBlock
  BY DEF QuoteInv, QuoteSound, SameBlock
<1> QED BY <1>1, <1>2, QuoteInvStep, PTL DEF QuoteSpec

-----------------------------------------------------------------------------
(* DebotLogin *)

LoginSpec == LoginInit /\ [][LoginNext]_loginVars

FetchCall ==
  [step : {"idle", "wait", "load", "build", "get", "done", "expired", "failed"},
   since : Nat, revision : Nat, cookies : Nat]

\* A call has seen the file no later than it is now; the cookies it holds are
\* from after its beginning, and from after the look whose revision is kept.
FetchSound(t) ==
  LET call == fetching[t]
  IN  /\ call \in FetchCall
      /\ call.since <= cookieFile.version
      /\ call.revision <= cookieFile.version
      /\ call.step = "build" => call.revision <= call.cookies
      /\ call.step \in {"build", "get", "done", "expired"} => call.since <= call.cookies

\* The client's cookies are never older than the revision that vouches for them.
ClientSound ==
  /\ client = [cookies |-> client.cookies, revision |-> client.revision]
  /\ client.cookies \in Nat /\ client.revision \in Nat
  /\ client.cookies # 0 => client.revision <= client.cookies

LoginInv ==
  /\ cookieFile.version \in Nat
  /\ fetching = [t \in Fetchers |-> fetching[t]]
  /\ ClientSound
  /\ \A t \in Fetchers : FetchSound(t)

\* A step that moves one call, and no file.
LEMMA GoSound ==
  ASSUME LoginInv, NEW t \in Fetchers, NEW call, Go(t, call), cookieFile' = cookieFile,
         call \in FetchCall,
         call.since <= cookieFile.version, call.revision <= cookieFile.version,
         call.step = "build" => call.revision <= call.cookies,
         call.step \in {"build", "get", "done", "expired"} => call.since <= call.cookies
  PROVE  /\ fetching' = [u \in Fetchers |-> fetching'[u]]
         /\ \A u \in Fetchers : FetchSound(u)'
<1>1. /\ fetching' = [u \in Fetchers |-> fetching'[u]] /\ fetching'[t] = call
      /\ \A u \in Fetchers : u # t => fetching'[u] = fetching[u]
  BY DEF Go, LoginInv
<1>2. FetchSound(t)'
  BY <1>1 DEF FetchSound
<1>3. \A u \in Fetchers : u # t => FetchSound(u)'
  BY <1>1 DEF FetchSound, LoginInv
<1> QED BY <1>1, <1>2, <1>3

\* A change of the file makes its version greater, and moves no call.
LEMMA FileChanges ==
  ASSUME LoginInv, cookieFile'.version = cookieFile.version + 1, UNCHANGED <<client, fetching>>
  PROVE  LoginInv'
<1>1. cookieFile'.version \in Nat /\ cookieFile'.version > cookieFile.version
  BY DEF LoginInv
<1>2. \A t \in Fetchers : FetchSound(t)'
  BY <1>1 DEF LoginInv, FetchSound, FetchCall
<1> QED BY <1>1, <1>2 DEF LoginInv, ClientSound

LEMMA LoginInvStep == LoginInv /\ [LoginNext]_loginVars => LoginInv'
<1> SUFFICES ASSUME LoginInv, [LoginNext]_loginVars PROVE LoginInv'
  OBVIOUS
<1>1. CASE SaveCookies \/ LoseFile
  BY <1>1, FileChanges DEF SaveCookies, LoseFile
<1>2. CASE CloseClient
  BY <1>2 DEF CloseClient, LoginInv, ClientSound, FetchSound
<1>3. CASE UNCHANGED loginVars
  BY <1>3 DEF loginVars, LoginInv, ClientSound, FetchSound
<1>4. ASSUME NEW t \in Fetchers, AskJson(t) PROVE LoginInv'
  <2> DEFINE call == [NoFetch EXCEPT !.step = "wait", !.since = cookieFile.version]
  <2>0. cookieFile.version \in Nat
    BY DEF LoginInv
  <2>1. /\ call \in FetchCall
        /\ call.step = "wait" /\ call.since = cookieFile.version /\ call.revision = 0 /\ call.cookies = 0
    BY <2>0 DEF NoFetch, FetchCall
  <2>2. Go(t, call) /\ UNCHANGED <<cookieFile, client>>
    BY <1>4 DEF AskJson
  <2> HIDE DEF call
  <2> QED BY <2>0, <2>1, <2>2, GoSound DEF LoginInv, ClientSound
<1>5. ASSUME NEW t \in Fetchers, LookAtFile(t) PROVE LoginInv'
  <2> DEFINE failed == [fetching[t] EXCEPT !.step = "failed"]
             get == [fetching[t] EXCEPT !.step = "get", !.cookies = client.cookies]
             load == [fetching[t] EXCEPT !.step = "load", !.revision = cookieFile.version]
  <2>1. FetchSound(t) /\ ClientSound /\ cookieFile.version \in Nat
    BY DEF LoginInv
  <2>2. UNCHANGED <<cookieFile, client>>
    BY <1>5 DEF LookAtFile
  <2>3. CASE Go(t, failed)
    <3>1. /\ failed \in FetchCall
          /\ failed.step = "failed" /\ failed.since = fetching[t].since
          /\ failed.revision = fetching[t].revision /\ failed.cookies = fetching[t].cookies
      BY <2>1 DEF FetchSound, FetchCall
    <3> HIDE DEF failed
    <3> QED BY <2>1, <2>2, <2>3, <3>1, GoSound DEF LoginInv, ClientSound, FetchSound
  <2>4. CASE Go(t, get) /\ client.cookies # 0 /\ client.revision = cookieFile.version
    <3>1. /\ get \in FetchCall
          /\ get.step = "get" /\ get.since = fetching[t].since
          /\ get.revision = fetching[t].revision /\ get.cookies = client.cookies
      BY <2>1 DEF FetchSound, ClientSound, FetchCall
    <3>2. fetching[t].since <= client.cookies
      BY <2>1, <2>4 DEF FetchSound, ClientSound, FetchCall
    <3> HIDE DEF get
    <3> QED BY <2>1, <2>2, <2>4, <3>1, <3>2, GoSound DEF LoginInv, ClientSound, FetchSound
  <2>5. CASE Go(t, load)
    <3>1. /\ load \in FetchCall
          /\ load.step = "load" /\ load.since = fetching[t].since
          /\ load.revision = cookieFile.version /\ load.cookies = fetching[t].cookies
      BY <2>1 DEF FetchSound, FetchCall
    <3> HIDE DEF load
    <3> QED BY <2>1, <2>2, <2>5, <3>1, GoSound DEF LoginInv, ClientSound, FetchSound
  <2> QED BY <1>5, <2>3, <2>4, <2>5 DEF LookAtFile
<1>6. ASSUME NEW t \in Fetchers, LoadCookies(t) PROVE LoginInv'
  <2> DEFINE build == [fetching[t] EXCEPT !.step = "build", !.cookies = cookieFile.version]
             failed == [fetching[t] EXCEPT !.step = "failed"]
  <2>1. FetchSound(t) /\ ClientSound /\ cookieFile.version \in Nat
    BY DEF LoginInv
  <2>2. UNCHANGED <<cookieFile, client>>
    BY <1>6 DEF LoadCookies
  <2>3. CASE Go(t, build)
    <3>1. /\ build \in FetchCall
          /\ build.step = "build" /\ build.since = fetching[t].since
          /\ build.revision = fetching[t].revision /\ build.cookies = cookieFile.version
      BY <2>1 DEF FetchSound, FetchCall
    <3> HIDE DEF build
    <3> QED BY <2>1, <2>2, <2>3, <3>1, GoSound DEF LoginInv, ClientSound, FetchSound
  <2>4. CASE Go(t, failed)
    <3>1. /\ failed \in FetchCall
          /\ failed.step = "failed" /\ failed.since = fetching[t].since
          /\ failed.revision = fetching[t].revision /\ failed.cookies = fetching[t].cookies
      BY <2>1 DEF FetchSound, FetchCall
    <3> HIDE DEF failed
    <3> QED BY <2>1, <2>2, <2>4, <3>1, GoSound DEF LoginInv, ClientSound, FetchSound
  <2> QED BY <1>6, <2>3, <2>4 DEF LoadCookies
<1>7. ASSUME NEW t \in Fetchers, BuildClient(t) PROVE LoginInv'
  <2> DEFINE get == [fetching[t] EXCEPT !.step = "get"]
  <2>1. FetchSound(t) /\ cookieFile.version \in Nat
    BY DEF LoginInv
  <2>2. /\ fetching[t].step = "build" /\ Go(t, get) /\ cookieFile' = cookieFile
        /\ client' = [cookies |-> fetching[t].cookies, revision |-> fetching[t].revision]
    BY <1>7 DEF BuildClient, Recorded
  <2>3. ClientSound'
    BY <2>1, <2>2 DEF ClientSound, FetchSound, FetchCall
  <2>4. /\ get \in FetchCall
        /\ get.step = "get" /\ get.since = fetching[t].since
        /\ get.revision = fetching[t].revision /\ get.cookies = fetching[t].cookies
    BY <2>1 DEF FetchSound, FetchCall
  <2> HIDE DEF get
  <2> QED BY <2>1, <2>2, <2>3, <2>4, GoSound DEF LoginInv, FetchSound
<1>8. ASSUME NEW t \in Fetchers, GetJson(t) PROVE LoginInv'
  <2>1. PICK step \in {"done", "failed", "expired"} : Go(t, [fetching[t] EXCEPT !.step = step])
    BY <1>8 DEF GetJson
  <2> DEFINE after == [fetching[t] EXCEPT !.step = step]
  <2>2. FetchSound(t) /\ fetching[t].step = "get" /\ UNCHANGED <<cookieFile, client>>
    BY <1>8 DEF GetJson, LoginInv
  <2>3. /\ after \in FetchCall
        /\ after.step = step /\ after.since = fetching[t].since
        /\ after.revision = fetching[t].revision /\ after.cookies = fetching[t].cookies
    BY <2>2 DEF FetchSound, FetchCall
  <2>4. Go(t, after)
    BY <2>1
  <2> HIDE DEF after
  <2> QED BY <2>2, <2>3, <2>4, GoSound DEF LoginInv, ClientSound, FetchSound
<1>9. ASSUME NEW t \in Fetchers, Expire(t) PROVE LoginInv'
  <2> DEFINE failed == [fetching[t] EXCEPT !.step = "failed"]
  <2>1. FetchSound(t) /\ ClientSound
    BY DEF LoginInv
  <2>2. /\ Go(t, failed) /\ cookieFile' = cookieFile
        /\ client' = [cookies |-> client.cookies, revision |-> 0]
    BY <1>9, <2>1 DEF Expire, ClientSound
  <2>3. ClientSound'
    BY <2>1, <2>2 DEF ClientSound
  <2>4. /\ failed \in FetchCall
        /\ failed.step = "failed" /\ failed.since = fetching[t].since
        /\ failed.revision = fetching[t].revision /\ failed.cookies = fetching[t].cookies
    BY <2>1 DEF FetchSound, FetchCall
  <2> HIDE DEF failed
  <2> QED BY <2>1, <2>2, <2>3, <2>4, GoSound DEF LoginInv, FetchSound
<1> QED BY <1>1, <1>2, <1>3, <1>4, <1>5, <1>6, <1>7, <1>8, <1>9 DEF LoginNext

\* In every behaviour a call of DeBot's client uses the login as it was when the
\* call began, or a later one.
THEOREM LoginRenewed == LoginSpec => []RenewedLoginIsUsed
<1>1. LoginInit => LoginInv
  BY DEF LoginInit, LoginInv, ClientSound, FetchSound, NoFetch, FetchCall
<1>2. LoginInv => RenewedLoginIsUsed
  BY DEF LoginInv, FetchSound, RenewedLoginIsUsed
<1> QED BY <1>1, <1>2, LoginInvStep, PTL DEF LoginSpec

-----------------------------------------------------------------------------
(* StatusRepository *)

RepositorySpec == RepositoryInit /\ [][RepositoryNext]_repositoryVars

\* An observation that its lead preceded, made when the status was there.
Observation(x) ==
  /\ x.outcome = "fetched"
  /\ x.lead \in Nat /\ x.at \in Nat
  /\ 1 <= x.lead /\ x.lead <= x.at

\* A call at work is about a link; what it has to store is an observation.
LookupSound(r) ==
  LET call == lookup[r]
  IN  /\ call = [step |-> call.step, link |-> call.link, lead |-> call.lead, found |-> call.found]
      /\ call.step # "idle" => call.link \in Links /\ call.lead \in Nat
      /\ call.step = "store" => Observation(call.found)

CacheSound == \A l \in Links : cached[l] # NoResearch => Observation(cached[l])

\* Whoever has been given an observation has been given the one in the cache.
AnswersCached ==
  \A x \in answers : x.research.outcome = "fetched" =>
    x.link \in Links /\ cached[x.link] = x.research

RepositoryInv ==
  /\ fetches \in Nat
  /\ cached = [l \in Links |-> cached[l]]
  /\ lookup = [r \in Readers |-> lookup[r]]
  /\ \A r \in Readers : LookupSound(r)
  /\ CacheSound
  /\ AnswersCached

LEMMA NoLookupFields ==
  /\ NoLookup = [step |-> NoLookup.step, link |-> NoLookup.link,
                 lead |-> NoLookup.lead, found |-> NoLookup.found]
  /\ NoLookup.step = "idle"
BY DEF NoLookup

\* A call that goes on to store what it has found.
LEMMA StoringFields ==
  ASSUME NEW call, NEW found,
         call = [step |-> call.step, link |-> call.link, lead |-> call.lead, found |-> call.found]
  PROVE  [call EXCEPT !.step = "store", !.found = found]
           = [step |-> "store", link |-> call.link, lead |-> call.lead, found |-> found]
<1> DEFINE at == [call EXCEPT !.step = "store"]
<1>1. at = [step |-> "store", link |-> call.link, lead |-> call.lead, found |-> call.found]
  OBVIOUS
<1>2. [call EXCEPT !.step = "store", !.found = found] = [at EXCEPT !.found = found]
  OBVIOUS
<1> HIDE DEF at
<1> QED BY <1>1, <1>2

\* A step that moves one call.
LEMMA LookupMoves ==
  ASSUME RepositoryInv, NEW r \in Readers, NEW call, lookup' = [lookup EXCEPT ![r] = call],
         call = [step |-> call.step, link |-> call.link, lead |-> call.lead, found |-> call.found],
         call.step # "idle" => call.link \in Links /\ call.lead \in Nat,
         call.step = "store" => Observation(call.found)
  PROVE  /\ lookup' = [u \in Readers |-> lookup'[u]]
         /\ \A u \in Readers : LookupSound(u)'
<1>1. /\ lookup' = [u \in Readers |-> lookup'[u]] /\ lookup'[r] = call
      /\ \A u \in Readers : u # r => lookup'[u] = lookup[u]
  BY DEF RepositoryInv
<1>2. LookupSound(r)'
  BY <1>1 DEF LookupSound
<1>3. \A u \in Readers : u # r => LookupSound(u)'
  BY <1>1 DEF LookupSound, RepositoryInv
<1> QED BY <1>1, <1>2, <1>3

\* A call that ends with an answer, one that is in the cache or no observation.
LEMMA AnswerSound ==
  ASSUME RepositoryInv, NEW r \in Readers, NEW research, Answer(r, research),
         fetches' \in Nat, cached' = [l \in Links |-> cached'[l]], CacheSound',
         \A l \in Links : cached[l] # NoResearch => cached'[l] = cached[l],
         research.outcome = "fetched" =>
           lookup[r].link \in Links /\ cached'[lookup[r].link] = research
  PROVE  RepositoryInv'
<1>1. lookup' = [lookup EXCEPT ![r] = NoLookup]
  BY DEF Answer
<1>2. lookup' = [u \in Readers |-> lookup'[u]] /\ \A u \in Readers : LookupSound(u)'
  BY <1>1, NoLookupFields, LookupMoves
<1>3. ASSUME NEW x \in answers', x.research.outcome = "fetched"
      PROVE  x.link \in Links /\ cached'[x.link] = x.research
  <2>1. CASE x \in answers
    <3>1. x.link \in Links /\ cached[x.link] = x.research
      BY <1>3, <2>1 DEF RepositoryInv, AnswersCached
    <3>2. x.research # NoResearch
      BY <1>3 DEF NoResearch
    <3> QED BY <3>1, <3>2
  <2>2. CASE x = [link |-> lookup[r].link, research |-> research]
    BY <1>3, <2>2
  <2> QED BY <1>3, <2>1, <2>2 DEF Answer
<1> QED BY <1>2, <1>3 DEF RepositoryInv, AnswersCached

LEMMA RepositoryInvStep == RepositoryInv /\ [RepositoryNext]_repositoryVars => RepositoryInv'
<1> SUFFICES ASSUME RepositoryInv, [RepositoryNext]_repositoryVars PROVE RepositoryInv'
  OBVIOUS
<1>1. CASE EditStatus \/ UNCHANGED repositoryVars
  BY <1>1 DEF EditStatus, repositoryVars, RepositoryInv, LookupSound, CacheSound, AnswersCached
<1>2. CASE NoLead
  <2>1. PICK l \in Links, outcome \in {"wait", "reject"} :
          answers' = answers \cup {[link |-> l, research |-> [NoResearch EXCEPT !.outcome = outcome]]}
    BY <1>2 DEF NoLead
  <2>2. [NoResearch EXCEPT !.outcome = outcome].outcome # "fetched"
    BY DEF NoResearch
  <2> DEFINE research == [NoResearch EXCEPT !.outcome = outcome]
  <2> HIDE DEF research
  <2>3. answers' = answers \cup {[link |-> l, research |-> research]} /\ research.outcome # "fetched"
    BY <2>1, <2>2 DEF research
  <2>4. AnswersCached'
    BY <1>2, <2>3 DEF NoLead, AnswersCached, RepositoryInv
  <2> QED BY <1>2, <2>4 DEF NoLead, RepositoryInv, LookupSound, CacheSound
<1>3. ASSUME NEW r \in Readers, StartLookup(r) PROVE RepositoryInv'
  <2>1. PICK l \in Links, lead \in 0..(fetches + 1) :
          IF cached[l] # NoResearch
          THEN /\ answers' = answers \cup {[link |-> l, research |-> cached[l]]}
               /\ UNCHANGED lookup
          ELSE /\ lookup' = [lookup EXCEPT ![r] = [step |-> "fetch", link |-> l, lead |-> lead,
                                                   found |-> NoResearch]]
               /\ UNCHANGED answers
    BY <1>3 DEF StartLookup
  <2>2. UNCHANGED <<fetches, cached>>
    BY <1>3 DEF StartLookup
  <2>3. CASE cached[l] # NoResearch
    <3>1. AnswersCached'
      BY <2>1, <2>2, <2>3 DEF AnswersCached, RepositoryInv
    <3> QED BY <2>1, <2>2, <2>3, <3>1 DEF RepositoryInv, LookupSound, CacheSound
  <2>4. CASE ~(cached[l] # NoResearch)
    <3> DEFINE call == [step |-> "fetch", link |-> l, lead |-> lead, found |-> NoResearch]
    <3>1. /\ call = [step |-> call.step, link |-> call.link, lead |-> call.lead, found |-> call.found]
          /\ call.step = "fetch" /\ call.link \in Links /\ call.lead \in Nat
      BY DEF RepositoryInv
    <3>2. lookup' = [lookup EXCEPT ![r] = call]
      BY <2>1, <2>4
    <3> HIDE DEF call
    <3>3. lookup' = [u \in Readers |-> lookup'[u]] /\ \A u \in Readers : LookupSound(u)'
      BY <3>1, <3>2, LookupMoves
    <3> QED BY <2>1, <2>2, <2>4, <3>3 DEF RepositoryInv, CacheSound, AnswersCached
  <2> QED BY <2>3, <2>4
<1>4. ASSUME NEW r \in Readers, FetchStatus(r) PROVE RepositoryInv'
  <2> DEFINE found == Observed(lookup[r].lead)
  <2>1. /\ lookup[r].step = "fetch" /\ fetches' = fetches + 1 /\ cached' = cached
        /\ IF found.outcome = "fetched"
           THEN /\ lookup' = [lookup EXCEPT ![r].step = "store", ![r].found = found]
                /\ UNCHANGED answers
           ELSE Answer(r, found)
    BY <1>4 DEF FetchStatus
  <2>2. /\ fetches \in Nat /\ fetches' \in Nat /\ LookupSound(r)
        /\ lookup[r].lead \in Nat /\ lookup[r].link \in Links
    BY <2>1 DEF RepositoryInv, LookupSound
  <2>3. CASE found.outcome = "fetched"
    <3> DEFINE call == [step |-> "store", link |-> lookup[r].link, lead |-> lookup[r].lead,
                        found |-> found]
    <3>1. Observation(found)
      BY <2>2, <2>3 DEF Observed, Observation
    <3> HIDE DEF found
    <3>2. lookup' = [lookup EXCEPT ![r] = [lookup[r] EXCEPT !.step = "store", !.found = found]]
      BY <2>1, <2>3
    <3>3. [lookup[r] EXCEPT !.step = "store", !.found = found] = call
      BY <2>2, StoringFields DEF LookupSound
    <3>4. /\ call = [step |-> call.step, link |-> call.link, lead |-> call.lead, found |-> call.found]
          /\ call.step = "store" /\ call.link \in Links /\ call.lead \in Nat /\ call.found = found
      BY <2>2
    <3> HIDE DEF call
    <3>5. lookup' = [u \in Readers |-> lookup'[u]] /\ \A u \in Readers : LookupSound(u)'
      BY <3>1, <3>2, <3>3, <3>4, LookupMoves
    <3> QED BY <2>1, <2>2, <2>3, <3>5 DEF RepositoryInv, CacheSound, AnswersCached
  <2>4. CASE found.outcome # "fetched"
    <3> HIDE DEF found
    <3>1. Answer(r, found)
      BY <2>1, <2>4
    <3>2. cached' = [l \in Links |-> cached'[l]] /\ CacheSound'
      BY <2>1 DEF RepositoryInv, CacheSound
    <3> QED BY <2>1, <2>2, <2>4, <3>1, <3>2, AnswerSound
  <2> QED BY <2>3, <2>4
<1>5. ASSUME NEW r \in Readers, FetchFails(r) PROVE RepositoryInv'
  <2>1. PICK outcome \in {"wait", "reject"} : Answer(r, [NoResearch EXCEPT !.outcome = outcome])
    BY <1>5 DEF FetchFails
  <2>2. [NoResearch EXCEPT !.outcome = outcome].outcome # "fetched"
    BY DEF NoResearch
  <2>3. fetches' \in Nat /\ cached' = cached /\ cached' = [l \in Links |-> cached'[l]] /\ CacheSound'
    BY <1>5 DEF FetchFails, RepositoryInv, CacheSound
  <2> QED BY <2>1, <2>2, <2>3, AnswerSound
<1>6. ASSUME NEW r \in Readers, StoreStatus(r) PROVE RepositoryInv'
  <2> DEFINE link == lookup[r].link
             kept == Keep(cached[link], lookup[r].found)
  <2>1. /\ lookup[r].step = "store" /\ fetches' = fetches
        /\ cached' = [cached EXCEPT ![link] = kept] /\ Answer(r, kept)
    BY <1>6 DEF StoreStatus
  <2>2. link \in Links /\ Observation(lookup[r].found)
    BY <2>1 DEF RepositoryInv, LookupSound
  <2>3. Observation(kept)
    BY <2>2 DEF Keep, RepositoryInv, CacheSound
  <2>4. cached[link] # NoResearch => kept = cached[link]
    BY DEF Keep
  <2> HIDE DEF kept
  <2>5. /\ cached' = [l \in Links |-> cached'[l]] /\ cached'[link] = kept
        /\ \A l \in Links : l # link => cached'[l] = cached[l]
    BY <2>1, <2>2 DEF RepositoryInv
  <2>6. CacheSound'
    BY <2>3, <2>5 DEF RepositoryInv, CacheSound
  <2>7. fetches' \in Nat
    BY <2>1 DEF RepositoryInv
  <2> QED BY <2>1, <2>2, <2>4, <2>5, <2>6, <2>7, AnswerSound
<1> QED BY <1>1, <1>2, <1>3, <1>4, <1>5, <1>6 DEF RepositoryNext

\* In every behaviour all who are given the status of a link are given the same
\* observation, one that its lead preceded.
THEOREM RepositorySameReceipt == RepositorySpec => []SameReceipt
<1>1. RepositoryInit => RepositoryInv
  <2>1. RepositoryInit => \A r \in Readers : lookup[r] = NoLookup
    BY DEF RepositoryInit
  <2>2. RepositoryInit => \A r \in Readers : LookupSound(r)
    BY <2>1, NoLookupFields DEF LookupSound
  <2> QED BY <2>2 DEF RepositoryInit, RepositoryInv, CacheSound, AnswersCached
<1>2. RepositoryInv => SameReceipt
  BY DEF RepositoryInv, CacheSound, AnswersCached, Observation, SameReceipt
<1> QED BY <1>1, <1>2, RepositoryInvStep, PTL DEF RepositorySpec

-----------------------------------------------------------------------------
(* TriggerResearch *)

ResearchSpec == ResearchInit /\ [][ResearchNext]_researchVars

JobShape(j) ==
  j = [step |-> j.step, trigger |-> j.trigger, left |-> j.left, seeds |-> j.seeds, tries |-> j.tries,
       answer |-> j.answer, key |-> j.key, events |-> j.events, verified |-> j.verified, failed |-> j.failed]

\* A reading of what was really published.
Shown(reading) == reading \in everShown /\ reading[2] # Gone

\* An event says what its reading does.
EventSound(e) ==
  /\ e.reading[2] \in {"story", "names", "denies"}
  /\ e.kind = "token_binding" => e.reading[2] = "names" /\ e.reading[1] \in Binders
  /\ e.kind = "counter_evidence" => e.reading[2] = "denies"

\* Two texts of a post are of two URLs of it, and in events of different kinds.
EventsApart(events, trigger) ==
  \A e, f \in events : e.reading[1] = f.reading[1] /\ e.reading # f.reading =>
    e.kind # f.kind /\ LinkedTwice(trigger, e.reading[1])

EventsSound(events, verified, trigger) ==
  /\ \A e \in events : EventSound(e) /\ Shown(e.reading) /\ e.reading[1] \in verified
  /\ EventsApart(events, trigger)

\* What has been read before the search is of URLs that are not left to be read, so that
\* a status read twice was linked twice; of an active trigger it is the trigger, as it
\* was collected.
ReadApart(seeds, trigger) ==
  \A n, m \in DOMAIN seeds : n # m /\ seeds[n][1] = seeds[m][1] => LinkedTwice(trigger, seeds[n][1])

Followed(seeds, urls) == \A n \in DOMAIN seeds : \E url \in urls : url[1] = seeds[n][1]

SeedsSound(j) ==
  /\ j.seeds \in Seq(everShown) /\ \A n \in DOMAIN j.seeds : Shown(j.seeds[n])
  /\ ReadApart(j.seeds, j.trigger)
  /\ j.step = "verify" => Active(j.trigger) /\ j.trigger.post \in Posts
  /\ j.step = "hints" => /\ ~Active(j.trigger)
                         /\ j.trigger.hints \subseteq Urls /\ j.left \subseteq j.trigger.hints
                         /\ Followed(j.seeds, j.trigger.hints \ j.left)
  /\ j.step \in {"search", "format", "leads"} /\ Active(j.trigger)
       => j.seeds = <<<<j.trigger.post, j.trigger.text>>>>
  /\ j.step = "format" => j.answer \in Answers
  /\ j.step = "leads" => j.left \subseteq Posts

\* What is held as evidence is verified, and not left to be read again; of an active
\* trigger there is an event.
LeadsSound(j) ==
  j.step = "leads" =>
    /\ EventsSound(j.events, j.verified, j.trigger)
    /\ \A e \in j.events : e.reading[1] \notin j.left
    /\ Active(j.trigger) => \E e \in j.events : e.reading = <<j.trigger.post, j.trigger.text>>

ResearchInv ==
  /\ wall = [p \in Posts |-> wall[p]]
  /\ \A p \in Posts : <<p, wall[p]>> \in everShown
  /\ JobShape(job) /\ SeedsSound(job) /\ LeadsSound(job)
  /\ EvidenceIsVerified

-----------------------------------------------------------------------------

\* The events of readings are of them, and say what they do.
LEMMA EventsOfReadings ==
  ASSUME NEW readings, NEW key
  PROVE  \A e \in ReadingEvents(readings, key) : e.reading \in readings /\ EventSound(e)
BY DEF ReadingEvents, EventSound

\* What is read before the search gives events of those readings, two of a status and
\* of one kind only if they are of the same reading.
LEMMA EventsOfSeeds ==
  ASSUME NEW S, NEW seeds \in Seq(S), NEW key
  PROVE  /\ \A e \in SeedEvents(seeds, key) : EventSound(e) /\ \E n \in DOMAIN seeds : e.reading = seeds[n]
         /\ \A e, f \in SeedEvents(seeds, key) :
              e.reading[1] = f.reading[1] /\ e.kind = f.kind => e.reading = f.reading
<1> DEFINE Of(n) == ReadingEvents({seeds[n]}, key)
           Replaced(n, e) == \E m \in DOMAIN seeds :
                               m > n /\ seeds[m][1] = seeds[n][1] /\ \E f \in Of(m) : f.kind = e.kind
<1>1. \A e \in SeedEvents(seeds, key) : \E n \in DOMAIN seeds : e \in Of(n) /\ ~Replaced(n, e)
  BY DEF SeedEvents
<1>2. \A n : \A e \in Of(n) : e.reading = seeds[n] /\ EventSound(e)
  BY EventsOfReadings
<1>3. DOMAIN seeds \subseteq Nat
  OBVIOUS
<1> HIDE DEF Of
<1>4. ASSUME NEW e \in SeedEvents(seeds, key), NEW f \in SeedEvents(seeds, key),
             e.reading[1] = f.reading[1], e.kind = f.kind
      PROVE  e.reading = f.reading
  <2>1. PICK n \in DOMAIN seeds : e \in Of(n) /\ ~Replaced(n, e)
    BY <1>1
  <2>2. PICK m \in DOMAIN seeds : f \in Of(m) /\ ~Replaced(m, f)
    BY <1>1
  <2>3. seeds[n][1] = seeds[m][1]
    BY <1>2, <1>4, <2>1, <2>2
  <2>4. ~(m > n) /\ ~(n > m)
    BY <1>4, <2>1, <2>2, <2>3
  <2>5. n = m
    BY <1>3, <2>4
  <2> QED BY <1>2, <2>1, <2>2, <2>5
<1> QED BY <1>1, <1>2, <1>4

\* One more reading, of a URL that has not been followed.
LEMMA OneMoreReading ==
  ASSUME NEW seeds \in Seq(everShown), NEW r, Shown(r), \A n \in DOMAIN seeds : Shown(seeds[n])
  PROVE  /\ Append(seeds, r) \in Seq(everShown) /\ \A n \in DOMAIN Append(seeds, r) : Shown(Append(seeds, r)[n])
         /\ \A n \in DOMAIN Append(seeds, r) :
              \/ n \in DOMAIN seeds /\ Append(seeds, r)[n] = seeds[n]
              \/ n = Len(seeds) + 1 /\ Append(seeds, r)[n] = r
<1>1. r \in everShown
  BY DEF Shown
<1>2. Append(seeds, r) \in Seq(everShown) /\ Len(Append(seeds, r)) = Len(seeds) + 1
  BY <1>1, AppendProperties
<1>3. \A n \in DOMAIN Append(seeds, r) :
        \/ n \in DOMAIN seeds /\ Append(seeds, r)[n] = seeds[n]
        \/ n = Len(seeds) + 1 /\ Append(seeds, r)[n] = r
  BY <1>1
<1> QED BY <1>2, <1>3

LEMMA FollowedApart ==
  ASSUME NEW seeds \in Seq(everShown), NEW r \in everShown, NEW trigger, NEW left, NEW url \in left, NEW rest,
         ReadApart(seeds, trigger), Followed(seeds, trigger.hints \ left),
         left \subseteq trigger.hints, rest \subseteq left \ {url}, r[1] = url[1]
  PROVE  /\ ReadApart(Append(seeds, r), trigger) /\ Followed(Append(seeds, r), trigger.hints \ rest)
         /\ Followed(seeds, trigger.hints \ rest)
<1>1. \A n \in DOMAIN Append(seeds, r) :
        \/ n \in DOMAIN seeds /\ Append(seeds, r)[n] = seeds[n]
        \/ n = Len(seeds) + 1 /\ Append(seeds, r)[n] = r
  OBVIOUS
<1>2. \A n \in DOMAIN seeds : seeds[n][1] = r[1] => LinkedTwice(trigger, r[1])
  BY DEF Followed, LinkedTwice
<1>3. ReadApart(Append(seeds, r), trigger)
  BY <1>1, <1>2 DEF ReadApart
<1> QED BY <1>1, <1>3 DEF Followed

\* Nothing has been read when nothing is under way.
LEMMA NothingRead == \A S : <<>> \in Seq(S) /\ DOMAIN <<>> = {}
OBVIOUS

\* A research that ends leaves nothing behind, and a package that is sound.
LEMMA Packaged ==
  ASSUME ResearchInv, NEW status, NEW reason, NEW events, NEW verified, NEW failed,
         Package(status, reason, events, verified, failed),
         EventsSound(events, verified, job.trigger),
         status = "READY" => \E e \in events : e.reading = <<job.trigger.post, job.trigger.text>>,
         status = "EVIDENCE_FOUND" => CarriesToken(events),
         status = "WAIT" => events = {}
  PROVE  ResearchInv'
<1>1. job' = IdleJob /\ UNCHANGED <<wall, everShown>>
  BY DEF Package
<1>2. JobShape(job)' /\ SeedsSound(job)' /\ LeadsSound(job)'
  BY <1>1, NothingRead DEF IdleJob, JobShape, SeedsSound, LeadsSound, ReadApart
<1>3. EvidenceIsVerified'
  <2> DEFINE package == [trigger |-> job.trigger, status |-> status, reason |-> reason, events |-> events,
                         verified |-> verified, failed |-> failed]
  <2>1. library' = library \/ library' = library \cup {package}
    BY DEF Package
  <2>2. /\ package.events = events /\ package.verified = verified /\ package.status = status
        /\ package.trigger = job.trigger
    OBVIOUS
  <2> HIDE DEF package
  <2>3. \A e \in events : /\ e.reading \in everShown /\ e.reading[1] \in verified
                          /\ e.reading[2] \notin {"silent", Gone}
    BY DEF EventsSound, EventSound, Shown, Gone
  <2>4. \A e, f \in events : e.reading[1] = f.reading[1] /\ e.reading # f.reading =>
          e.kind # f.kind /\ LinkedTwice(job.trigger, e.reading[1])
    BY DEF EventsSound, EventsApart
  <2>5. status = "EVIDENCE_FOUND" => \E e \in events :
          e.reading[2] = "denies" \/ (e.reading[2] = "names" /\ e.reading[1] \in Binders)
    BY DEF CarriesToken, EventsSound, EventSound
  <2>6. EvidenceIsVerified
    BY DEF ResearchInv
  <2>7. CASE library' = library
    BY <1>1, <2>6, <2>7 DEF EvidenceIsVerified
  <2>8. CASE library' = library \cup {package}
    BY <1>1, <2>2, <2>3, <2>4, <2>5, <2>6, <2>8 DEF EvidenceIsVerified
  <2> QED BY <2>1, <2>7, <2>8
<1> QED BY <1>1, <1>2, <1>3 DEF ResearchInv

LEMMA Waited == ASSUME ResearchInv, NEW reason, Wait(reason) PROVE ResearchInv'
BY Packaged DEF Wait, EventsSound, EventsApart

LEMMA Broken == ASSUME ResearchInv, Break PROVE ResearchInv'
<1>1. CASE job' = IdleJob /\ UNCHANGED <<wall, everShown, begun, library>>
  <2>1. JobShape(job)' /\ SeedsSound(job)' /\ LeadsSound(job)'
    BY <1>1, NothingRead DEF IdleJob, JobShape, SeedsSound, LeadsSound, ReadApart
  <2> QED BY <1>1, <2>1 DEF ResearchInv, EvidenceIsVerified
<1> QED BY <1>1, Waited DEF Break

\* A research that goes on needs its own part of the invariant only.
LEMMA Proceeded ==
  ASSUME ResearchInv, UNCHANGED <<wall, everShown, begun, library>>,
         JobShape(job'), SeedsSound(job'), LeadsSound(job')
  PROVE  ResearchInv'
BY DEF ResearchInv, JobShape, SeedsSound, LeadsSound, EventsSound, Shown, EvidenceIsVerified

-----------------------------------------------------------------------------

LEMMA SeqGrows == ASSUME NEW S, NEW T, S \subseteq T, NEW s \in Seq(S) PROVE s \in Seq(T)
BY DEF Seq

LEMMA EditPostKept == ASSUME ResearchInv, EditPost PROVE ResearchInv'
<1>1. PICK p \in Posts, text \in Wordings \cup {Gone} :
        wall' = [wall EXCEPT ![p] = text] /\ everShown' = everShown \cup {<<p, text>>}
  BY DEF EditPost
<1>2. UNCHANGED <<job, library>>
  BY DEF EditPost
<1>3. wall' = [q \in Posts |-> wall'[q]] /\ \A q \in Posts : <<q, wall'[q]>> \in everShown'
  BY <1>1 DEF ResearchInv
<1>4. JobShape(job)' /\ SeedsSound(job)' /\ LeadsSound(job)'
  <2>1. job.seeds \in Seq(everShown')
    BY <1>1, SeqGrows DEF ResearchInv, SeedsSound
  <2> QED BY <1>1, <1>2, <2>1 DEF ResearchInv, JobShape, SeedsSound, LeadsSound, EventsSound, Shown
<1>5. EvidenceIsVerified'
  BY <1>1, <1>2 DEF ResearchInv, EvidenceIsVerified
<1> QED BY <1>3, <1>4, <1>5 DEF ResearchInv

LEMMA BeginKept == ASSUME ResearchInv, Begin PROVE ResearchInv'
<1>1. PICK t \in Triggers :
        job' = [IdleJob EXCEPT !.step = IF Active(t) THEN "verify" ELSE IF t.hints = {} THEN "search" ELSE "hints",
                               !.trigger = t, !.left = t.hints]
  BY DEF Begin
<1>2. UNCHANGED <<wall, everShown, library>>
  BY DEF Begin
<1>3. t.hints \subseteq Urls /\ (Active(t) => t.post \in Posts)
  <2>1. CASE t \in [mode : {"ACTIVE_ACTOR", "ACTIVE_TELEGRAM"}, post : Posts, text : Wordings, hints : {{}},
                     early : BOOLEAN]
    BY <2>1
  <2>2. CASE \E hints \in SUBSET Urls : t = [NoTrigger EXCEPT !.mode = "PASSIVE_DEBOT", !.hints = hints]
    BY <2>2 DEF NoTrigger, Active
  <2>3. CASE t = [NoTrigger EXCEPT !.mode = "PASSIVE_MARKET"]
    BY <2>3 DEF NoTrigger, Active
  <2> QED BY <2>1, <2>2, <2>3 DEF Triggers
<1>4. /\ job'.step = IF Active(t) THEN "verify" ELSE IF t.hints = {} THEN "search" ELSE "hints"
      /\ job'.trigger = t /\ job'.left = t.hints /\ job'.seeds = <<>> /\ JobShape(job')
  BY <1>1 DEF IdleJob, JobShape
<1>5. SeedsSound(job') /\ LeadsSound(job')
  BY <1>3, <1>4, NothingRead DEF SeedsSound, LeadsSound, ReadApart, Followed
<1>6. UNCHANGED everShown => SeedsSound(job)' /\ LeadsSound(job)'
  BY <1>2, <1>5 DEF SeedsSound, LeadsSound, EventsSound, Shown
<1> QED BY <1>2, <1>4, <1>6 DEF ResearchInv, JobShape, EvidenceIsVerified

LEMMA VerifyTriggerKept == ASSUME ResearchInv, VerifyTrigger PROVE ResearchInv'
<1> DEFINE p == job.trigger.post
<1>1. CASE job' = [job EXCEPT !.step = "search", !.seeds = <<<<p, wall[p]>>>>] /\ wall[p] # Gone
           /\ wall[p] = job.trigger.text /\ UNCHANGED <<wall, everShown, begun, library>>
  <2>1. job.step = "verify" /\ p \in Posts /\ <<p, wall[p]>> \in everShown /\ JobShape(job) /\ SeedsSound(job)
    BY DEF VerifyTrigger, ResearchInv, SeedsSound
  <2>2. /\ job'.step = "search" /\ job'.seeds = <<<<p, wall[p]>>>> /\ job'.trigger = job.trigger
        /\ job'.left = job.left /\ JobShape(job')
    BY <1>1, <2>1 DEF JobShape
  <2>3. SeedsSound(job') /\ LeadsSound(job')
    <3>1. PICK r : r = <<p, wall[p]>>
      OBVIOUS
    <3>2. Shown(r) /\ <<r>> \in Seq(everShown) /\ DOMAIN <<r>> = {1} /\ <<r>>[1] = r
      BY <1>1, <2>1, <3>1 DEF Shown
    <3> QED BY <1>1, <2>1, <2>2, <3>1, <3>2 DEF SeedsSound, LeadsSound, ReadApart
  <2> QED BY <1>1, <2>2, <2>3, Proceeded
<1> QED BY <1>1, Waited, Broken DEF VerifyTrigger, Proceed, Same

LEMMA VerifyHintKept == ASSUME ResearchInv, VerifyHint PROVE ResearchInv'
<1>1. job.step = "hints" /\ JobShape(job) /\ SeedsSound(job) /\ UNCHANGED <<wall, everShown, begun, library>>
  BY DEF VerifyHint, Proceed, ResearchInv
<1>2. PICK url \in job.left : \E rest, seeds, failed :
        /\ rest \subseteq job.left \ {url}
        /\ \/ seeds = job.seeds
           \/ wall[url[1]] # Gone /\ seeds = Append(job.seeds, <<url[1], wall[url[1]]>>)
        /\ \/ job' = [[job EXCEPT !.seeds = seeds, !.left = rest,
                                  !.step = IF rest = {} THEN "search" ELSE "hints"] EXCEPT !.failed = failed]
           \/ job' = [job EXCEPT !.seeds = seeds, !.left = rest,
                                 !.step = IF rest = {} THEN "search" ELSE "hints"]
  <2> DEFINE Rest(url, seeds) == IF Len(seeds) < MaxHints THEN job.left \ {url} ELSE {}
             After(url, seeds) == [job EXCEPT !.seeds = seeds, !.left = Rest(url, seeds),
                                             !.step = IF Rest(url, seeds) = {} THEN "search" ELSE "hints"]
  <2>1. PICK url \in job.left :
          \/ job' = [After(url, job.seeds) EXCEPT !.failed = After(url, job.seeds).failed \cup {url[1]}]
          \/ wall[url[1]] # Gone /\ job' = After(url, Append(job.seeds, <<url[1], wall[url[1]]>>))
    BY DEF VerifyHint, Proceed
  <2>2. \A seeds : Rest(url, seeds) \subseteq job.left \ {url}
    OBVIOUS
  <2> QED BY <2>1, <2>2
<1>3. PICK r : r = <<url[1], wall[url[1]]>>
  OBVIOUS
<1>4. r[1] = url[1] /\ r[2] = wall[url[1]] /\ r \in everShown
  <2>1. url[1] \in Posts
    BY <1>1 DEF SeedsSound, Urls, Posts
  <2> QED BY <1>3, <2>1 DEF ResearchInv
<1>5. PICK rest, seeds, failed :
        /\ rest \subseteq job.left \ {url}
        /\ seeds = job.seeds \/ (r[2] # Gone /\ seeds = Append(job.seeds, r))
        /\ \/ job' = [[job EXCEPT !.seeds = seeds, !.left = rest,
                                  !.step = IF rest = {} THEN "search" ELSE "hints"] EXCEPT !.failed = failed]
           \/ job' = [job EXCEPT !.seeds = seeds, !.left = rest,
                                 !.step = IF rest = {} THEN "search" ELSE "hints"]
  <2>1. PICK rest, seeds, failed :
          /\ rest \subseteq job.left \ {url}
          /\ \/ seeds = job.seeds
             \/ wall[url[1]] # Gone /\ seeds = Append(job.seeds, <<url[1], wall[url[1]]>>)
          /\ \/ job' = [[job EXCEPT !.seeds = seeds, !.left = rest,
                                    !.step = IF rest = {} THEN "search" ELSE "hints"] EXCEPT !.failed = failed]
             \/ job' = [job EXCEPT !.seeds = seeds, !.left = rest,
                                   !.step = IF rest = {} THEN "search" ELSE "hints"]
    BY <1>2
  <2>2. seeds = job.seeds \/ (r[2] # Gone /\ seeds = Append(job.seeds, r))
    BY <1>3, <1>4, <2>1
  <2> QED BY <2>1, <2>2
<1>6. PICK j : j = [job EXCEPT !.seeds = seeds, !.left = rest, !.step = IF rest = {} THEN "search" ELSE "hints"]
  OBVIOUS
<1>7. /\ j.step = (IF rest = {} THEN "search" ELSE "hints") /\ j.seeds = seeds /\ j.left = rest
      /\ j.trigger = job.trigger /\ JobShape(j)
  BY <1>1, <1>6 DEF JobShape
<1>8. /\ job'.step = j.step /\ job'.seeds = j.seeds /\ job'.left = j.left
      /\ job'.trigger = j.trigger /\ JobShape(job')
  <2>1. job' = [j EXCEPT !.failed = failed] \/ job' = j
    BY <1>5, <1>6
  <2> QED BY <1>7, <2>1 DEF JobShape
<1>9. /\ seeds \in Seq(everShown) /\ \A n \in DOMAIN seeds : Shown(seeds[n])
      /\ ReadApart(seeds, job.trigger) /\ Followed(seeds, job.trigger.hints \ rest)
  <2>1. /\ job.seeds \in Seq(everShown) /\ \A n \in DOMAIN job.seeds : Shown(job.seeds[n])
        /\ ReadApart(job.seeds, job.trigger) /\ Followed(job.seeds, job.trigger.hints \ job.left)
        /\ job.left \subseteq job.trigger.hints
    BY <1>1 DEF SeedsSound
  <2>2. /\ ReadApart(Append(job.seeds, r), job.trigger) /\ Followed(Append(job.seeds, r), job.trigger.hints \ rest)
        /\ Followed(job.seeds, job.trigger.hints \ rest)
    BY <1>4, <1>5, <2>1, FollowedApart
  <2>3. CASE seeds = job.seeds
    BY <2>1, <2>2, <2>3
  <2>4. CASE r[2] # Gone /\ seeds = Append(job.seeds, r)
    <3>1. Shown(r)
      BY <1>4, <2>4 DEF Shown
    <3> QED BY <2>1, <2>2, <2>4, <3>1, OneMoreReading
  <2> QED BY <1>5, <2>3, <2>4
<1>10. SeedsSound(job') /\ LeadsSound(job')
  BY <1>1, <1>5, <1>7, <1>8, <1>9 DEF SeedsSound, LeadsSound
<1> QED BY <1>1, <1>8, <1>10, Proceeded

LEMMA SearchKept == ASSUME ResearchInv, Search PROVE ResearchInv'
<1>1. job.step = "search" /\ JobShape(job) /\ SeedsSound(job)
  BY DEF Search, ResearchInv
<1>2. ASSUME NEW answer \in Answers, Proceed([job EXCEPT !.step = "format", !.answer = answer])
      PROVE  ResearchInv'
  <2>1. /\ job'.step = "format" /\ job'.answer = answer /\ job'.trigger = job.trigger
        /\ job'.left = job.left /\ job'.seeds = job.seeds /\ JobShape(job')
    BY <1>1, <1>2 DEF Proceed, JobShape
  <2>2. UNCHANGED <<wall, everShown, begun, library>>
    BY <1>2 DEF Proceed
  <2>3. SeedsSound(job') /\ LeadsSound(job')
    BY <1>1, <2>1 DEF SeedsSound, LeadsSound
  <2> QED BY <2>1, <2>2, <2>3, Proceeded
<1>3. CASE Proceed([job EXCEPT !.tries = job.tries + 1])
  <2>1. /\ job'.step = job.step /\ job'.answer = job.answer /\ job'.trigger = job.trigger
        /\ job'.left = job.left /\ job'.seeds = job.seeds /\ JobShape(job')
    BY <1>1, <1>3 DEF Proceed, JobShape
  <2>2. UNCHANGED <<wall, everShown, begun, library>>
    BY <1>3 DEF Proceed
  <2>3. SeedsSound(job') /\ LeadsSound(job')
    BY <1>1, <2>1 DEF SeedsSound, LeadsSound
  <2> QED BY <2>1, <2>2, <2>3, Proceeded
<1> QED BY <1>2, <1>3, Waited DEF Search

LEMMA FormatKept == ASSUME ResearchInv, Format PROVE ResearchInv'
<1>1. job.step = "format" /\ JobShape(job) /\ SeedsSound(job)
  BY DEF Format, ResearchInv
<1>2. \/ \E reason : Wait(reason)
      \/ \E key : \E first \in First(job.answer) :
           /\ Active(job.trigger) => SeedEvents(job.seeds, key) # {}
           /\ Proceed([job EXCEPT !.step = "leads", !.key = key, !.left = Unread(first),
                                  !.answer = NoAnswer, !.tries = 0,
                                  !.verified = SeedPosts(job.seeds),
                                  !.events = SeedEvents(job.seeds, key)])
  BY DEF Format
<1>3. ASSUME NEW key, NEW first \in First(job.answer),
             Active(job.trigger) => SeedEvents(job.seeds, key) # {},
             Proceed([job EXCEPT !.step = "leads", !.key = key, !.left = Unread(first),
                                 !.answer = NoAnswer, !.tries = 0,
                                 !.verified = SeedPosts(job.seeds),
                                 !.events = SeedEvents(job.seeds, key)])
      PROVE  ResearchInv'
  <2>1. UNCHANGED <<wall, everShown, begun, library>>
    BY <1>3 DEF Proceed
  <2>2. /\ job'.step = "leads" /\ job'.left = Unread(first) /\ job'.verified = SeedPosts(job.seeds)
        /\ job'.events = SeedEvents(job.seeds, key) /\ job'.trigger = job.trigger
        /\ job'.seeds = job.seeds /\ JobShape(job')
    BY <1>1, <1>3 DEF Proceed, JobShape
  <2>3. Unread(first) \subseteq Posts \ SeedPosts(job.seeds)
    <3>1. first \subseteq XPosts
      BY <1>1 DEF SeedsSound, First, Leads, Answers
    <3> QED BY <3>1 DEF Unread, Posts
  <2>4. /\ job.seeds \in Seq(everShown) /\ \A n \in DOMAIN job.seeds : Shown(job.seeds[n])
        /\ ReadApart(job.seeds, job.trigger)
    BY <1>1 DEF SeedsSound
  <2>5. \A e \in job'.events : EventSound(e) /\ \E n \in DOMAIN job.seeds : e.reading = job.seeds[n]
    BY <2>2, <2>4, EventsOfSeeds
  <2>6. \A e, f \in job'.events : e.reading[1] = f.reading[1] /\ e.kind = f.kind => e.reading = f.reading
    BY <2>2, <2>4, EventsOfSeeds
  <2>7. EventsApart(job'.events, job.trigger)
    BY <2>4, <2>5, <2>6 DEF EventsApart, ReadApart
  <2>8. \A e \in job'.events : Shown(e.reading) /\ e.reading[1] \in SeedPosts(job.seeds)
    BY <2>4, <2>5 DEF SeedPosts
  <2>9. SeedsSound(job')
    BY <1>1, <2>2, <2>3 DEF SeedsSound
  <2>10. Active(job.trigger) => \E e \in job'.events : e.reading = <<job.trigger.post, job.trigger.text>>
    <3> SUFFICES ASSUME Active(job.trigger)
                 PROVE  \E e \in job'.events : e.reading = <<job.trigger.post, job.trigger.text>>
      OBVIOUS
    <3>1. PICK t : t = <<job.trigger.post, job.trigger.text>>
      OBVIOUS
    <3>2. job.seeds = <<t>> /\ DOMAIN <<t>> = {1} /\ <<t>>[1] = t
      BY <1>1, <3>1 DEF SeedsSound
    <3>3. PICK e \in job'.events : \E n \in DOMAIN job.seeds : e.reading = job.seeds[n]
      BY <1>3, <2>2, <2>5
    <3> QED BY <3>1, <3>2, <3>3
  <2>11. LeadsSound(job')
    BY <2>2, <2>3, <2>5, <2>7, <2>8, <2>10 DEF LeadsSound, EventsSound
  <2> QED BY <2>1, <2>2, <2>9, <2>11, Proceeded
<1> QED BY <1>2, <1>3, Waited

LEMMA VerifyLeadKept == ASSUME ResearchInv, VerifyLead PROVE ResearchInv'
<1>1. job.step = "leads" /\ JobShape(job) /\ SeedsSound(job) /\ LeadsSound(job)
  BY DEF VerifyLead, ResearchInv
<1>2. PICK p \in job.left :
        \/ Break
        \/ \E failed : Proceed([[job EXCEPT !.left = job.left \ {p}] EXCEPT !.failed = failed])
        \/ /\ wall[p] # Gone
           /\ Proceed([[job EXCEPT !.left = job.left \ {p}] EXCEPT
                 !.events = job.events \cup ReadingEvents({<<p, wall[p]>>}, job.key),
                 !.verified = job.verified \cup {p}])
  <2> DEFINE After(p) == [job EXCEPT !.left = job.left \ {p}]
  <2>1. \A p : After(p).events = job.events /\ After(p).verified = job.verified
    BY <1>1 DEF JobShape
  <2>2. \E p \in job.left :
          \/ Break
          \/ Proceed([After(p) EXCEPT !.failed = After(p).failed \cup {p}])
          \/ /\ wall[p] # Gone
             /\ Proceed([After(p) EXCEPT
                   !.events = After(p).events \cup ReadingEvents({<<p, wall[p]>>}, job.key),
                   !.verified = After(p).verified \cup {p}])
    BY DEF VerifyLead
  <2> QED BY <2>1, <2>2
<1>3. p \in Posts /\ <<p, wall[p]>> \in everShown
  BY <1>1 DEF ResearchInv, SeedsSound
<1>4. PICK j : j = [job EXCEPT !.left = job.left \ {p}]
  OBVIOUS
<1>5. /\ j.step = "leads" /\ j.seeds = job.seeds /\ j.left = job.left \ {p} /\ j.trigger = job.trigger
      /\ j.events = job.events /\ j.verified = job.verified /\ JobShape(j)
  BY <1>1, <1>4 DEF JobShape
<1>6. ASSUME NEW failed, Proceed([[job EXCEPT !.left = job.left \ {p}] EXCEPT !.failed = failed])
      PROVE  ResearchInv'
  <2>1. job' = [j EXCEPT !.failed = failed] /\ UNCHANGED <<wall, everShown, begun, library>>
    BY <1>4, <1>6 DEF Proceed
  <2>2. /\ job'.step = "leads" /\ job'.seeds = job.seeds /\ job'.left = job.left \ {p}
        /\ job'.trigger = job.trigger
        /\ job'.events = job.events /\ job'.verified = job.verified /\ JobShape(job')
    BY <1>5, <2>1 DEF JobShape
  <2>3. SeedsSound(job') /\ LeadsSound(job')
    BY <1>1, <2>2 DEF SeedsSound, LeadsSound
  <2> QED BY <2>1, <2>2, <2>3, Proceeded
<1>7. ASSUME wall[p] # Gone,
             Proceed([[job EXCEPT !.left = job.left \ {p}] EXCEPT
               !.events = job.events \cup ReadingEvents({<<p, wall[p]>>}, job.key),
               !.verified = job.verified \cup {p}])
      PROVE  ResearchInv'
  <2>1. PICK found : found = ReadingEvents({<<p, wall[p]>>}, job.key)
    OBVIOUS
  <2>2. /\ job' = [j EXCEPT !.events = job.events \cup found, !.verified = job.verified \cup {p}]
        /\ UNCHANGED <<wall, everShown, begun, library>>
    BY <1>4, <1>7, <2>1 DEF Proceed
  <2>3. /\ job'.step = "leads" /\ job'.seeds = job.seeds /\ job'.left = job.left \ {p}
        /\ job'.trigger = job.trigger
        /\ job'.events = job.events \cup found /\ job'.verified = job.verified \cup {p} /\ JobShape(job')
    BY <1>5, <2>2 DEF JobShape
  <2>4. \A e \in found : EventSound(e) /\ e.reading = <<p, wall[p]>>
    BY <2>1, EventsOfReadings
  <2>5. SeedsSound(job')
    BY <1>1, <2>3 DEF SeedsSound
  <2>6. EventsSound(job'.events, job'.verified, job'.trigger)
    <3>1. PICK r : r = <<p, wall[p]>>
      OBVIOUS
    <3>2. Shown(r) /\ r[1] = p
      BY <1>3, <1>7, <3>1 DEF Shown
    <3>3. EventsSound(job.events, job.verified, job.trigger) /\ \A e \in job.events : e.reading[1] # p
      BY <1>1 DEF LeadsSound
    <3>4. \A e \in found : EventSound(e) /\ e.reading = r
      BY <2>4, <3>1
    <3>5. EventsApart(job'.events, job'.trigger)
      BY <2>3, <3>2, <3>3, <3>4 DEF EventsSound, EventsApart
    <3> QED BY <2>3, <3>2, <3>3, <3>4, <3>5 DEF EventsSound
  <2>7. LeadsSound(job')
    BY <1>1, <2>3, <2>4, <2>6 DEF LeadsSound
  <2> QED BY <2>2, <2>3, <2>5, <2>7, Proceeded
<1> QED BY <1>2, <1>6, <1>7, Broken

LEMMA ConcludeKept == ASSUME ResearchInv, Conclude PROVE ResearchInv'
<1>1. job.step = "leads" /\ LeadsSound(job)
  BY DEF Conclude, ResearchInv
<1>2. /\ EventsSound(job.events, job.verified, job.trigger)
      /\ Active(job.trigger) => \E e \in job.events : e.reading = <<job.trigger.post, job.trigger.text>>
  BY <1>1 DEF LeadsSound
<1>3. CASE /\ Active(job.trigger)
           /\ Package("READY", "verified_narrative_package", job.events, job.verified, job.failed)
  BY <1>2, <1>3, Packaged
<1>4. ASSUME NEW reason, Package("WAIT", reason, {}, job.verified, job.failed) PROVE ResearchInv'
  BY <1>4, Packaged DEF EventsSound, EventsApart
<1>5. CASE /\ CarriesToken(job.events)
           /\ Package("EVIDENCE_FOUND", "verified_narrative_evidence_found", job.events, job.verified, job.failed)
  BY <1>2, <1>5, Packaged
<1> QED BY <1>3, <1>4, <1>5 DEF Conclude

\* In every behaviour a package holds as evidence only what was verified for it, and two
\* texts of a post only when its trigger links the post twice.
THEOREM ResearchEvidence == ResearchSpec => []EvidenceIsVerified
<1>1. ResearchInit => ResearchInv
  <2> SUFFICES ASSUME ResearchInit PROVE ResearchInv
    OBVIOUS
  <2>1. JobShape(job) /\ SeedsSound(job) /\ LeadsSound(job)
    BY NothingRead DEF IdleJob, JobShape, SeedsSound, LeadsSound, ReadApart, ResearchInit
  <2>2. EvidenceIsVerified
    BY DEF ResearchInit, EvidenceIsVerified
  <2> QED BY <2>1, <2>2 DEF ResearchInit, ResearchInv
<1>2. ResearchInv /\ [ResearchNext]_researchVars => ResearchInv'
  <2> SUFFICES ASSUME ResearchInv, [ResearchNext]_researchVars PROVE ResearchInv'
    OBVIOUS
  <2>1. CASE UNCHANGED researchVars
    BY <2>1 DEF researchVars, ResearchInv, JobShape, SeedsSound, LeadsSound, EventsSound, Shown, EvidenceIsVerified
  <2> QED BY <2>1, EditPostKept, BeginKept, VerifyTriggerKept, VerifyHintKept, SearchKept, FormatKept,
             VerifyLeadKept, ConcludeKept DEF ResearchNext
<1>3. ResearchInv => EvidenceIsVerified
  BY DEF ResearchInv
<1> QED BY <1>1, <1>2, <1>3, PTL DEF ResearchSpec

-----------------------------------------------------------------------------
(* Investigation *)

InvestigationSpec == InvestigationInit /\ [][InvestigationNext]_investigationVars

\* The verdict is of the statuses there are.
InvestigationInv == statuses \subseteq Posted /\ conclusion = Investigate(asked, statuses)

\* The usable events of statuses.
Evidence(posts) == {e \in UNION {EventsOf(p) : p \in posts} : UsableAt(e)}

LEMMA ConclusionOf ==
  ASSUME NEW r, NEW posts, Investigate(r, posts) # "error"
  PROVE  Investigate(r, posts) = Judge(r, Evidence(posts))
BY DEF Investigate, Evidence

LEMMA EventsAreOf == \A p : \A e \in EventsOf(p) : e.post = p
BY DEF EventsOf

\* A status that is not usable adds nothing.
LEMMA UnusableAddsNothing ==
  ASSUME NEW posts, NEW p, ~(p.published <= Cutoff /\ p.fetched <= Cutoff)
  PROVE  Evidence(posts \cup {p}) = Evidence(posts)
BY EventsAreOf DEF Evidence, UsableAt

\* A usable denial is counter-evidence, and with counter-evidence there is no candidate.
LEMMA DenialCounts ==
  ASSUME NEW posts, NEW p, p.says = "denial", p.published <= Cutoff /\ p.fetched <= Cutoff
  PROVE  \E e \in Evidence(posts \cup {p}) : e.kind = "counter_evidence"
<1>1. \E t : t \in IF p.tokens = {} THEN {"none"} ELSE p.tokens
  OBVIOUS
<1>2. PICK t : [kind |-> "counter_evidence", token |-> t, post |-> p] \in EventsOf(p)
  BY <1>1 DEF EventsOf
<1> DEFINE e == [kind |-> "counter_evidence", token |-> t, post |-> p]
<1>3. e.kind = "counter_evidence" /\ UsableAt(e)
  BY DEF UsableAt
<1> HIDE DEF e
<1> QED BY <1>2, <1>3 DEF Evidence, e

LEMMA CounteredIsNone ==
  ASSUME NEW r, NEW events, \E e \in events : e.kind = "counter_evidence"
  PROVE  Judge(r, events) # "BUY_CANDIDATE"
BY DEF Judge

\* In every behaviour late news changes nothing and a denial helps nothing.
THEOREM InvestigationUnhelped == InvestigationSpec => LateOrDenyingNeverHelps
<1>1. InvestigationInit => InvestigationInv
  BY DEF InvestigationInit, InvestigationInv
<1>2. InvestigationInv /\ [InvestigationNext]_investigationVars => InvestigationInv'
  BY DEF InvestigationInv, InvestigationNext, AddStatus, investigationVars
<1>3. InvestigationInv /\ [InvestigationNext]_investigationVars
        => [\A p \in statuses' \ statuses :
              /\ p.fetched > Cutoff /\ conclusion # "error" /\ conclusion' # "error" => conclusion' = conclusion
              /\ p.says = "denial" /\ conclusion # "error" /\ conclusion # "BUY_CANDIDATE"
                   => conclusion' # "BUY_CANDIDATE"]_investigationVars
  <2> SUFFICES ASSUME InvestigationInv, InvestigationNext, NEW p \in statuses' \ statuses
               PROVE  /\ p.fetched > Cutoff /\ conclusion # "error" /\ conclusion' # "error"
                           => conclusion' = conclusion
                      /\ p.says = "denial" /\ conclusion # "error" /\ conclusion # "BUY_CANDIDATE"
                           => conclusion' # "BUY_CANDIDATE"
    OBVIOUS
  <2>1. p \in Posted /\ statuses' = statuses \cup {p} /\ asked' = asked
    BY DEF InvestigationNext, AddStatus
  <2>2. /\ conclusion # "error" => conclusion = Judge(asked, Evidence(statuses))
        /\ conclusion' # "error" => conclusion' = Judge(asked, Evidence(statuses \cup {p}))
    BY <2>1, ConclusionOf DEF InvestigationInv, InvestigationNext, AddStatus
  <2>3. Cutoff \in Nat /\ p.published \in Nat /\ p.fetched \in Nat
    BY <2>1, InvestigationAssumption DEF InvestigationAssumption
  <2>4. CASE p.published <= Cutoff /\ p.fetched <= Cutoff
    <3>1. p.says = "denial" => Judge(asked, Evidence(statuses \cup {p})) # "BUY_CANDIDATE"
      BY <2>4, DenialCounts, CounteredIsNone
    <3>2. ~(p.fetched > Cutoff)
      BY <2>3, <2>4
    <3> QED BY <2>2, <3>1, <3>2
  <2>5. CASE ~(p.published <= Cutoff /\ p.fetched <= Cutoff)
    BY <2>2, <2>5, UnusableAddsNothing
  <2> QED BY <2>4, <2>5
<1> QED BY <1>1, <1>2, <1>3, PTL DEF InvestigationSpec, LateOrDenyingNeverHelps

-----------------------------------------------------------------------------
(* NarrativeGate *)

GateSpec == GateInit /\ [][GateNext]_gateVars

\* The dossier is of the material, the verdict of the dossier.
GateInv ==
  /\ built = Dossier(material)
  /\ \/ gated.verdict # "PASS"
     \/ /\ gated.verdict = Gate(built, gated.valuation, gated.wave, gated.now)
        /\ gated.valuation.at \in Nat /\ gated.wave.assessed \in Nat /\ gated.now \in Nat

\* What passes was made of a status that was fetched in time, and of a signal that
\* was available in time.
LEMMA PassedInTime ==
  ASSUME NEW m, NEW valuation, NEW wave, NEW moment,
         Gate(Dossier(m), valuation, wave, moment) = "PASS"
  PROVE  ~(m.status.fetched > AsOf) /\ ~(m.signal.available > AsOf)
<1>1. Dossier(m).research \notin {"REJECT", "WAIT"}
  BY DEF Gate
<1>2. Research(m) \notin {"REJECT", "WAIT"}
  BY <1>1 DEF Dossier
<1>3. /\ ~(m.signal.available > AsOf)
      /\ BindingReason(m.status) \in {"bound", "target_ca_not_mentioned"}
  BY <1>2 DEF Research
<1>4. ~(m.status.fetched > AsOf)
  BY <1>3 DEF BindingReason
<1> QED BY <1>3, <1>4

\* And, once it is known in time, its dossier is the same without the rest.
LEMMA SameDossier ==
  ASSUME NEW m, ~(m.status.fetched > AsOf), ~(m.signal.available > AsOf)
  PROVE  Dossier(KnownAt(m)) = Dossier(m)
<1> DEFINE k == KnownAt(m)
<1>1. k.status = m.status /\ k.signal = m.signal
  BY DEF KnownAt
<1>2. k.facts = {f \in m.facts : f.inserted <= AsOf} /\ k.spread = {s \in m.spread : s.captured <= AsOf}
  BY DEF KnownAt
<1> HIDE DEF k
<1>3. Accepted(k) = Accepted(m)
  BY <1>1, <1>2 DEF Accepted, Prior
<1>4. Spread(k) = Spread(m)
  BY <1>2 DEF Spread, Usable
<1>5. /\ Validated(k) = Validated(m) /\ Conflict(k) = Conflict(m) /\ CurrentKol(k) = CurrentKol(m)
      /\ Community(k) = Community(m) /\ OfStatus(k) = OfStatus(m) /\ OfContext(k) = OfContext(m)
      /\ OfSpread(k) = OfSpread(m) /\ Research(k) = Research(m)
  BY <1>1, <1>3, <1>4 DEF Validated, Conflict, CurrentKol, Community, OfStatus, OfContext, OfSpread, Research
<1>6. Canonicality(k) = Canonicality(m) /\ Stage(k) = Stage(m)
  BY <1>1, <1>5 DEF Canonicality, Stage
<1>7. \A d : Identity(k, d) = Identity(m, d)
  BY <1>1, <1>5 DEF Identity
<1>8. Findings(k) = Findings(m)
  BY <1>1, <1>5, <1>7 DEF Findings
<1>9. FatalUnknown(k) = FatalUnknown(m)
  BY <1>3, <1>5, <1>8 DEF FatalUnknown
<1> QED BY <1>1, <1>3, <1>5, <1>6, <1>8, <1>9 DEF Dossier, k

\* In every behaviour a PASS rests on nothing that came after the cutoff.
THEOREM GateNoLookahead == GateSpec => []NoLookahead
<1>1. GateInit => GateInv
  BY DEF GateInit, GateInv, NoGate
<1>2. GateInv /\ [GateNext]_gateVars => GateInv'
  <2> SUFFICES ASSUME GateInv, [GateNext]_gateVars PROVE GateInv'
    OBVIOUS
  <2>1. CASE UNCHANGED gateVars
    BY <2>1 DEF gateVars, GateInv
  <2>2. CASE BuildDossier
    BY <2>2 DEF BuildDossier, GateInv, NoGate
  <2>3. CASE DecideGate
    <3>1. PICK valuation \in Valuations, wave \in Waves(built.signal), moment \in AsOf..LastMoment :
            gated' = [verdict |-> Gate(built, valuation, wave, moment),
                      valuation |-> valuation, wave |-> wave, now |-> moment]
      BY <2>3 DEF DecideGate
    <3>2. valuation.at \in Nat /\ wave.assessed \in Nat /\ moment \in Nat
      BY GateAssumption DEF Valuations, Waves, GoodWave, Never
    <3> QED BY <2>3, <3>1, <3>2 DEF DecideGate, GateInv
  <2> QED BY <2>1, <2>2, <2>3 DEF GateNext
<1>3. GateInv => NoLookahead
  <2> SUFFICES ASSUME GateInv, gated.verdict = "PASS"
               PROVE  /\ gated.wave.assessed <= gated.now /\ gated.valuation.at <= AsOf
                      /\ Gate(Dossier(KnownAt(material)), gated.valuation, gated.wave, gated.now) = "PASS"
    BY DEF NoLookahead
  <2>1. /\ Gate(Dossier(material), gated.valuation, gated.wave, gated.now) = "PASS"
        /\ gated.valuation.at \in Nat /\ gated.wave.assessed \in Nat /\ gated.now \in Nat
    BY DEF GateInv
  <2>2. Dossier(KnownAt(material)) = Dossier(material)
    BY <2>1, PassedInTime, SameDossier
  <2>3. /\ Ready(Dossier(material), gated.valuation) = "PASS_TO_EXECUTION"
        /\ Wave(gated.wave, gated.now) \notin {"REJECT", "WAIT"}
    BY <2>1 DEF Gate
  <2>4. ~(gated.valuation.at > AsOf)
    BY <2>3 DEF Ready
  <2>5. ~(gated.wave.assessed > gated.now)
    BY <2>3 DEF Wave
  <2> QED BY <2>1, <2>2, <2>4, <2>5, GateAssumption
<1> QED BY <1>1, <1>2, <1>3, PTL DEF GateSpec

-----------------------------------------------------------------------------
(* CausalReplay *)

ReplaySpec == ReplayInit /\ [][ReplayNext]_replayVars

\* The verdict is of the evidence there is.
ReplayInv == caseItems \subseteq ReplayItems /\ replayed = Evaluate(caseItems)

\* A denial that counts is not outweighed by more evidence.
LEMMA DenialStands ==
  ASSUME NEW items, NEW more, items \subseteq more, Evaluate(items) = "REJECT"
  PROVE  Evaluate(more) = "REJECT"
BY DEF Evaluate

\* An item that was not known in time leaves the evidence that counts as it was, and
\* is doubtful.
LEMMA LateItem ==
  ASSUME NEW items, NEW late, \A item \in late : ~PriorItem(item), late # {}
  PROVE  \/ Evaluate(items \cup late) = Evaluate(items)
         \/ Evaluate(items) = "CAUSAL_READY" /\ Evaluate(items \cup late) = "WAIT"
<1>1. {i \in items \cup late : PriorItem(i)} = {i \in items : PriorItem(i)}
  OBVIOUS
<1>2. \E i \in items \cup late : Doubtful(i)
  BY DEF Doubtful
<1> QED BY <1>1, <1>2 DEF Evaluate

\* In every behaviour a replay gains nothing from hindsight.
THEOREM ReplayHindsight == ReplaySpec => HindsightHelpsNothing
<1>1. ReplayInit => ReplayInv
  BY DEF ReplayInit, ReplayInv
<1>2. ReplayInv /\ [ReplayNext]_replayVars => ReplayInv'
  BY DEF ReplayInv, ReplayNext, AddItem, replayVars
<1>3. ReplayInv /\ [ReplayNext]_replayVars
        => [/\ (\A item \in caseItems' \ caseItems :
                  \/ ~item.live \/ item.known = 0 \/ item.known >= TriggerAt)
                 => replayed' = replayed \/ (replayed = "CAUSAL_READY" /\ replayed' = "WAIT")
            /\ replayed = "REJECT" => replayed' = "REJECT"]_replayVars
  <2> SUFFICES ASSUME ReplayInv, ReplayNext
               PROVE  /\ (\A item \in caseItems' \ caseItems :
                            \/ ~item.live \/ item.known = 0 \/ item.known >= TriggerAt)
                           => replayed' = replayed \/ (replayed = "CAUSAL_READY" /\ replayed' = "WAIT")
                      /\ replayed = "REJECT" => replayed' = "REJECT"
    OBVIOUS
  <2>1. PICK item \in ReplayItems \ caseItems : caseItems' = caseItems \cup {item}
    BY DEF ReplayNext, AddItem
  <2>2. replayed = Evaluate(caseItems) /\ replayed' = Evaluate(caseItems')
    BY DEF ReplayInv, ReplayNext, AddItem
  <2>3. replayed = "REJECT" => replayed' = "REJECT"
    BY <2>1, <2>2, DenialStands
  <2>4. ASSUME ~item.live \/ item.known = 0 \/ item.known >= TriggerAt
        PROVE  replayed' = replayed \/ (replayed = "CAUSAL_READY" /\ replayed' = "WAIT")
    <3>1. ~PriorItem(item)
      BY <2>4, ReplayAssumption DEF ReplayAssumption, PriorItem
    <3>2. (\A i \in {item} : ~PriorItem(i)) /\ {item} # {}
      BY <3>1
    <3>3. \/ Evaluate(caseItems \cup {item}) = Evaluate(caseItems)
          \/ Evaluate(caseItems) = "CAUSAL_READY" /\ Evaluate(caseItems \cup {item}) = "WAIT"
      BY <3>2, LateItem
    <3> QED BY <2>1, <2>2, <3>3
  <2> QED BY <2>1, <2>3, <2>4
<1> QED BY <1>1, <1>2, <1>3, PTL DEF ReplaySpec, HindsightHelpsNothing

-----------------------------------------------------------------------------
(* EntryWindow *)

WindowSpec == WindowInit /\ [][WindowNext]_windowVars

Boundary == [number : Nat, hash : Nat, stamp : Nat, at : Nat]

\* The clock, the chain and what is remembered of both.
ChainSound ==
  /\ clock \in 1..LastSecond
  /\ mined \in Nat
  /\ canonical \in Seq(Nat) /\ canonical # <<>>
  /\ seenAt = [s \in 1..LastSecond |-> seenAt[s]]
  /\ canonical \in seenAt[clock]

\* The head that was observed was the tip of a chain there was at that moment.
HeadSound ==
  observed # NoBoundary =>
    /\ observed.at \in 1..clock
    /\ \E chain \in seenAt[observed.at] :
         chain \in Seq(Nat) /\ Len(chain) = observed.number /\ chain[Len(chain)] = observed.hash

\* A decision is about the boundaries as they are still: both stay when it is taken.
EntrySound ==
  /\ entered # Undecided => QuoteMade
  /\ entered.status = "COMMIT" =>
       entered.at \in Nat /\ Execution(quoted, observed, entered.at) = "PASS"

WindowInv ==
  /\ ChainSound
  /\ quoted \in Boundary /\ observed \in Boundary
  /\ HeadSound
  /\ EntrySound

LEMMA TipIsBlock ==
  ASSUME ChainSound
  PROVE  Len(canonical) \in Nat /\ canonical[Len(canonical)] \in Nat
<1>1. Len(canonical) \in Nat /\ Len(canonical) > 0
  BY EmptySeq, LenProperties DEF ChainSound
<1> QED BY <1>1, ElementOfSeq DEF ChainSound

\* What was remembered of the past still is.
LEMMA HeadStays ==
  ASSUME HeadSound, observed' = observed, clock \in Nat, clock' \in Nat, clock <= clock',
         \A s \in 1..clock : seenAt[s] \subseteq seenAt'[s]
  PROVE  HeadSound'
BY DEF HeadSound

LEMMA MineKept == ASSUME WindowInv, Mine PROVE WindowInv'
<1>1. mined' = mined + 1 /\ UNCHANGED <<clock, quoted, observed, entered>>
  BY DEF Mine
<1>2. PICK parents \in {canonical, SubSeq(canonical, 1, Len(canonical) - 1)} :
        canonical' = Append(parents, mined + 1)
  BY DEF Mine
<1>3. mined \in Nat /\ mined + 1 \in Nat /\ canonical \in Seq(Nat) /\ Len(canonical) \in Nat
  BY TipIsBlock DEF WindowInv, ChainSound
<1>4. parents \in Seq(Nat)
  <2>1. SubSeq(canonical, 1, Len(canonical) - 1) \in Seq(Nat)
    BY <1>3
  <2> QED BY <1>2, <1>3, <2>1
<1>5. canonical' \in Seq(Nat) /\ canonical' # <<>>
  BY <1>2, <1>3, <1>4, AppendProperties
<1>6. /\ seenAt' = [s \in 1..LastSecond |-> seenAt'[s]]
      /\ canonical' \in seenAt'[clock]
      /\ \A s \in 1..LastSecond : seenAt[s] \subseteq seenAt'[s]
  BY DEF Mine, WindowInv, ChainSound
<1>7. clock \in Nat /\ 1..clock \subseteq 1..LastSecond
  BY WindowAssumption DEF WindowInv, ChainSound
<1>8. ChainSound'
  BY <1>1, <1>3, <1>5, <1>6 DEF WindowInv, ChainSound
<1>9. HeadSound'
  BY <1>1, <1>6, <1>7, HeadStays DEF WindowInv
<1> QED BY <1>1, <1>8, <1>9 DEF WindowInv, EntrySound, QuoteMade

LEMMA ElapseKept == ASSUME WindowInv, Elapse PROVE WindowInv'
<1>1. /\ clock < LastSecond /\ clock' = clock + 1
      /\ seenAt' = [seenAt EXCEPT ![clock'] = {canonical}]
      /\ UNCHANGED <<canonical, mined, quoted, observed, entered>>
  BY DEF Elapse
<1>2. /\ clock \in Nat /\ clock' \in 1..LastSecond /\ clock' \in Nat /\ clock <= clock'
      /\ 1..clock \subseteq 1..LastSecond /\ clock' \notin 1..clock
  BY <1>1, WindowAssumption DEF WindowInv, ChainSound
<1>3. /\ seenAt' = [s \in 1..LastSecond |-> seenAt'[s]]
      /\ canonical' \in seenAt'[clock']
      /\ \A s \in 1..clock : seenAt[s] \subseteq seenAt'[s]
  BY <1>1, <1>2 DEF WindowInv, ChainSound
<1>4. ChainSound'
  BY <1>1, <1>2, <1>3 DEF WindowInv, ChainSound
<1>5. HeadSound'
  BY <1>1, <1>2, <1>3, HeadStays DEF WindowInv
<1> QED BY <1>1, <1>4, <1>5 DEF WindowInv, EntrySound, QuoteMade

LEMMA StartQuoteKept == ASSUME WindowInv, StartQuote PROVE WindowInv'
<1>1. PICK stamp \in {clock, clock + 1} :
        quoted' = [number |-> Len(canonical), hash |-> canonical[Len(canonical)], stamp |-> stamp, at |-> 0]
  BY DEF StartQuote
<1>2. clock \in Nat /\ stamp \in Nat
  BY DEF WindowInv, ChainSound
<1>3. quoted' \in Boundary
  BY <1>1, <1>2, TipIsBlock DEF WindowInv, Boundary
<1>4. quoted = NoBoundary /\ UNCHANGED <<clock, canonical, mined, seenAt, observed, entered>>
  BY DEF StartQuote
<1>5. ~QuoteMade
  BY <1>4 DEF QuoteMade, NoBoundary
<1>6. entered = Undecided /\ entered.status # "COMMIT"
  BY <1>5 DEF WindowInv, EntrySound, Undecided
<1> QED BY <1>3, <1>4, <1>6 DEF WindowInv, ChainSound, HeadSound, EntrySound

LEMMA CompleteQuoteKept == ASSUME WindowInv, CompleteQuote PROVE WindowInv'
<1>1. /\ ~QuoteMade /\ quoted' = [quoted EXCEPT !.at = clock]
      /\ UNCHANGED <<clock, canonical, mined, seenAt, observed, entered>>
  BY DEF CompleteQuote
<1>2. clock \in Nat /\ quoted' \in Boundary
  <2>1. clock \in Nat
    BY DEF WindowInv, ChainSound
  <2>2. quoted \in Boundary
    BY DEF WindowInv
  <2> QED BY <1>1, <2>1, <2>2 DEF Boundary
<1>3. entered = Undecided /\ entered.status # "COMMIT"
  BY <1>1 DEF WindowInv, EntrySound, Undecided
<1> QED BY <1>1, <1>2, <1>3 DEF WindowInv, ChainSound, HeadSound, EntrySound

LEMMA ObserveHeadKept == ASSUME WindowInv, ObserveHead PROVE WindowInv'
<1>1. /\ entered = Undecided /\ entered.status # "COMMIT"
      /\ observed' = [number |-> Len(canonical), hash |-> canonical[Len(canonical)], stamp |-> 0, at |-> clock]
      /\ UNCHANGED <<clock, canonical, mined, seenAt, quoted, entered>>
  BY DEF ObserveHead, Undecided
<1>2. clock \in Nat /\ clock \in 1..clock
  BY DEF WindowInv, ChainSound
<1>3. observed' \in Boundary
  BY <1>1, <1>2, TipIsBlock DEF WindowInv, Boundary
<1>4. HeadSound'
  BY <1>1, <1>2 DEF WindowInv, ChainSound, HeadSound
<1> QED BY <1>1, <1>3, <1>4 DEF WindowInv, ChainSound, EntrySound

LEMMA AuthorizeKept == ASSUME WindowInv, Authorize PROVE WindowInv'
<1>1. /\ QuoteMade /\ UNCHANGED <<clock, canonical, mined, seenAt, quoted, observed>>
      /\ entered'.status = "COMMIT" => Execution(quoted, observed, clock) = "PASS"
      /\ entered'.at = clock
  BY DEF Authorize
<1>2. clock \in Nat
  BY DEF WindowInv, ChainSound
<1>3. EntrySound'
  BY <1>1, <1>2 DEF EntrySound, QuoteMade
<1> QED BY <1>1, <1>3 DEF WindowInv, ChainSound, HeadSound

LEMMA WindowInvStep == WindowInv /\ [WindowNext]_windowVars => WindowInv'
<1> SUFFICES ASSUME WindowInv, [WindowNext]_windowVars PROVE WindowInv'
  OBVIOUS
<1>1. CASE UNCHANGED windowVars
  BY <1>1 DEF windowVars, WindowInv, ChainSound, HeadSound, EntrySound, QuoteMade
<1>2. CASE WindowNext
  BY <1>2, MineKept, ElapseKept, StartQuoteKept, CompleteQuoteKept, ObserveHeadKept, AuthorizeKept
     DEF WindowNext
<1> QED BY <1>1, <1>2

\* In every behaviour a commit rests on a block that was on the chain at a moment
\* between the quote and the decision.
THEOREM WindowCommitsOnChain == WindowSpec => []CommitsOnChain
<1>1. WindowInit => WindowInv
  <2> SUFFICES ASSUME WindowInit PROVE WindowInv
    OBVIOUS
  <2>1. <<1>> \in Seq(Nat) /\ <<1>> # <<>>
    OBVIOUS
  <2>2. ChainSound
    BY <2>1, WindowAssumption DEF WindowInit, ChainSound
  <2>3. NoBoundary \in Boundary /\ Undecided.status # "COMMIT"
    BY DEF NoBoundary, Boundary, Undecided
  <2> QED BY <2>2, <2>3 DEF WindowInit, WindowInv, HeadSound, EntrySound
<1>2. WindowInv => CommitsOnChain
  <2> SUFFICES ASSUME WindowInv, entered.status = "COMMIT"
               PROVE  /\ entered.at - quoted.at <= MaxQuoteAge
                      /\ \E second \in quoted.at..entered.at :
                           /\ entered.at - second <= MaxHeadAge
                           /\ \E chain \in seenAt[second] :
                                /\ quoted.number <= Len(chain) /\ Len(chain) <= quoted.number + MaxLag
                                /\ Len(chain) = quoted.number => chain[Len(chain)] = quoted.hash
    BY DEF CommitsOnChain
  <2>1. entered.at \in Nat /\ Execution(quoted, observed, entered.at) = "PASS"
    BY DEF WindowInv, EntrySound
  <2>2. ~Rejected(quoted, observed, entered.at) /\ ~Requote(quoted, observed, entered.at)
    BY <2>1 DEF Execution
  <2>3. /\ quoted.at \in Nat /\ observed.at \in Nat /\ quoted.number \in Nat /\ observed.number \in Nat
        /\ MaxQuoteAge \in Nat /\ MaxHeadAge \in Nat /\ MaxLag \in Nat
    BY WindowAssumption DEF WindowInv, Boundary
  <2>4. /\ entered.at - quoted.at <= MaxQuoteAge
        /\ observed.at \in quoted.at..entered.at /\ entered.at - observed.at <= MaxHeadAge
        /\ quoted.number <= observed.number /\ observed.number <= quoted.number + MaxLag
        /\ observed.number = quoted.number => observed.hash = quoted.hash
        /\ observed # NoBoundary
    BY <2>1, <2>2, <2>3 DEF Rejected, Requote, Reorged
  <2>5. PICK chain \in seenAt[observed.at] :
          Len(chain) = observed.number /\ chain[Len(chain)] = observed.hash
    BY <2>4 DEF WindowInv, HeadSound
  <2> QED BY <2>4, <2>5
<1> QED BY <1>1, <1>2, WindowInvStep, PTL DEF WindowSpec

-----------------------------------------------------------------------------
(* PaperTrade *)

TradeSpec == TradeInit /\ [][TradeNext]_tradeVars

\* The fill is of the quote, and the mark of the fill.
TradeInv ==
  /\ pool \in Pools
  /\ offer = NoOffer \/ \E p \in Pools, cost \in Notionals, buyTax, sellTax \in Taxes :
                          offer = BuyQuote(p, cost, buyTax, sellTax)
  /\ holding # NoHolding => offer # NoOffer /\ holding = [received |-> offer.received, tax |-> offer.tax]
  /\ marked # NoMark => holding # NoHolding /\ marked.value = MarkValue(marked.at, holding)

-----------------------------------------------------------------------------

LEMMA Quotient ==
  ASSUME NEW n \in Nat, NEW d \in Nat \ {0}
  PROVE  n \div d \in Nat /\ (n \div d) * d <= n
OBVIOUS

LEMMA QuotientRises ==
  ASSUME NEW n \in Nat, NEW d \in Nat \ {0}, NEW m \in Nat, NEW e \in Nat \ {0}, n * e <= m * d
  PROVE  n \div d <= m \div e
OBVIOUS

LEMMA ProductRises ==
  ASSUME NEW x \in Nat, NEW y \in Nat, NEW v \in Nat, NEW w \in Nat, x <= y, v <= w
  PROVE  x * v \in Nat /\ y * w \in Nat /\ x * v <= y * w
OBVIOUS

\* A swap takes less from the pool than it would at the pool's price, and never all.
SwapFor(in, x, y, out) ==
  out \in Nat /\ out < y /\ out * (x * 400 + in * 399) <= in * 399 * y

LEMMA SwapBounds ==
  ASSUME NEW in \in Nat, NEW x \in Nat \ {0}, NEW y \in Nat \ {0}
  PROVE  SwapFor(in, x, y, AmountOut(in, x, y))
<1> DEFINE d == x * 400 + in * 399
           n == in * 399 * y
<1>1. d \in Nat \ {0} /\ n \in Nat /\ n < d * y
  <2>1. in * y \in Nat /\ x * y \in Nat /\ x * y > 0
    OBVIOUS
  <2>2. n = 399 * (in * y) /\ d * y = 400 * (x * y) + 399 * (in * y)
    OBVIOUS
  <2> HIDE DEF n
  <2>3. d \in Nat \ {0}
    OBVIOUS
  <2> HIDE DEF d
  <2> QED BY <2>1, <2>2, <2>3
<1>2. CASE in = 0
  BY <1>2 DEF AmountOut, SwapFor
<1>3. CASE in > 0
  <2>1. AmountOut(in, x, y) = n \div d
    BY <1>3 DEF AmountOut
  <2> HIDE DEF n, d
  <2>2. n \div d \in Nat /\ (n \div d) * d <= n
    BY <1>1, Quotient
  <2>3. n \div d < y
    <3> SUFFICES ASSUME n \div d >= y PROVE FALSE
      BY <2>2
    <3>1. y * d <= (n \div d) * d
      BY <1>1, <2>2, ProductRises
    <3>2. y * d = d * y /\ d * y \in Nat /\ (n \div d) * d \in Nat
      BY <1>1, <2>2
    <3> QED BY <1>1, <2>2, <3>1, <3>2
  <2> QED BY <2>1, <2>2, <2>3 DEF n, d, SwapFor
<1> QED BY <1>2, <1>3

LEMMA TaxTakes ==
  ASSUME NEW amount \in Nat, NEW tax \in 0..100
  PROVE  AfterTax(amount, tax) \in Nat /\ AfterTax(amount, tax) <= amount
<1>1. amount * (100 - tax) \in Nat /\ amount * (100 - tax) <= amount * 100
  BY ProductRises
<1>2. (amount * (100 - tax)) \div 100 <= (amount * 100) \div 100
  BY <1>1
<1>3. (amount * 100) \div 100 = amount
  OBVIOUS
<1> QED BY <1>1, <1>2, <1>3 DEF AfterTax

\* What was bought for an amount in a pool sells for no more than the amount.
LEMMA RoundTrip ==
  ASSUME NEW in \in Nat, NEW token \in Nat, NEW quote \in Nat,
         NEW bought \in Nat, bought < token, bought * (quote * 400 + in * 399) <= in * 399 * token,
         NEW sold \in Nat, sold <= bought, NEW out \in Nat,
         out * ((token - bought) * 400 + sold * 399) <= sold * 399 * (quote + in)
  PROVE  out <= in
<1> DEFINE it == in * token
           ib == in * bought
           is == in * sold
           bq == bought * quote
           sq == sold * quote
           side == (token - bought) * 400 + sold * 399
<1>1. /\ it \in Nat /\ ib \in Nat /\ is \in Nat /\ bq \in Nat /\ sq \in Nat
      /\ ib <= it /\ sq <= bq
  BY ProductRises
<1>2. 400 * bq + 399 * ib <= 399 * it
  OBVIOUS
<1>3. SUFFICES ASSUME out >= in + 1 PROVE FALSE
  OBVIOUS
<1>4. side \in Nat /\ side > 0 /\ (in + 1) * side <= out * side
  BY <1>3, ProductRises
<1>5. (in + 1) * side = 400 * it - 400 * ib + 399 * is + side
  OBVIOUS
<1>6. sold * 399 * (quote + in) = 399 * sq + 399 * is
  OBVIOUS
<1>7. out * side \in Nat /\ out * side <= sold * 399 * (quote + in)
  BY <1>4
<1> HIDE DEF it, ib, is, bq, sq, side
<1>8. 400 * it - 400 * ib + 399 * is + side <= 399 * sq + 399 * is
  BY <1>1, <1>4, <1>5, <1>6, <1>7
<1> QED BY <1>1, <1>2, <1>4, <1>8

\* A swap brings more in a pool that has less of what is given and more of what is
\* taken.
LEMMA BetterPool ==
  ASSUME NEW in \in Nat, NEW x \in Nat \ {0}, NEW y \in Nat \ {0},
         NEW less \in Nat \ {0}, less <= x, NEW more \in Nat, y <= more
  PROVE  AmountOut(in, x, y) <= AmountOut(in, less, more)
<1>1. CASE in = 0
  BY <1>1 DEF AmountOut
<1>2. CASE in > 0
  <2> DEFINE n == in * 399 * y
             m == in * 399 * more
             d == x * 400 + in * 399
             e == less * 400 + in * 399
  <2>1. n \in Nat /\ m \in Nat /\ n <= m
    BY ProductRises
  <2>2. d \in Nat \ {0} /\ e \in Nat \ {0} /\ e <= d
    OBVIOUS
  <2>3. AmountOut(in, x, y) = n \div d /\ AmountOut(in, less, more) = m \div e
    BY <1>2 DEF AmountOut
  <2> HIDE DEF n, m, d, e
  <2>4. n * e <= m * d
    BY <2>1, <2>2, ProductRises
  <2> QED BY <2>1, <2>2, <2>3, <2>4, QuotientRises
<1> QED BY <1>1, <1>2

-----------------------------------------------------------------------------

\* What a quote says of itself, in the pool it was made in.
LEMMA QuoteIsHonest ==
  ASSUME NEW p \in Pools, NEW cost \in Notionals, NEW buyTax \in Taxes, NEW sellTax \in Taxes,
         NEW bid, bid = BuyQuote(p, cost, buyTax, sellTax)
  PROVE  /\ bid.exit <= cost
         /\ bid.received * p.quote * QuotePrice <= cost * p.token
         /\ MarkValue(p, bid) <= bid.exit
<1> DEFINE in == cost \div QuotePrice
           bought == AmountOut(in, p.quote, p.token)
           received == AfterTax(bought, buyTax)
           sold == AfterTax(received, sellTax)
           out == AmountOut(sold, p.token - bought, p.quote + in)
<1>1. /\ p.token \in Nat \ {0} /\ p.quote \in Nat \ {0} /\ cost \in Nat /\ QuotePrice \in Nat \ {0}
      /\ buyTax \in 0..100 /\ sellTax \in 0..100
  BY TradeAssumption DEF Pools
<1>2. in \in Nat /\ in * QuotePrice <= cost
  BY <1>1, Quotient
<1>3. bid.received = received /\ bid.tax = sellTax /\ bid.exit = QuotePrice * out
  BY DEF BuyQuote
<1> HIDE DEF in
<1>4. /\ bought \in Nat /\ bought < p.token
      /\ bought * (p.quote * 400 + in * 399) <= in * 399 * p.token
  <2>1. SwapFor(in, p.quote, p.token, bought)
    BY <1>1, <1>2, SwapBounds
  <2> HIDE DEF bought
  <2> QED BY <2>1 DEF SwapFor
<1> HIDE DEF bought
<1>5. received \in Nat /\ received <= bought
  BY <1>1, <1>4, TaxTakes
<1> HIDE DEF received
<1>6. sold \in Nat /\ sold <= bought
  <2>1. sold \in Nat /\ sold <= received
    BY <1>1, <1>5, TaxTakes
  <2> HIDE DEF sold
  <2> QED BY <1>4, <1>5, <2>1
<1> HIDE DEF sold
<1>7. p.token - bought \in Nat \ {0} /\ p.quote + in \in Nat \ {0}
  BY <1>1, <1>2, <1>4
<1>8. /\ out \in Nat
      /\ out * ((p.token - bought) * 400 + sold * 399) <= sold * 399 * (p.quote + in)
  <2>1. SwapFor(sold, p.token - bought, p.quote + in, out)
    BY <1>6, <1>7, SwapBounds
  <2> HIDE DEF out
  <2> QED BY <2>1 DEF SwapFor
<1> HIDE DEF out
<1>9. bid.exit <= cost
  <2>1. out <= in
    BY <1>1, <1>2, <1>4, <1>6, <1>8, RoundTrip
  <2>2. QuotePrice * out <= in * QuotePrice
    BY <1>1, <1>2, <1>8, <2>1, ProductRises
  <2>3. QuotePrice * out \in Nat /\ in * QuotePrice \in Nat
    BY <1>1, <1>2, <1>8
  <2> QED BY <1>1, <1>2, <1>3, <2>2, <2>3
<1>10. bid.received * p.quote * QuotePrice <= cost * p.token
  <2> DEFINE bq == bought * p.quote
             it == in * p.token
             ib == in * bought
  <2>1. bq \in Nat /\ it \in Nat /\ ib \in Nat
    BY <1>1, <1>2, <1>4
  <2>2. 400 * bq + 399 * ib <= 399 * it
    BY <1>1, <1>2, <1>4
  <2>3. received * p.quote \in Nat /\ received * p.quote <= bq
    BY <1>1, <1>4, <1>5, ProductRises
  <2> HIDE DEF bq, it, ib
  <2>4. received * p.quote <= it
    BY <2>1, <2>2, <2>3
  <2>5. (received * p.quote) * QuotePrice <= it * QuotePrice
    BY <1>1, <2>1, <2>3, <2>4, ProductRises
  <2>6. it * QuotePrice = (in * QuotePrice) * p.token
    BY <1>1, <1>2 DEF it
  <2>7. in * QuotePrice \in Nat /\ (in * QuotePrice) * p.token <= cost * p.token
    BY <1>1, <1>2, ProductRises
  <2>8. (received * p.quote) * QuotePrice \in Nat /\ it * QuotePrice \in Nat /\ cost * p.token \in Nat
    BY <1>1, <2>1, <2>3
  <2> QED BY <1>3, <2>5, <2>6, <2>7, <2>8
<1>11. MarkValue(p, bid) <= bid.exit
  <2>1. AmountOut(sold, p.token, p.quote) <= out
    BY <1>1, <1>2, <1>4, <1>6, <1>7, BetterPool DEF out
  <2>2. AmountOut(sold, p.token, p.quote) \in Nat
    BY <1>1, <1>6, SwapBounds DEF SwapFor
  <2>3. QuotePrice * AmountOut(sold, p.token, p.quote) <= QuotePrice * out
    BY <1>1, <1>8, <2>1, <2>2, ProductRises
  <2> QED BY <1>3, <2>3 DEF MarkValue, sold
<1> QED BY <1>9, <1>10, <1>11

LEMMA TradeInvStep == TradeInv /\ [TradeNext]_tradeVars => TradeInv'
<1> SUFFICES ASSUME TradeInv, [TradeNext]_tradeVars PROVE TradeInv'
  OBVIOUS
<1>1. CASE UNCHANGED tradeVars
  BY <1>1 DEF tradeVars, TradeInv
<1>2. CASE MovePool
  BY <1>2 DEF MovePool, TradeInv
<1>3. CASE QuoteBuy
  <2>1. \E cost \in Notionals, buyTax, sellTax \in Taxes : offer' = BuyQuote(pool, cost, buyTax, sellTax)
    BY <1>3 DEF QuoteBuy
  <2>2. holding = NoHolding /\ marked = NoMark /\ UNCHANGED <<pool, holding, marked>> /\ pool \in Pools
    BY <1>3 DEF QuoteBuy, TradeInv
  <2> QED BY <2>1, <2>2 DEF TradeInv
<1>4. CASE Fill
  BY <1>4 DEF Fill, TradeInv
<1>5. CASE Mark
  <2>1. holding # NoHolding
    BY <1>5 DEF Mark, NoHolding
  <2>2. marked'.value = MarkValue(marked'.at, holding) /\ UNCHANGED <<pool, offer, holding>>
    BY <1>5 DEF Mark
  <2> QED BY <2>1, <2>2 DEF TradeInv
<1> QED BY <1>1, <1>2, <1>3, <1>4, <1>5 DEF TradeNext

\* In every behaviour a simulated trade shows no gain that the pool would not give.
THEOREM TradeNeverFlatters == TradeSpec => []NeverFlatters
<1>1. TradeInit => TradeInv
  BY DEF TradeInit, TradeInv
<1>2. TradeInv => NeverFlatters
  <2> SUFFICES ASSUME TradeInv, offer # NoOffer PROVE NeverFlatters
    BY DEF NeverFlatters
  <2>1. PICK p \in Pools, cost \in Notionals, buyTax \in Taxes, sellTax \in Taxes :
          offer = BuyQuote(p, cost, buyTax, sellTax)
    BY DEF TradeInv
  <2>2. offer.cost = cost /\ offer.at = p
    BY <2>1 DEF BuyQuote
  <2>3. /\ offer.exit <= cost
        /\ offer.received * p.quote * QuotePrice <= cost * p.token
        /\ MarkValue(p, offer) <= offer.exit
    BY <2>1, QuoteIsHonest
  <2>4. ASSUME holding # NoHolding, marked.at = offer.at, marked # NoMark
        PROVE  marked.value <= offer.exit
    <3>1. marked.value = MarkValue(p, holding)
      BY <2>2, <2>4 DEF TradeInv
    <3>2. holding.received = offer.received /\ holding.tax = offer.tax
      BY <2>4 DEF TradeInv
    <3> QED BY <2>3, <3>1, <3>2 DEF MarkValue
  <2> QED BY <2>2, <2>3, <2>4 DEF NeverFlatters
<1> QED BY <1>1, <1>2, TradeInvStep, PTL DEF TradeSpec

-----------------------------------------------------------------------------
(* DexAudit *)

AuditSpec == AuditInit /\ [][AuditNext]_auditVars

\* What was read of a fact at some time after the moment: nothing that came after the
\* moment, and all that was committed before it.
ReadRight(found, fact, at) ==
  /\ found => fact # NoFact /\ fact.inserted <= at
  /\ fact # NoFact /\ fact.committed < at => found

FactSound(fact, kind, at) ==
  fact = NoFact \/ /\ fact.inserted \in Nat /\ fact.committed \in Nat
                   /\ fact.inserted <= fact.committed /\ fact.committed <= at
                   /\ kind = "decision" => fact.status # "none"

FactsSound ==
  /\ facts = [t \in Tokens |-> facts[t]]
  /\ \A t \in Tokens : /\ facts[t] = [k \in Kinds |-> facts[t][k]]
                       /\ \A k \in Kinds : FactSound(facts[t][k], k, now)

Written == {{<<"signal", "none">>}, {<<"decision", "reject">>}, {<<"decision", "buy">>, <<"buy", "none">>}}

\* The rows of a transaction are not in the ledger yet.
WriteSound ==
  writing = NoWrite \/
    /\ writing.token \in Tokens /\ writing.inserted \in Nat /\ writing.inserted <= now
    /\ writing.rows \in Written
    /\ \A r \in writing.rows : facts[writing.token][r[1]] = NoFact

ItemSound(c, known, at) ==
  /\ ReadRight(c.discovered, known["signal"], at)
  /\ ReadRight(c.decision # "none", known["decision"], at)
  /\ ReadRight(c.bought, known["buy"], at)
  /\ c.reason = Reason(c.discovered, c.decision, c.bought)

CoverageSound(coverage, known, at) ==
  \A c \in coverage : c.token \in Tokens /\ ItemSound(c, known[c.token], at)

AuditShape(a) ==
  a = [step |-> a.step, asOf |-> a.asOf, board |-> a.board, available |-> a.available, left |-> a.left,
       token |-> a.token, discovered |-> a.discovered, decision |-> a.decision, coverage |-> a.coverage]

\* An audit under way has read rightly what it has read.
AuditSound(a, known, at) ==
  /\ AuditShape(a)
  /\ a.asOf \in Nat /\ a.asOf <= at
  /\ a.left \subseteq Tokens
  /\ a.step \in {"decision", "buy"} =>
       a.token \in Tokens /\ ReadRight(a.discovered, known[a.token]["signal"], a.asOf)
  /\ a.step = "buy" => ReadRight(a.decision # "none", known[a.token]["decision"], a.asOf)
  /\ a.available => CoverageSound(a.coverage, known, a.asOf)

AuditInv ==
  /\ now \in Nat
  /\ FactsSound /\ WriteSound
  /\ AuditSound(audit, facts, now)
  /\ \A r \in runs : r.asOf \in Nat /\ r.asOf <= now /\ (r.available => CoverageSound(r.coverage, facts, r.asOf))

\* The ledger goes on, and nothing that was read rightly becomes wrong by it.
LEMMA ReadStays ==
  ASSUME NEW found, NEW fact, NEW later, NEW at \in Nat, NEW time \in Nat, at <= time,
         later = fact \/ (fact = NoFact /\ later.committed = time),
         ReadRight(found, fact, at)
  PROVE  ReadRight(found, later, at)
BY DEF ReadRight

LEMMA CoverageStays ==
  ASSUME NEW coverage, NEW known, NEW later, NEW at \in Nat, NEW time \in Nat, at <= time,
         \A t \in Tokens, k \in Kinds :
           later[t][k] = known[t][k] \/ (known[t][k] = NoFact /\ later[t][k].committed = time),
         CoverageSound(coverage, known, at)
  PROVE  CoverageSound(coverage, later, at)
<1> SUFFICES ASSUME NEW c \in coverage PROVE c.token \in Tokens /\ ItemSound(c, later[c.token], at)
  BY DEF CoverageSound
<1>1. c.token \in Tokens /\ ItemSound(c, known[c.token], at)
  BY DEF CoverageSound
<1>2. "signal" \in Kinds /\ "decision" \in Kinds /\ "buy" \in Kinds
  BY DEF Kinds
<1>3. /\ ReadRight(c.discovered, known[c.token]["signal"], at)
      /\ ReadRight(c.decision # "none", known[c.token]["decision"], at)
      /\ ReadRight(c.bought, known[c.token]["buy"], at)
  BY <1>1 DEF ItemSound
<1>4. ReadRight(c.discovered, later[c.token]["signal"], at)
  BY <1>1, <1>2, <1>3, ReadStays
<1>5. ReadRight(c.decision # "none", later[c.token]["decision"], at)
  BY <1>1, <1>2, <1>3, ReadStays
<1>6. ReadRight(c.bought, later[c.token]["buy"], at)
  BY <1>1, <1>2, <1>3, ReadStays
<1> QED BY <1>1, <1>4, <1>5, <1>6 DEF ItemSound

LEMMA AuditStays ==
  ASSUME NEW a, NEW known, NEW later, NEW time \in Nat,
         \A t \in Tokens, k \in Kinds :
           later[t][k] = known[t][k] \/ (known[t][k] = NoFact /\ later[t][k].committed = time),
         AuditSound(a, known, time)
  PROVE  AuditSound(a, later, time)
<1>1. a.asOf \in Nat /\ a.asOf <= time /\ "signal" \in Kinds /\ "decision" \in Kinds
  BY DEF AuditSound, Kinds
<1>2. a.available => CoverageSound(a.coverage, later, a.asOf)
  BY <1>1, CoverageStays DEF AuditSound
<1>3. a.step \in {"decision", "buy"} => ReadRight(a.discovered, later[a.token]["signal"], a.asOf)
  BY <1>1, ReadStays DEF AuditSound
<1>4. a.step = "buy" => ReadRight(a.decision # "none", later[a.token]["decision"], a.asOf)
  BY <1>1, ReadStays DEF AuditSound
<1> QED BY <1>2, <1>3, <1>4 DEF AuditSound

LEMMA TickKept == ASSUME AuditInv, Tick PROVE AuditInv'
<1>1. now' = now + 1 /\ now \in Nat /\ UNCHANGED <<facts, writing, audit, runs>>
  BY DEF Tick, AuditInv
<1>2. FactsSound'
  BY <1>1 DEF AuditInv, FactsSound, FactSound
<1>3. WriteSound'
  BY <1>1 DEF AuditInv, WriteSound
<1>4. AuditSound(audit', facts', now')
  BY <1>1 DEF AuditInv, AuditSound
<1> QED BY <1>1, <1>2, <1>3, <1>4 DEF AuditInv

LEMMA LedgerWriteKept == ASSUME AuditInv, LedgerWrite PROVE AuditInv'
<1>1. UNCHANGED <<now, facts, audit, runs>>
  BY DEF LedgerWrite
<1>2. PICK t \in Tokens, rows \in Written :
        /\ \A r \in rows : facts[t][r[1]] = NoFact
        /\ writing' = [token |-> t, rows |-> rows, inserted |-> now]
  BY DEF LedgerWrite, Written
<1>3. WriteSound'
  BY <1>1, <1>2 DEF AuditInv, WriteSound
<1>4. FactsSound'
  BY <1>1 DEF AuditInv, FactsSound
<1> QED BY <1>1, <1>3, <1>4 DEF AuditInv

LEMMA WrittenStatus ==
  ASSUME NEW rows \in Written, \E r \in rows : r[1] = "decision"
  PROVE  (CHOOSE r \in rows : r[1] = "decision")[2] # "none"
<1> DEFINE row == CHOOSE r \in rows : r[1] = "decision"
<1>1. row \in rows /\ row[1] = "decision"
  OBVIOUS
<1> HIDE DEF row
<1>2. row \in {<<"signal", "none">>, <<"decision", "reject">>, <<"decision", "buy">>, <<"buy", "none">>}
  BY <1>1 DEF Written
<1>3. row[2] # "none"
  BY <1>1, <1>2
<1> QED BY <1>3 DEF row

LEMMA LedgerCommitKept == ASSUME AuditInv, LedgerCommit PROVE AuditInv'
<1> DEFINE t == writing.token
           Has(k) == \E r \in writing.rows : r[1] = k
           New(k) == [inserted |-> writing.inserted, committed |-> now,
                      status |-> (CHOOSE r \in writing.rows : r[1] = k)[2]]
<1>1. /\ writing # NoWrite /\ writing' = NoWrite /\ UNCHANGED <<now, audit, runs>>
      /\ facts' = [facts EXCEPT ![t] = [k \in Kinds |-> IF Has(k) THEN New(k) ELSE facts[t][k]]]
  BY DEF LedgerCommit
<1>2. /\ t \in Tokens /\ writing.inserted \in Nat /\ writing.inserted <= now /\ now \in Nat
      /\ writing.rows \in Written /\ FactsSound
      /\ \A r \in writing.rows : facts[t][r[1]] = NoFact
  BY <1>1 DEF AuditInv, WriteSound
<1>3. \A k \in Kinds : Has(k) => facts[t][k] = NoFact /\ New(k).committed = now /\ FactSound(New(k), k, now)
  <2> SUFFICES ASSUME NEW k \in Kinds, Has(k)
               PROVE  facts[t][k] = NoFact /\ New(k).committed = now /\ FactSound(New(k), k, now)
    OBVIOUS
  <2>1. facts[t][k] = NoFact
    BY <1>2
  <2>2. k = "decision" => New(k).status # "none"
    BY <1>2, WrittenStatus
  <2>3. New(k).inserted = writing.inserted /\ New(k).committed = now
    OBVIOUS
  <2> HIDE DEF New, Has
  <2> QED BY <1>2, <2>1, <2>2, <2>3 DEF FactSound
<1> HIDE DEF New, Has
<1>4. /\ facts' = [u \in Tokens |-> facts'[u]]
      /\ facts'[t] = [k \in Kinds |-> IF Has(k) THEN New(k) ELSE facts[t][k]]
      /\ \A u \in Tokens : u # t => facts'[u] = facts[u]
  BY <1>1, <1>2 DEF FactsSound
<1>5. \A u \in Tokens, k \in Kinds :
        facts'[u][k] = facts[u][k] \/ (facts[u][k] = NoFact /\ facts'[u][k].committed = now)
  BY <1>3, <1>4
<1>6. FactsSound'
  BY <1>1, <1>2, <1>3, <1>4 DEF FactsSound
<1>7. WriteSound'
  BY <1>1 DEF WriteSound
<1>8. AuditSound(audit', facts', now')
  BY <1>1, <1>2, <1>5, AuditStays DEF AuditInv
<1>9. \A r \in runs' : r.asOf \in Nat /\ r.asOf <= now' /\ (r.available => CoverageSound(r.coverage, facts', r.asOf))
  <2> SUFFICES ASSUME NEW r \in runs
               PROVE  r.asOf \in Nat /\ r.asOf <= now /\ (r.available => CoverageSound(r.coverage, facts', r.asOf))
    BY <1>1
  <2>1. r.asOf \in Nat /\ r.asOf <= now /\ (r.available => CoverageSound(r.coverage, facts, r.asOf))
    BY DEF AuditInv
  <2> QED BY <1>2, <1>5, <2>1, CoverageStays
<1> QED BY <1>1, <1>2, <1>6, <1>7, <1>8, <1>9 DEF AuditInv

-----------------------------------------------------------------------------
(* The steps of the audit *)

\* A step of the audit alone.
LEMMA AuditMoves ==
  ASSUME AuditInv, UNCHANGED <<now, facts, writing, runs>>, AuditSound(audit', facts, now)
  PROVE  AuditInv'
BY DEF AuditInv, FactsSound, WriteSound

LEMMA AuditIdle ==
  ASSUME NEW a, NEW known, NEW at \in Nat, a = NoAudit \/ a = [NoAudit EXCEPT !.step = "fallback"]
  PROVE  AuditSound(a, known, at)
<1>1. NoAudit = [step |-> "idle", asOf |-> 0, board |-> NoBoard, available |-> TRUE, left |-> {}, token |-> "none",
                 discovered |-> FALSE, decision |-> "none", coverage |-> {}]
  BY DEF NoAudit
<1>2. /\ a.step \notin {"decision", "buy"} /\ a.asOf = 0 /\ a.left = {} /\ a.coverage = {}
      /\ AuditShape(a)
  BY <1>1 DEF AuditShape
<1> QED BY <1>2 DEF AuditSound, CoverageSound

LEMMA AuditCovers ==
  ASSUME NEW a, NEW known, NEW at \in Nat, NEW board, \A r \in board.rows : r[1] \in Tokens,
         a = [NoAudit EXCEPT !.step = "cover", !.asOf = at, !.board = board, !.left = {r[1] : r \in board.rows}]
  PROVE  AuditSound(a, known, at)
<1> DEFINE left == {r[1] : r \in board.rows}
<1>1. NoAudit = [step |-> "idle", asOf |-> 0, board |-> NoBoard, available |-> TRUE, left |-> {}, token |-> "none",
                 discovered |-> FALSE, decision |-> "none", coverage |-> {}]
  BY DEF NoAudit
<1>2. left \subseteq Tokens
  OBVIOUS
<1>3. a = [NoAudit EXCEPT !.step = "cover", !.asOf = at, !.board = board, !.left = left]
  OBVIOUS
<1> HIDE DEF left
<1>4. /\ a.step = "cover" /\ a.asOf = at /\ a.left = left /\ a.coverage = {}
      /\ AuditShape(a)
  BY <1>1, <1>3 DEF AuditShape
<1> QED BY <1>2, <1>4 DEF AuditSound, CoverageSound

LEMMA FetchKept == ASSUME AuditInv, FetchExact \/ FetchFallback PROVE AuditInv'
<1>1. UNCHANGED <<now, facts, writing, runs>> /\ now \in Nat
  BY DEF FetchExact, FetchFallback, AuditInv
<1>2. CASE audit' = NoAudit \/ audit' = [NoAudit EXCEPT !.step = "fallback"]
  BY <1>1, <1>2, AuditIdle, AuditMoves
<1>3. CASE \E board : (\A r \in board.rows : r[1] \in Tokens) /\ Covering(board)
  <2>1. PICK board : (\A r \in board.rows : r[1] \in Tokens) /\ Covering(board)
    BY <1>3
  <2>2. AuditSound(audit', facts, now)
    BY <1>1, <2>1, AuditCovers DEF Covering
  <2> QED BY <1>1, <2>2, AuditMoves
<1>4. \A rows \in Responses : \A top \in Tops(rows) : \A r \in top : r[1] \in Tokens
  BY DEF Responses, Tops
<1>5. CASE FetchExact
  <2>1. CASE audit' = [NoAudit EXCEPT !.step = "fallback"]
    BY <1>2, <2>1
  <2>2. CASE \E rows \in Responses \ {{}} : \E top \in Tops(rows) :
               Covering([source |-> "coinmarketcap_datahub", exact |-> TRUE, rows |-> top])
    <3>1. PICK rows \in Responses \ {{}} : \E top \in Tops(rows) :
                 Covering([source |-> "coinmarketcap_datahub", exact |-> TRUE, rows |-> top])
      BY <2>2
    <3>2. PICK top \in Tops(rows) :
                 Covering([source |-> "coinmarketcap_datahub", exact |-> TRUE, rows |-> top])
      BY <3>1
    <3>3. PICK board : board = [source |-> "coinmarketcap_datahub", exact |-> TRUE, rows |-> top]
      OBVIOUS
    <3>4. Covering(board) /\ \A r \in board.rows : r[1] \in Tokens
      BY <1>4, <3>2, <3>3
    <3> QED BY <1>3, <3>4
  <2> QED BY <1>5, <2>1, <2>2 DEF FetchExact
<1>6. CASE FetchFallback
  <2>1. CASE audit' = NoAudit
    BY <1>2, <2>1
  <2>2. CASE \E rows \in Responses : \E top \in Tops(rows) :
               Covering(IF rows = {} THEN NoBoard ELSE [source |-> "geckoterminal", exact |-> FALSE, rows |-> top])
    <3>1. PICK rows \in Responses : \E top \in Tops(rows) :
               Covering(IF rows = {} THEN NoBoard ELSE [source |-> "geckoterminal", exact |-> FALSE, rows |-> top])
      BY <2>2
    <3>2. PICK top \in Tops(rows) :
               Covering(IF rows = {} THEN NoBoard ELSE [source |-> "geckoterminal", exact |-> FALSE, rows |-> top])
      BY <3>1
    <3>3. PICK board :
            board = IF rows = {} THEN NoBoard ELSE [source |-> "geckoterminal", exact |-> FALSE, rows |-> top]
      OBVIOUS
    <3>4. Covering(board)
      BY <3>2, <3>3
    <3>5. \A r \in board.rows : r[1] \in Tokens
      BY <1>4, <3>3 DEF NoBoard
    <3> QED BY <1>3, <3>4, <3>5
  <2> QED BY <1>6, <2>1, <2>2 DEF FetchFallback
<1> QED BY <1>5, <1>6

\* A fact that is there now was there when the board was complete if it was inserted by
\* then; all that was committed before was.
LEMMA ThenIsRight ==
  ASSUME AuditInv, NEW t \in Tokens, NEW kind \in Kinds
  PROVE  ReadRight(Then(facts[t][kind]), facts[t][kind], audit.asOf)
<1>1. FactSound(facts[t][kind], kind, now) /\ audit.asOf \in Nat /\ now \in Nat
  BY DEF AuditInv, FactsSound, AuditSound
<1> QED BY <1>1 DEF FactSound, ReadRight, Then

LEMMA ReadSignalKept == ASSUME AuditInv, ReadSignal PROVE AuditInv'
<1>1. UNCHANGED <<now, facts, writing, runs>>
  BY DEF ReadSignal
<1>2. PICK t \in audit.left :
        audit' = [audit EXCEPT !.step = "decision", !.token = t, !.left = audit.left \ {t},
                               !.discovered = Then(facts[t]["signal"])]
  BY DEF ReadSignal
<1>3. AuditSound(audit, facts, now) /\ t \in Tokens
  BY DEF AuditInv, AuditSound
<1>4. PICK found : found = Then(facts[t]["signal"])
  OBVIOUS
<1>5. PICK rest : rest = audit.left \ {t}
  OBVIOUS
<1>6. /\ audit'.step = "decision" /\ audit'.asOf = audit.asOf /\ audit'.left = rest
      /\ audit'.token = t /\ audit'.discovered = found
      /\ audit'.available = audit.available /\ audit'.coverage = audit.coverage
      /\ AuditShape(audit')
  BY <1>2, <1>3, <1>4, <1>5 DEF AuditSound, AuditShape
<1>7. ReadRight(found, facts[t]["signal"], audit.asOf)
  BY <1>3, <1>4, ThenIsRight DEF Kinds
<1>8. AuditSound(audit', facts, now)
  BY <1>3, <1>5, <1>6, <1>7 DEF AuditSound
<1> QED BY <1>1, <1>8, AuditMoves

LEMMA ReadDecisionKept == ASSUME AuditInv, ReadDecision PROVE AuditInv'
<1> DEFINE f == facts[audit.token]["decision"]
<1>1. audit.step = "decision" /\ UNCHANGED <<now, facts, writing, runs>>
  BY DEF ReadDecision
<1>2. PICK decision : decision = IF Then(f) THEN f.status ELSE "none"
  OBVIOUS
<1>3. audit' = [audit EXCEPT !.step = "buy", !.decision = decision]
  BY <1>2 DEF ReadDecision
<1>4. AuditSound(audit, facts, now) /\ audit.token \in Tokens /\ "decision" \in Kinds
  BY <1>1 DEF AuditInv, AuditSound, Kinds
<1>5. /\ audit'.step = "buy" /\ audit'.asOf = audit.asOf /\ audit'.left = audit.left
      /\ audit'.token = audit.token /\ audit'.discovered = audit.discovered /\ audit'.decision = decision
      /\ audit'.available = audit.available /\ audit'.coverage = audit.coverage
      /\ AuditShape(audit')
  BY <1>3, <1>4 DEF AuditSound, AuditShape
<1>6. ReadRight(Then(f), f, audit.asOf)
  BY <1>4, ThenIsRight
<1>7. f # NoFact => f.status # "none"
  BY <1>4 DEF AuditInv, FactsSound, FactSound
<1>8. ReadRight(decision # "none", f, audit.asOf)
  BY <1>2, <1>6, <1>7 DEF ReadRight, Then
<1>9. AuditSound(audit', facts, now)
  BY <1>1, <1>4, <1>5, <1>8 DEF AuditSound
<1> QED BY <1>1, <1>9, AuditMoves

LEMMA ReadBuyKept == ASSUME AuditInv, ReadBuy PROVE AuditInv'
<1> DEFINE f == facts[audit.token]["buy"]
<1>1. audit.step = "buy" /\ UNCHANGED <<now, facts, writing, runs>>
  BY DEF ReadBuy
<1>2. PICK c :
        c = [token |-> audit.token, discovered |-> audit.discovered, decision |-> audit.decision,
             bought |-> Then(f), reason |-> Reason(audit.discovered, audit.decision, Then(f))]
  OBVIOUS
<1>3. PICK coverage : coverage = audit.coverage \cup {c}
  OBVIOUS
<1>4. audit' = [audit EXCEPT !.step = "cover", !.token = "none", !.discovered = FALSE, !.decision = "none",
                             !.coverage = coverage]
  BY <1>2, <1>3 DEF ReadBuy
<1>5. AuditSound(audit, facts, now) /\ audit.token \in Tokens /\ "buy" \in Kinds
  BY <1>1 DEF AuditInv, AuditSound, Kinds
<1>6. /\ audit'.step = "cover" /\ audit'.asOf = audit.asOf /\ audit'.left = audit.left
      /\ audit'.available = audit.available /\ audit'.coverage = coverage
      /\ AuditShape(audit')
  BY <1>4, <1>5 DEF AuditSound, AuditShape
<1>7. ReadRight(Then(f), f, audit.asOf)
  BY <1>5, ThenIsRight
<1>8. ItemSound(c, facts[c.token], audit.asOf)
  BY <1>1, <1>2, <1>5, <1>7 DEF AuditSound, ItemSound
<1>9. audit.available => CoverageSound(coverage, facts, audit.asOf)
  BY <1>2, <1>3, <1>5, <1>8 DEF AuditSound, CoverageSound
<1>10. AuditSound(audit', facts, now)
  BY <1>5, <1>6, <1>9 DEF AuditSound
<1> QED BY <1>1, <1>10, AuditMoves

LEMMA ReadFailsKept == ASSUME AuditInv, ReadFails PROVE AuditInv'
<1>1. UNCHANGED <<now, facts, writing, runs>>
  BY DEF ReadFails
<1>2. PICK coverage :
        audit' = [audit EXCEPT !.step = "cover", !.available = FALSE, !.left = {}, !.token = "none",
                               !.discovered = FALSE, !.decision = "none", !.coverage = coverage]
  BY DEF ReadFails
<1>3. AuditSound(audit, facts, now)
  BY DEF AuditInv
<1>4. /\ audit'.step = "cover" /\ audit'.asOf = audit.asOf /\ audit'.left = {} /\ audit'.available = FALSE
      /\ AuditShape(audit')
  BY <1>2, <1>3 DEF AuditSound, AuditShape
<1>5. AuditSound(audit', facts, now)
  BY <1>3, <1>4 DEF AuditSound
<1> QED BY <1>1, <1>5, AuditMoves

LEMMA AppendRunKept == ASSUME AuditInv, AppendRun PROVE AuditInv'
<1>1. PICK run : run = [asOf |-> audit.asOf, board |-> audit.board, available |-> audit.available,
                        coverage |-> audit.coverage]
  OBVIOUS
<1>2. runs' = runs \cup {run} /\ audit' = NoAudit /\ UNCHANGED <<now, facts, writing>> /\ now \in Nat
  BY <1>1 DEF AppendRun, AuditInv
<1>3. AuditSound(audit', facts', now')
  BY <1>2, AuditIdle
<1>4. run.asOf = audit.asOf /\ run.available = audit.available /\ run.coverage = audit.coverage
  BY <1>1
<1>5. run.asOf \in Nat /\ run.asOf <= now /\ (run.available => CoverageSound(run.coverage, facts, run.asOf))
  BY <1>4 DEF AuditInv, AuditSound
<1>6. FactsSound' /\ WriteSound'
  BY <1>2 DEF AuditInv, FactsSound, WriteSound
<1> QED BY <1>2, <1>3, <1>5, <1>6 DEF AuditInv

LEMMA AuditInvStep == AuditInv /\ [AuditNext]_auditVars => AuditInv'
<1> SUFFICES ASSUME AuditInv, [AuditNext]_auditVars PROVE AuditInv'
  OBVIOUS
<1>1. CASE UNCHANGED auditVars
  BY <1>1 DEF auditVars, AuditInv, FactsSound, WriteSound
<1>2. CASE AuditNext
  BY <1>2, TickKept, LedgerWriteKept, LedgerCommitKept, FetchKept, ReadSignalKept, ReadDecisionKept,
     ReadBuyKept, ReadFailsKept, AppendRunKept DEF AuditNext
<1> QED BY <1>1, <1>2

\* In every behaviour of the audit, and of the ledger that goes on writing beside it, a
\* run credits DeBot with nothing that came after its board and denies it nothing that
\* was there before.
THEOREM AuditKeepsTimes == AuditSpec => []AuditKeepsTime
<1>1. AuditInit => AuditInv
  <2> SUFFICES ASSUME AuditInit PROVE AuditInv
    OBVIOUS
  <2>1. now = 1 /\ writing = NoWrite /\ audit = NoAudit /\ runs = {}
    BY DEF AuditInit
  <2>2. FactsSound
    BY DEF AuditInit, FactsSound, FactSound
  <2>3. AuditSound(audit, facts, now)
    BY <2>1, AuditIdle
  <2> QED BY <2>1, <2>2, <2>3 DEF AuditInv, WriteSound
<1>2. AuditInv => AuditKeepsTime
  <2> SUFFICES ASSUME AuditInv, NEW r \in runs, r.available, NEW c \in r.coverage
               PROVE  LET Had(kind) == facts[c.token][kind] # NoFact /\ facts[c.token][kind].committed < r.asOf
                          ByThen(kind) == facts[c.token][kind] # NoFact /\ facts[c.token][kind].inserted <= r.asOf
                      IN  /\ c.bought => ByThen("buy")
                          /\ c.decision # "none" => ByThen("decision")
                          /\ c.discovered => ByThen("signal")
                          /\ Had("buy") => c.reason = "covered_by_buy"
                          /\ Had("decision") => c.reason \notin {"signal_without_decision", "not_discovered_by_debot"}
                          /\ Had("signal") => c.reason # "not_discovered_by_debot"
    BY DEF AuditKeepsTime
  <2>1. ItemSound(c, facts[c.token], r.asOf)
    BY DEF AuditInv, CoverageSound
  <2> QED BY <2>1 DEF ItemSound, ReadRight, Reason
<1> QED BY <1>1, <1>2, AuditInvStep, PTL DEF AuditSpec

=============================================================================
