----------------------------- MODULE MarketQuote -----------------------------
(***************************************************************************)
(* The state of a pair at one block (market/quote.py) and the price of its *)
(* quote asset in USD (market/oracle.py), read in several batches through  *)
(* the JSON-RPC client (market/rpc.py).  Its endpoints fail and lag behind *)
(* each other, and threads share its place in their list, the cache of     *)
(* pairs and the cache of routes.  There is one chain; what a read returns *)
(* is the number of the block it shows.                                    *)
(***************************************************************************)
EXTENDS Integers, FiniteSets, FiniteSetsExt

CONSTANTS Quoters,   \* threads that ask for quotes
          Endpoints, \* number of endpoints
          BlockRows, \* what a block may hold: the depth of each route, a fresh BNB feed
          MaxBlock,  \* bound on the chain
          MaxQuotes  \* bound on the quotes asked for

ASSUME QuoteAssumption ==
  /\ Endpoints \in Nat \ {0} /\ MaxBlock \in Nat \ {0} /\ MaxQuotes \in Nat
  /\ BlockRows \subseteq [wbnb : Nat, stable : Nat, fresh : BOOLEAN]

EndpointIds == 0..(Endpoints - 1)
Blocks == 1..MaxBlock

\* A pair is named by what its quote asset is: a stable coin, WBNB, or another
\* token, which is priced by its pair with WBNB or with USDT.
PairKinds == {"stable", "wbnb", "other"}
Bases == {"wbnb", "stable"}

VARIABLES chainRows,  \* the row of each block
          heights,    \* the last block each endpoint knows
          sticky,     \* _next_endpoint
          knownPairs, \* the keys of _meta
          routeOf,    \* _routes of the other token
          quotes,     \* the quote each thread is making
          quotesAsked \* quotes asked for

quoteVars == <<chainRows, heights, sticky, knownPairs, routeOf, quotes, quotesAsked>>

NoQuote == [step |-> "idle", pair |-> "none", block |-> 0, route |-> "none", shown |-> {}]

QuoteInit ==
  /\ chainRows \in [Blocks -> BlockRows]
  /\ heights = [e \in EndpointIds |-> 1]
  /\ sticky = 0
  /\ knownPairs = {}
  /\ routeOf = "none"
  /\ quotes = [t \in Quoters |-> NoQuote]
  /\ quotesAsked = 0

\* An endpoint learns of the next block.
Grow(e) ==
  /\ heights[e] < MaxBlock
  /\ heights' = [heights EXCEPT ![e] = @ + 1]
  /\ UNCHANGED <<chainRows, sticky, knownPairs, routeOf, quotes, quotesAsked>>

-----------------------------------------------------------------------------

\* batch tries each endpoint once, from the one that answered last; those in
\* `down` fail, and so does one that does not know the block.  The answers are
\* taken by id, so that their order does not matter.
Answering(down, block) ==
  {k \in EndpointIds : /\ (sticky + k) % Endpoints \notin down
                       /\ heights[(sticky + k) % Endpoints] >= block}

Answered(down, block) == (sticky + Min(Answering(down, block))) % Endpoints

\* What a read of the block at an endpoint shows.
SlipShown(block, endpoint) == heights[endpoint]

ShownBlock(block, endpoint) == block

\* A batch of eth_calls at the block of the quote, after which it goes on at `step`.
ReadAt(t, step) ==
  \E down \in SUBSET EndpointIds :
    /\ Answering(down, quotes[t].block) # {}
    /\ LET e == Answered(down, quotes[t].block)
       IN  /\ sticky' = e
           /\ quotes' = [quotes EXCEPT ![t].step = step,
                                       ![t].shown = @ \cup {ShownBlock(quotes[t].block, e)}]

\* MarketQuoteEngine.state, and rpc.head when the caller has no head.
AskQuote(t) ==
  /\ quotes[t].step \in {"idle", "done", "failed"} /\ quotesAsked < MaxQuotes
  /\ quotesAsked' = quotesAsked + 1
  /\ \E pair \in PairKinds, down \in SUBSET EndpointIds :
       /\ Answering(down, 1) # {}
       /\ LET e == Answered(down, 1)
          IN  /\ sticky' = e
              /\ quotes' = [quotes EXCEPT ![t] =
                   [NoQuote EXCEPT !.step = IF pair \in knownPairs THEN "state" ELSE "tokens",
                                   !.pair = pair, !.block = heights[e]]]
  /\ UNCHANGED <<chainRows, heights, knownPairs, routeOf>>

\* _pair_meta: the two tokens of the pair, then their decimals.
ReadTokens(t) ==
  /\ quotes[t].step = "tokens"
  /\ ReadAt(t, "decimals")
  /\ UNCHANGED <<chainRows, heights, knownPairs, routeOf, quotesAsked>>

ReadDecimals(t) ==
  /\ quotes[t].step = "decimals"
  /\ ReadAt(t, "state")
  /\ knownPairs' = knownPairs \cup {quotes[t].pair}
  /\ UNCHANGED <<chainRows, heights, routeOf, quotesAsked>>

\* The reserves and the supply, after which the price of the quote asset is asked.
ReadState(t) ==
  /\ quotes[t].step = "state"
  /\ ReadAt(t, CASE quotes[t].pair = "stable" -> "done"
                 [] quotes[t].pair = "wbnb" -> "feed"
                 [] OTHER -> "route")
  /\ UNCHANGED <<chainRows, heights, knownPairs, routeOf, quotesAsked>>

\* _bnb_price: of WBNB itself, or of the base of the route that is used.
ReadFeed(t) ==
  /\ quotes[t].step = "feed" /\ chainRows[quotes[t].block].fresh
  /\ ReadAt(t, IF quotes[t].pair = "wbnb" THEN "done" ELSE "reserves")
  /\ UNCHANGED <<chainRows, heights, knownPairs, routeOf, quotesAsked>>

\* The depth of a route in USD; one that cannot be read is skipped, and one by
\* WBNB needs a price of WBNB.
Depth(block, base) ==
  IF base = "wbnb" /\ ~chainRows[block].fresh THEN 0 ELSE chainRows[block][base]

\* max takes the first of the deepest, and WBNB is asked for first.
Deepest(block, found) ==
  IF \E base \in found : base = "stable" /\ \A other \in found : Depth(block, other) <= Depth(block, base)
                                              /\ (other = "wbnb" => Depth(block, other) < Depth(block, base))
  THEN "stable" ELSE "wbnb"

UseRoute(t, base) ==
  quotes' = [quotes EXCEPT ![t].route = base,
                           ![t].step = IF base = "wbnb" THEN "feed" ELSE "reserves"]

\* _route from the cache, whatever has become of the route since.
CachedRoute(t) ==
  /\ quotes[t].step = "route" /\ routeOf # "none"
  /\ UseRoute(t, routeOf)
  /\ UNCHANGED <<chainRows, heights, sticky, knownPairs, routeOf, quotesAsked>>

NoCachedRoute(t) ==
  /\ quotes[t].step = "route" /\ routeOf = "none"
  /\ quotes' = [quotes EXCEPT ![t].step = "rank"]
  /\ UNCHANGED <<chainRows, heights, sticky, knownPairs, routeOf, quotesAsked>>

\* _route and _discover: the routes that could be read are ranked.
RankRoutes(t) ==
  /\ quotes[t].step = "rank"
  /\ \E found \in SUBSET Bases, e \in EndpointIds :
       /\ \E base \in found : Depth(quotes[t].block, base) > 0
       /\ heights[e] >= quotes[t].block /\ sticky' = e
       /\ LET best == Deepest(quotes[t].block, found)
          IN  UseRoute(t, best) /\ routeOf' = best
  /\ UNCHANGED <<chainRows, heights, knownPairs, quotesAsked>>

\* The reserves of the route, which must not be empty.
ReadReserves(t) ==
  /\ quotes[t].step = "reserves"
  /\ chainRows[quotes[t].block][quotes[t].route] > 0
  /\ ReadAt(t, "done")
  /\ UNCHANGED <<chainRows, heights, knownPairs, routeOf, quotesAsked>>

\* No endpoint answers, or what is read does not do: MarketQuoteError.
FailQuote(t) ==
  /\ quotes[t].step \notin {"idle", "done", "failed"}
  /\ quotes' = [quotes EXCEPT ![t].step = "failed"]
  /\ UNCHANGED <<chainRows, heights, sticky, knownPairs, routeOf, quotesAsked>>

QuoteNext ==
  \/ \E e \in EndpointIds : Grow(e)
  \/ \E t \in Quoters :
       \/ AskQuote(t) \/ ReadTokens(t) \/ ReadDecimals(t) \/ ReadState(t) \/ ReadFeed(t)
       \/ CachedRoute(t) \/ NoCachedRoute(t) \/ RankRoutes(t) \/ ReadReserves(t) \/ FailQuote(t)

-----------------------------------------------------------------------------

\* A quote is "Same-block" (quote.py:1, oracle.py:1): everything read for it shows
\* the block of its head, though the batches went to endpoints of other heights and
\* other threads moved the place in the list between them; and the prices it rests
\* on were to be had at that block, though the route was cached at another.
SameBlock ==
  \A t \in Quoters : quotes[t].step = "done" =>
    LET n == quotes[t].block
    IN  /\ quotes[t].shown = {n}
        /\ quotes[t].pair = "wbnb" => chainRows[n].fresh
        /\ quotes[t].pair = "other" => Depth(n, quotes[t].route) > 0
=============================================================================
