------------------------------ MODULE PaperTrade ------------------------------
(***************************************************************************)
(* A simulated trade: the quote of a buy and the mark of a position in a   *)
(* constant-product pool (market/quote.py), and the gates a buy has to     *)
(* pass (strategy.py, security.py).  Amounts are whole: raw units of the   *)
(* two tokens, and cents, of which a raw unit of the quote asset costs     *)
(* QuotePrice.  Taxes are percentages.                                     *)
(***************************************************************************)
EXTENDS Integers

CONSTANTS Reserves,   \* raw reserves a pool may have
          Notionals,  \* cents a buy may be for
          QuotePrice, \* cents for a raw unit of the quote asset
          Taxes,      \* taxes in percent, of buys and of sells
          MaxTax,     \* max_buy_tax_pct and max_sell_tax_pct
          MaxLoss,    \* max_round_trip_loss_bps
          MaxAge      \* signal_max_age_seconds

ASSUME TradeAssumption ==
  /\ Reserves \subseteq Nat \ {0} /\ Notionals \subseteq Nat \ {0} /\ QuotePrice \in Nat \ {0}
  /\ Taxes \subseteq 0..100 /\ MaxTax \in Nat /\ MaxLoss \in Nat /\ MaxAge \in Nat

VARIABLES pool,     \* the reserves of the pair at the block read last
          offer,    \* the buy that was quoted, or NoOffer
          holding,  \* the metadata of the simulated buy, or NoHolding
          marked    \* the value of the position at its last mark

tradeVars == <<pool, offer, holding, marked>>

Pools == [token : Reserves, quote : Reserves]
NoOffer == [cost |-> 0, received |-> 0, exit |-> 0, tax |-> 0, at |-> [token |-> 1, quote |-> 1]]
NoHolding == [received |-> 0, tax |-> 0]
NoMark == [value |-> 0, at |-> [token |-> 1, quote |-> 1]]

\* _amount_out: 25 of 10,000 are kept as a fee, here 1 of 400.
SlipAmountOut(in, reserveIn, reserveOut) ==
  IF in <= 0 \/ reserveIn <= 0 THEN 0
  ELSE (in * 399 * reserveOut + reserveIn * 400 + in * 399 - 1) \div (reserveIn * 400 + in * 399)

AmountOut(in, reserveIn, reserveOut) ==
  IF in <= 0 \/ reserveIn <= 0 \/ reserveOut <= 0 THEN 0
  ELSE (in * 399 * reserveOut) \div (reserveIn * 400 + in * 399)

AfterTax(amount, tax) == (amount * (100 - tax)) \div 100

\* buy_quote; what rounds to nothing is an error.
BuyQuote(p, cost, buyTax, sellTax) ==
  LET quoteIn == cost \div QuotePrice
      bought == AmountOut(quoteIn, p.quote, p.token)
      received == AfterTax(bought, buyTax)
  IN  [cost |-> cost, received |-> received, tax |-> sellTax, at |-> p,
       exit |-> QuotePrice * AmountOut(AfterTax(received, sellTax), p.token - bought, p.quote + quoteIn)]

\* mark: what the position would bring in the pool as it is, without the buy.
MarkValue(p, held) == QuotePrice * AmountOut(AfterTax(held.received, held.tax), p.token, p.quote)

\* quote_gate: the round trip must not lose too much, in basis points of the cost.
\* Its thresholds on age, valuation and depth are not told apart.
QuoteGate(quoted) ==
  quoted.cost > quoted.exit => (quoted.cost - quoted.exit) * 10000 <= MaxLoss * quoted.cost

\* security_gate: no flag of the snapshot may be bad, or missing.
Snapshots == [flag : {"fine", "bad", "missing"}, open : BOOLEAN, known : BOOLEAN]

SecurityGate(snapshot, buyTax, sellTax) ==
  /\ snapshot.flag = "fine" /\ snapshot.open
  /\ snapshot.known /\ buyTax <= MaxTax /\ sellTax <= MaxTax

\* signal_gate: a signal of the official channel, qualified when it is a KOL's.
TradeSignals == [kind : {"kol", "smart_money", "other"}, official : BOOLEAN, qualified : BOOLEAN, paired : BOOLEAN]

SignalGate(signal, age) ==
  /\ signal.kind \in {"kol", "smart_money"} /\ signal.official
  /\ signal.kind = "kol" => signal.qualified
  /\ -1 <= age /\ age <= MaxAge
  /\ signal.paired

-----------------------------------------------------------------------------

TradeInit == pool \in Pools /\ offer = NoOffer /\ holding = NoHolding /\ marked = NoMark

\* The pair trades, between any two blocks.
MovePool == pool' \in Pools /\ UNCHANGED <<offer, holding, marked>>

QuoteBuy ==
  /\ offer = NoOffer
  /\ \E cost \in Notionals, buyTax, sellTax \in Taxes :
       LET quoted == BuyQuote(pool, cost, buyTax, sellTax)
       IN  /\ quoted.received > 0
           /\ QuoteGate(quoted)
           /\ \E snapshot \in Snapshots, signal \in TradeSignals, age \in {-2, 0, MaxAge + 1} :
                SecurityGate(snapshot, buyTax, sellTax) /\ SignalGate(signal, age)
           /\ offer' = quoted
  /\ UNCHANGED <<pool, holding, marked>>

\* A commit carries the fill of the quote in its metadata.
Fill ==
  /\ offer # NoOffer /\ holding = NoHolding
  /\ holding' = [received |-> offer.received, tax |-> offer.tax]
  /\ UNCHANGED <<pool, offer, marked>>

\* The tracker, at a later block; a buy without a fill is not marked.
Mark ==
  /\ holding.received > 0
  /\ marked' = [value |-> MarkValue(pool, holding), at |-> pool]
  /\ UNCHANGED <<pool, offer, holding>>

TradeNext == MovePool \/ QuoteBuy \/ Fill \/ Mark

-----------------------------------------------------------------------------

\* The simulation flatters nobody ("executable position marking", tracker.py:1):
\* with every rounding on the way, a buy that is sold at once brings no more than
\* it cost, it is filled at no better than the price of the pool, so that the
\* max(0, ...) of the price impact hides nothing, and as long as the pool is where
\* it was quoted the marks show no more than that exit.
NeverFlatters ==
  offer # NoOffer =>
    /\ offer.exit <= offer.cost
    /\ offer.received * offer.at.quote * QuotePrice <= offer.cost * offer.at.token
    /\ holding # NoHolding /\ marked.at = offer.at /\ marked # NoMark => marked.value <= offer.exit
=============================================================================
