----------------------------- MODULE EntryWindow -----------------------------
(***************************************************************************)
(* The last check before an entry (narrative/entry.py, entry_models.py):   *)
(* a quote that was made at one block, the head of the chain as it was     *)
(* observed, and the moment of the decision.  The chain grows and its top  *)
(* is replaced while the quote is made, the head is fetched and the        *)
(* decision is taken.                                                      *)
(***************************************************************************)
EXTENDS Integers, Sequences

CONSTANTS MaxQuoteAge, \* max_quote_age_seconds, in moments
          MaxHeadAge,  \* max_head_age_seconds, in moments
          MaxLag,      \* max_head_lag_blocks
          LastSecond,  \* bound on the clock
          MaxMined     \* bound on the blocks ever mined

ASSUME WindowAssumption ==
  /\ MaxQuoteAge \in Nat /\ MaxHeadAge \in Nat /\ MaxLag \in Nat
  /\ LastSecond \in Nat \ {0} /\ MaxMined \in Nat \ {0}

VARIABLES clock,     \* the time
          canonical, \* the hashes of the chain by height: a block is named by its turn
          mined,     \* blocks mined so far
          seenAt,    \* of each second, the chains there were
          quoted,    \* the QuoteBoundary
          observed,  \* the HeadBoundary
          entered    \* the EntryAuthorization, with its time

windowVars == <<clock, canonical, mined, seenAt, quoted, observed, entered>>

NoBoundary == [number |-> 0, hash |-> 0, stamp |-> 0, at |-> 0]
Undecided == [status |-> "none", at |-> 0]
QuoteMade == quoted.at > 0

WindowInit ==
  /\ clock = 1 /\ canonical = <<1>> /\ mined = 1
  /\ seenAt = [s \in 1..LastSecond |-> IF s = 1 THEN {<<1>>} ELSE {}]
  /\ quoted = NoBoundary /\ observed = NoBoundary /\ entered = Undecided

\* The next block, on the tip or instead of it.
Mine ==
  /\ mined < MaxMined
  /\ mined' = mined + 1
  /\ \E parents \in {canonical, SubSeq(canonical, 1, Len(canonical) - 1)} :
       canonical' = Append(parents, mined + 1)
  /\ seenAt' = [seenAt EXCEPT ![clock] = @ \cup {canonical'}]
  /\ UNCHANGED <<clock, quoted, observed, entered>>

Elapse ==
  /\ clock < LastSecond
  /\ clock' = clock + 1
  /\ seenAt' = [seenAt EXCEPT ![clock'] = {canonical}]
  /\ UNCHANGED <<canonical, mined, quoted, observed, entered>>

\* The quote takes its head; the block's own time may be ahead of ours.
StartQuote ==
  /\ quoted = NoBoundary
  /\ \E stamp \in {clock, clock + 1} :
       quoted' = [number |-> Len(canonical), hash |-> canonical[Len(canonical)], stamp |-> stamp, at |-> 0]
  /\ UNCHANGED <<clock, canonical, mined, seenAt, observed, entered>>

CompleteQuote ==
  /\ quoted # NoBoundary /\ ~QuoteMade
  /\ quoted' = [quoted EXCEPT !.at = clock]
  /\ UNCHANGED <<clock, canonical, mined, seenAt, observed, entered>>

\* The head is observed at any time, more than once, by itself.
ObserveHead ==
  /\ entered = Undecided /\ observed.at # clock
  /\ observed' = [number |-> Len(canonical), hash |-> canonical[Len(canonical)], stamp |-> 0, at |-> clock]
  /\ UNCHANGED <<clock, canonical, mined, seenAt, quoted, entered>>

-----------------------------------------------------------------------------

\* _quote_rejections and _head_rejections; moments of our own clock are not ahead.
Rejected(quote, head, now) == quote.stamp > quote.at \/ quote.at > now \/ head.at > now

\* A quote that must be made again.
SlipReorged(quote, head) == FALSE

Reorged(quote, head) == head.number = quote.number /\ head.hash # quote.hash

Requote(quote, head, now) ==
  \/ now - quote.at > MaxQuoteAge
  \/ head = NoBoundary
  \/ head.at < quote.at
  \/ now - head.at > MaxHeadAge
  \/ head.number < quote.number \/ head.number > quote.number + MaxLag
  \/ Reorged(quote, head)

\* evaluate_execution_boundary.
Execution(quote, head, now) ==
  IF Rejected(quote, head, now) THEN "REJECT"
  ELSE IF Requote(quote, head, now) THEN "REQUOTE" ELSE "PASS"

\* authorize_entry.
Authorize ==
  /\ QuoteMade /\ entered = Undecided
  /\ \E gate \in {"PASS", "WAIT", "REJECT"} :
       LET execution == Execution(quoted, observed, clock)
       IN  entered' = [status |-> IF "REJECT" \in {gate, execution} THEN "REJECT"
                                  ELSE IF gate = "PASS" /\ execution = "PASS" THEN "COMMIT" ELSE "WAIT",
                       at |-> clock]
  /\ UNCHANGED <<clock, canonical, mined, seenAt, quoted, observed>>

WindowNext == Mine \/ Elapse \/ StartQuote \/ CompleteQuote \/ ObserveHead \/ Authorize

-----------------------------------------------------------------------------

\* A commit rests on a block that was really there: at some moment after the quote
\* was complete and within the allowed age before the decision, the chain was no
\* shorter and at most MaxLag blocks longer than the quoted block, and when the
\* quoted block was at its tip it was that very block (entry.py:1, "Exact-block
\* freshness boundary"; a block replaced below the tip is not looked for).
CommitsOnChain ==
  entered.status = "COMMIT" =>
    /\ entered.at - quoted.at <= MaxQuoteAge
    /\ \E moment \in quoted.at..entered.at :
         /\ entered.at - moment <= MaxHeadAge
         /\ \E chain \in seenAt[moment] :
              /\ quoted.number <= Len(chain) /\ Len(chain) <= quoted.number + MaxLag
              /\ Len(chain) = quoted.number => chain[Len(chain)] = quoted.hash
=============================================================================
