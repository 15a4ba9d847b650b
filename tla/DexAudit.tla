------------------------------- MODULE DexAudit -------------------------------
(***************************************************************************)
(* The audit of missed gainers (dex_audit/): a board of the tokens that    *)
(* rise most, from CoinMarketCap or else from GeckoTerminal, is matched    *)
(* with what the ledger had on each token when the board was complete, and *)
(* the outcome is appended to a store of its own.  The ledger belongs to   *)
(* another process that goes on writing; the match reads it with three     *)
(* SELECTs for each token, outside any transaction.                        *)
(***************************************************************************)
EXTENDS Naturals, FiniteSets, FiniteSetsExt

CONSTANTS Tokens,
          Limit,     \* rows of a board
          MaxTime,   \* bound on the clock
          MaxRuns    \* bound on runs of the audit

ASSUME AuditAssumption == Limit \in 1..100 /\ MaxTime \in Nat /\ MaxRuns \in Nat

VARIABLES now,      \* the clock of both processes, in microseconds
          facts,    \* what the ledger has of each token: signal, decision, buy
          writing,  \* the ledger's transaction
          audit,    \* the run under way
          runs      \* the audit store

auditVars == <<now, facts, writing, audit, runs>>

Kinds == {"signal", "decision", "buy"}

\* A row: inserted_at_us, taken inside the transaction, and when that committed.
NoFact == [inserted |-> 0, committed |-> 0, status |-> "none"]
NoWrite == [token |-> "none", rows |-> {}, inserted |-> 0]
NoBoard == [source |-> "none", exact |-> FALSE, rows |-> {}]
NoAudit == [step |-> "idle", asOf |-> 0, board |-> NoBoard, available |-> TRUE, left |-> {}, token |-> "none",
            discovered |-> FALSE, decision |-> "none", coverage |-> {}]

AuditInit ==
  /\ now = 1
  /\ facts = [t \in Tokens |-> [k \in Kinds |-> NoFact]]
  /\ writing = NoWrite
  /\ audit = NoAudit
  /\ runs = {}

Tick == now < MaxTime /\ now' = now + 1 /\ UNCHANGED <<facts, writing, audit, runs>>

\* The ledger, one transaction at a time: a signal, a decision on a signal, or a
\* simulated buy, which brings its decision.
LedgerWrite ==
  /\ writing = NoWrite
  /\ \E t \in Tokens :
       \E rows \in {{<<"signal", "none">>}, {<<"decision", "reject">>}, {<<"decision", "buy">>, <<"buy", "none">>}} :
         /\ \A r \in rows : facts[t][r[1]] = NoFact
         /\ <<"signal", "none">> \notin rows => facts[t]["signal"] # NoFact
         /\ writing' = [token |-> t, rows |-> rows, inserted |-> now]
  /\ UNCHANGED <<now, facts, audit, runs>>

LedgerCommit ==
  /\ writing # NoWrite
  /\ facts' = [facts EXCEPT ![writing.token] =
                 [k \in Kinds |-> IF \E r \in writing.rows : r[1] = k
                                  THEN [inserted |-> writing.inserted, committed |-> now,
                                        status |-> (CHOOSE r \in writing.rows : r[1] = k)[2]]
                                  ELSE @[k]]]
  /\ writing' = NoWrite
  /\ UNCHANGED <<now, audit, runs>>

-----------------------------------------------------------------------------

\* _cmc_rows and _gecko_rows: rows of tokens with an address, a change over the hour
\* and enough liquidity; a token may come with several pools.
Responses == {rows \in SUBSET (Tokens \X {1, 2}) : Cardinality(rows) <= 2}

\* _top: each token once, at its best change; of equals, any.
Tops(rows) ==
  LET best == {r \in rows : \A q \in rows : q[1] = r[1] => q[2] <= r[2]}
      size == Min({Limit, Cardinality(best)})
  IN  {top \in SUBSET best : Cardinality(top) = size /\ \A r \in top, q \in best \ top : r[2] >= q[2]}

Covering(board) ==
  audit' = [NoAudit EXCEPT !.step = "cover", !.asOf = now, !.board = board, !.left = {r[1] : r \in board.rows}]

\* fetch_bsc_gainers asks CoinMarketCap first; the board's time is the end of its
\* response.
FetchExact ==
  /\ audit.step = "idle" /\ Cardinality(runs) < MaxRuns
  /\ \/ \E rows \in Responses \ {{}} : \E top \in Tops(rows) :
          Covering([source |-> "coinmarketcap_datahub", exact |-> TRUE, rows |-> top])
     \/ audit' = [NoAudit EXCEPT !.step = "fallback"] \* no answer, or no rows
  /\ UNCHANGED <<now, facts, writing, runs>>

\* GeckoTerminal's board is a fallback and says so; without rows there is none.  A
\* request that failed has no payload, which the parser does not expect: the
\* exception ends the run.
FetchFallback ==
  /\ audit.step = "fallback"
  /\ \/ \E rows \in Responses : \E top \in Tops(rows) :
          Covering(IF rows = {} THEN NoBoard ELSE [source |-> "geckoterminal", exact |-> FALSE, rows |-> top])
     \/ audit' = NoAudit
  /\ UNCHANGED <<now, facts, writing, runs>>

\* A row counts if it was there when the board was complete.
SlipThen(fact) == fact # NoFact

Then(fact) == fact # NoFact /\ fact.inserted <= audit.asOf

\* CoverageReader._token, one SELECT after the other.
ReadSignal ==
  /\ audit.step = "cover"
  /\ \E t \in audit.left :
       audit' = [audit EXCEPT !.step = "decision", !.token = t, !.left = @ \ {t},
                              !.discovered = Then(facts[t]["signal"])]
  /\ UNCHANGED <<now, facts, writing, runs>>

ReadDecision ==
  /\ audit.step = "decision"
  /\ LET f == facts[audit.token]["decision"]
     IN  audit' = [audit EXCEPT !.step = "buy", !.decision = IF Then(f) THEN f.status ELSE "none"]
  /\ UNCHANGED <<now, facts, writing, runs>>

\* _miss_reason
Reason(discovered, decision, bought) ==
  IF bought THEN "covered_by_buy"
  ELSE IF decision = "buy" THEN "buy_decision_not_executed"
  ELSE IF decision # "none" THEN "decision_reject"
  ELSE IF discovered THEN "signal_without_decision"
  ELSE "not_discovered_by_debot"

ReadBuy ==
  /\ audit.step = "buy"
  /\ LET bought == Then(facts[audit.token]["buy"])
     IN  audit' = [audit EXCEPT !.step = "cover", !.token = "none", !.discovered = FALSE, !.decision = "none",
                                !.coverage = @ \cup {[token |-> audit.token, discovered |-> audit.discovered,
                                                      decision |-> audit.decision, bought |-> bought,
                                                      reason |-> Reason(audit.discovered, audit.decision, bought)]}]
  /\ UNCHANGED <<now, facts, writing, runs>>

\* A ledger that cannot be read, at any SELECT: every row of the board says so.
ReadFails ==
  /\ audit.step \in {"cover", "decision", "buy"}
  /\ audit' = [audit EXCEPT !.step = "cover", !.available = FALSE, !.left = {}, !.token = "none",
                            !.discovered = FALSE, !.decision = "none",
                            !.coverage = {[token |-> r[1], discovered |-> FALSE, decision |-> "none", bought |-> FALSE,
                                           reason |-> "coverage_unavailable"] : r \in audit.board.rows}]
  /\ UNCHANGED <<now, facts, writing, runs>>

\* AuditStore.append, all in one transaction.
AppendRun ==
  /\ audit.step = "cover" /\ audit.left = {}
  /\ runs' = runs \cup {[asOf |-> audit.asOf, board |-> audit.board, available |-> audit.available,
                         coverage |-> audit.coverage]}
  /\ audit' = NoAudit
  /\ UNCHANGED <<now, facts, writing>>

AuditNext ==
  \/ Tick \/ LedgerWrite \/ LedgerCommit
  \/ FetchExact \/ FetchFallback \/ ReadSignal \/ ReadDecision \/ ReadBuy \/ ReadFails \/ AppendRun

-----------------------------------------------------------------------------

\* A run credits DeBot with nothing that came after its board, and denies it nothing
\* that the ledger had before the board was complete, although the ledger goes on
\* writing between the SELECTs ("Point-in-time, read-only matching of DEX leaders to
\* the v6 ledger", dex_audit/coverage.py:1).
AuditKeepsTime ==
  \A r \in runs : r.available =>
    \A c \in r.coverage :
      LET Had(kind) == facts[c.token][kind] # NoFact /\ facts[c.token][kind].committed < r.asOf
          ByThen(kind) == facts[c.token][kind] # NoFact /\ facts[c.token][kind].inserted <= r.asOf
      IN  /\ c.bought => ByThen("buy")
          /\ c.decision # "none" => ByThen("decision")
          /\ c.discovered => ByThen("signal")
          /\ Had("buy") => c.reason = "covered_by_buy"
          /\ Had("decision") => c.reason \notin {"signal_without_decision", "not_discovered_by_debot"}
          /\ Had("signal") => c.reason # "not_discovered_by_debot"
=============================================================================
