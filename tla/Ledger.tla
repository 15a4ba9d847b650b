------------------------------- MODULE Ledger -------------------------------
(***************************************************************************)
(* The v6 ledger from a candidate to a simulated BUY: the transactions of  *)
(* v6/ledger/database.py and the writes of signals.py, decisions.py and    *)
(* trades.py.  The database is a set of rows that only grows; a row is the *)
(* content its caller gave and the stamp of its commit.                    *)
(*                                                                         *)
(* All candidates here are of one token of one chain: rows of another      *)
(* token or chain are never looked at together.  Every content holds       *)
(* `known`, the moment from which its caller says it was known: available  *)
(* of a candidate or signal, qualified of evidence, decided, executed.     *)
(* One more check of a moment against the others (detected <= available)   *)
(* stays with the caller's arguments, as does the available moment of      *)
(* evidence, which lies before its qualified one.                          *)
(***************************************************************************)
EXTENDS CommitClock, Sequences, FiniteSets

CONSTANTS Candidates, Signals, Evidences, Decisions, Buys, None

ASSUME LedgerAssumption == None \notin Evidences

VARIABLES rows, \* the committed rows of all tables
          txn   \* the transaction of a bundle that is open, or NoTxn

ledgerVars == <<clockVars, rows, txn>>

Moments == 1..MaxTime

NoTxn == [todo |-> <<>>, stamp |-> None, fresh |-> {}]

Init ==
  /\ ClockInit
  /\ rows = {}
  /\ txn = NoTxn

-----------------------------------------------------------------------------
(* Rows and what is visible of them *)

In(t, table) == {r \in t : r.table = table}

Under(t, table, id) == {r \in t : r.table = table /\ r.id = id}

\* Takes the caller's word for what was known when, not the commit's.
SlipVisible(r, cutoff) == r.is.known <= cutoff

\* The as_of condition of candidate, signal, kol_evidence and buy.
Visible(r, cutoff) == r.is.known <= cutoff /\ r.at <= cutoff

\* ORDER BY event_at_us DESC, available_at_us DESC, inserted_at_us DESC; two
\* signals never share a commit, so the last key, the id, never decides.
Supersedes(r, q) ==
  \/ r.is.event > q.is.event
  \/ r.is.event = q.is.event /\ r.is.known > q.is.known
  \/ r.is.event = q.is.event /\ r.is.known = q.is.known /\ r.at > q.at

\* current_signal: a set of at most one row.
CurrentSignal(t, c, cutoff) ==
  LET seen == {r \in In(t, "signals") : r.is.candidate = c /\ Visible(r, cutoff)}
  IN  {r \in seen : \A q \in seen : ~Supersedes(q, r)}

\* Leaves the commit order out.
SlipEligible(t, signal, cutoff) ==
  {r \in In(t, "evidence") : /\ r.is.about # signal.id
                             /\ r.is.event < signal.is.event
                             /\ r.is.known < signal.is.known
                             /\ Visible(r, cutoff)}

\* The query of eligible_historical_kol, of a signal current at the cutoff.
Eligible(t, signal, cutoff) ==
  {r \in In(t, "evidence") : /\ r.is.about # signal.id
                             /\ r.is.event < signal.is.event
                             /\ r.is.known < signal.is.known
                             /\ r.seq < signal.seq
                             /\ Visible(r, cutoff)}

\* The checks of record_entry_decision, at the moment decided.
Causal(t, d) ==
  /\ \E r \in Under(t, "candidates", d.candidate) : Visible(r, d.known)
  /\ \E s \in CurrentSignal(t, d.candidate, d.known) :
       /\ s.id = d.signal
       /\ d.evidence = None \/ \E r \in Eligible(t, s, d.known) : r.id = d.evidence

-----------------------------------------------------------------------------
(* Writes: a table, an id and a content *)

Write(table, id, is) == [table |-> table, id |-> id, is |-> is]

CandidateWrite(c, known) == Write("candidates", c, [known |-> known])

SignalWrite(s, c, event, known) ==
  Write("signals", s, [candidate |-> c, event |-> event, known |-> known])

EvidenceWrite(k, about, event, known) ==
  Write("evidence", k, [about |-> about, event |-> event, known |-> known])

DecisionWrite(d, c, s, k, known, status) ==
  Write("decisions", d, [candidate |-> c, signal |-> s, evidence |-> k,
                         known |-> known, status |-> status])

BuyWrite(b, d, c, s, known) ==
  Write("buys", b, [decision |-> d, candidate |-> c, signal |-> s, known |-> known])

\* The entry block of the BUY, observed and sighted as the head when executed.
ObservationWrite(b, known) == Write("observations", b, [known |-> known])
SightingWrite(b, known) == Write("sightings", b, [known |-> known])

\* What a row with the same id lets _append do: replay it, never change it.
NoConflict(t, w) == \A r \in Under(t, w.table, w.id) : r.is = w.is

IsNew(t, w) == Under(t, w.table, w.id) = {}

\* The checks of _record_buy; a decision is bought once (UNIQUE decision_id).
BuyFits(t, w) ==
  /\ \A r \in Under(t, "decisions", w.is.decision) :
       /\ r.is.status = "buy"
       /\ r.is.candidate = w.is.candidate
       /\ r.is.signal = w.is.signal
       /\ r.is.known <= w.is.known
  /\ \A r \in In(t, "buys") : r.is.decision # w.is.decision

\* Does the write return at a time `now` when the tables hold t?
Accepted(t, w, now) ==
  /\ w.is.known <= now
  /\ NoConflict(t, w)
  /\ w.table = "signals" => Under(t, "candidates", w.is.candidate) # {}
  /\ w.table = "decisions" /\ IsNew(t, w) => Causal(t, w.is)
  /\ w.table = "buys" =>
       /\ Under(t, "decisions", w.is.decision) # {}
       /\ Under(t, "candidates", w.is.candidate) # {}
       /\ IsNew(t, w) => BuyFits(t, w)
  /\ w.table = "observations" => Under(t, "buys", w.id) # {}
  /\ w.table = "sightings" => Under(t, "observations", w.id) # {}

\* What the write adds: _append.
Added(t, w, stamp) ==
  IF IsNew(t, w)
  THEN {[table |-> w.table, id |-> w.id, is |-> w.is, seq |-> stamp.seq, at |-> stamp.at]}
  ELSE {}

-----------------------------------------------------------------------------
(* Transactions *)

\* A public method that is its own transaction.  It compares the caller's
\* moments with the clock before it waits for the lock: any time the clock
\* has shown may be the one it read.
Record(w) ==
  /\ txn = NoTxn
  /\ MayCommit
  /\ Accepted(rows, w, latest)
  /\ rows' = rows \cup Added(rows, w, Stamp)
  /\ CommitWith(Stamp)
  /\ UNCHANGED txn

\* A bundle opens the outermost _write.
Begin(writes) ==
  /\ txn = NoTxn
  /\ MayCommit
  /\ txn' = [todo |-> writes, stamp |-> Stamp, fresh |-> {}]
  /\ UNCHANGED <<clockVars, rows>>

\* The next write of the bundle, inside it.
Nested ==
  /\ txn.todo # <<>>
  /\ LET t == rows \cup txn.fresh
         w == Head(txn.todo)
     IN  /\ Accepted(t, w, txn.stamp.at)
         /\ txn' = [txn EXCEPT !.todo = Tail(@),
                               !.fresh = @ \cup Added(t, w, txn.stamp)]
  /\ UNCHANGED <<clockVars, rows>>

Commit ==
  /\ txn # NoTxn
  /\ txn.todo = <<>>
  /\ rows' = rows \cup txn.fresh
  /\ CommitWith(txn.stamp)
  /\ txn' = NoTxn

\* Commits what was written before the failure.
SlipAbort ==
  /\ txn # NoTxn
  /\ rows' = rows \cup txn.fresh
  /\ CommitWith(txn.stamp)
  /\ txn' = NoTxn

\* A write of the bundle raises, or the process dies.
Abort ==
  /\ txn # NoTxn
  /\ txn' = NoTxn
  /\ UNCHANGED <<clockVars, rows>>

-----------------------------------------------------------------------------
(* The methods *)

RecordCandidate ==
  \E c \in Candidates, known \in Moments : Record(CandidateWrite(c, known))

RecordCurrentSignal ==
  \E s \in Signals, c \in Candidates, known \in Moments :
    \E event \in 1..known : Record(SignalWrite(s, c, event, known))

RecordKolEvidence ==
  \E k \in Evidences, about \in Signals \cup {None}, known \in Moments :
    \E event \in 1..known : Record(EvidenceWrite(k, about, event, known))

RecordEntryDecision ==
  \E d \in Decisions, c \in Candidates, s \in Signals, k \in Evidences \cup {None},
     known \in Moments, status \in {"buy", "skip"} :
       Record(DecisionWrite(d, c, s, k, known, status))

RecordCandidateWithSignal ==
  \E c \in Candidates, s \in Signals, since, known \in Moments :
    \E event \in 1..known :
      Begin(<<CandidateWrite(c, since), SignalWrite(s, c, event, known)>>)

CommitSimulatedBuy ==
  \E b \in Buys, d \in Decisions, c \in Candidates, s \in Signals,
     k \in Evidences \cup {None}, decided, executed \in Moments :
       Begin(<<DecisionWrite(d, c, s, k, decided, "buy"),
               BuyWrite(b, d, c, s, executed),
               ObservationWrite(b, executed),
               SightingWrite(b, executed)>>)

\* Inside a bundle nothing reads the clock: it moves before or after.
ClockStep ==
  /\ txn = NoTxn
  /\ Tick \/ SetBack
  /\ UNCHANGED <<rows, txn>>

Next ==
  \/ ClockStep
  \/ RecordCandidate
  \/ RecordCurrentSignal
  \/ RecordKolEvidence
  \/ RecordEntryDecision
  \/ RecordCandidateWithSignal
  \/ CommitSimulatedBuy
  \/ Nested
  \/ Commit
  \/ Abort

Spec == Init /\ [][Next]_ledgerVars

-----------------------------------------------------------------------------
(* Properties *)

\* Every row has the stamp of a commit that has happened.
TypeOK ==
  /\ ClockTypeOK
  /\ \A r \in rows :
       /\ r.table \in {"candidates", "signals", "evidence", "decisions",
                       "buys", "observations", "sightings"}
       /\ r.is.known \in Moments
       /\ r.seq \in 1..last.seq
       /\ r.at \in 1..last.at
  /\ txn # NoTxn => txn.stamp.seq = last.seq + 1 /\ txn.stamp.at > last.at

\* The commit numbers and the commit times order the rows alike, whatever the
\* wall clock did (database.py: max(raw_us, previous + 1)).
CommitOrder ==
  \A r, q \in rows : r.seq < q.seq <=> r.at < q.at

\* What a reader sees as of a moment that the last commit has reached never
\* changes again: nothing is committed into the past (database.py _write).
ViewFixed ==
  [][\A cutoff \in 0..last.at :
       {r \in rows : Visible(r, cutoff)} = {r \in rows' : Visible(r, cutoff)}]_ledgerVars

\* A decision taken at a moment its commit has reached stays justified by the
\* ledger as of that moment: no later row makes another signal current then,
\* or its evidence unhistorical (decisions.py record_entry_decision).
DecisionStands ==
  \A d \in In(rows, "decisions") : d.is.known <= d.at => Causal(rows, d.is)

\* The evidence of a decision was known, and in the ledger, before its signal
\* was (decisions.py eligible_historical_kol).
EvidenceFirst ==
  \A d \in In(rows, "decisions") :
    \A k \in Under(rows, "evidence", d.is.evidence),
       s \in Under(rows, "signals", d.is.signal) :
         /\ k.at < s.at
         /\ k.is.known < s.is.known

\* A BUY is never without its decision, its entry block and the sighting of it
\* as the head, however its bundle ended (trades.py commit_simulated_buy).
BuyIsWhole ==
  \A b \in In(rows, "buys") :
    /\ \E d \in Under(rows, "decisions", b.is.decision) :
         d.is.status = "buy" /\ d.is.known <= b.is.known /\ d.seq <= b.seq
    /\ \E o \in Under(rows, "observations", b.id),
          h \in Under(rows, "sightings", b.id) : o.seq = b.seq /\ h.seq = b.seq
=============================================================================
