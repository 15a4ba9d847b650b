---------------------------- MODULE LedgerProofs ----------------------------
(***************************************************************************)
(* Proofs about Ledger, for all values of its constants.                   *)
(*                                                                         *)
(* First, commit numbers and commit times order the rows alike, and a view *)
(* as of a moment that a commit has reached never changes.  Both rest on   *)
(* one fact about a step: the rows it adds all carry one stamp, later than *)
(* every earlier one (Inv, Commits).                                       *)
(*                                                                         *)
(* Then, what the tables say of each other (TablesInv): decisions stand,   *)
(* evidence comes before its signal, a BUY is whole.  That is kept of the  *)
(* committed rows and of the rows as an open bundle sees them, with what   *)
(* the bundle has still to write: only so is a bundle that commits known   *)
(* to have written its BUY as a whole.                                     *)
(***************************************************************************)
EXTENDS Ledger, SequenceTheorems, TLAPS

Dated(r, stamp) == r.seq = stamp.seq /\ r.at = stamp.at

\* The committed rows are dated up to the last commit.
RowsInv ==
  /\ \A r \in rows : /\ r.seq \in Nat /\ r.seq <= last.seq
                     /\ r.at \in Nat /\ r.at <= last.at
  /\ CommitOrder

\* An open transaction holds the next stamp, and so do its rows.
TxnInv ==
  /\ txn = [todo |-> txn.todo, stamp |-> txn.stamp, fresh |-> txn.fresh]
  /\ txn # NoTxn => /\ txn.stamp.seq = last.seq + 1
                    /\ txn.stamp.at \in Nat /\ txn.stamp.at > last.at
                    /\ \A r \in txn.fresh : Dated(r, txn.stamp)

Inv ==
  /\ clock \in Nat /\ last.seq \in Nat /\ last.at \in Nat
  /\ RowsInv
  /\ TxnInv

\* The step commits `new`, all of it under a stamp later than the last.
Commits(new) ==
  /\ rows' = rows \cup new
  /\ last'.seq = last.seq + 1
  /\ last'.at \in Nat /\ last'.at > last.at
  /\ \A r \in new : Dated(r, last')

Keeps == rows' = rows /\ last' = last

-----------------------------------------------------------------------------

\* The stamp is the next number, and later than the last commit whatever the
\* wall clock shows.
LEMMA StampRises ==
  ASSUME clock \in Nat, last.seq \in Nat, last.at \in Nat
  PROVE  Stamp.seq = last.seq + 1 /\ Stamp.at \in Nat /\ Stamp.at > last.at
  BY DEF Stamp

\* What a write adds is dated with its transaction's stamp.
LEMMA AddedDated ==
  ASSUME NEW t, NEW w, NEW stamp
  PROVE  \A r \in Added(t, w, stamp) : Dated(r, stamp)
  BY DEF Added, Dated

\* Every method that is its own transaction is Record of some write.
LEMMA RecordCommits ==
  ASSUME Inv, NEW w, Record(w)
  PROVE  (\E new : Commits(new)) /\ UNCHANGED <<clock, txn>>
  <1>1. last' = Stamp /\ rows' = rows \cup Added(rows, w, Stamp)
    BY DEF Record, CommitWith
  <1>2. Commits(Added(rows, w, Stamp))
    BY <1>1, StampRises, AddedDated DEF Commits, Inv
  <1> QED
    BY <1>2 DEF Record, CommitWith

\* A bundle that begins holds the next stamp and no rows.
LEMMA BeginKeeps ==
  ASSUME Inv, NEW writes, Begin(writes)
  PROVE  Keeps /\ clock' = clock /\ TxnInv'
  <1>1. Keeps /\ clock' = clock
    BY DEF Begin, clockVars, Keeps
  <1>2. txn' = [todo |-> writes, stamp |-> Stamp, fresh |-> {}]
    BY DEF Begin
  <1>3. Stamp.seq = last.seq + 1 /\ Stamp.at \in Nat /\ Stamp.at > last.at
    BY StampRises DEF Inv
  <1> QED
    BY <1>1, <1>2, <1>3 DEF TxnInv, Keeps

\* A nested write leaves the committed rows and the stamp alone.
LEMMA NestedKeeps ==
  ASSUME Inv, Nested
  PROVE  Keeps /\ clock' = clock /\ TxnInv'
  <1>1. Keeps /\ clock' = clock
    BY DEF Nested, clockVars, Keeps
  <1>2. txn # NoTxn
    BY DEF Nested, NoTxn
  <1> DEFINE w == Head(txn.todo)
             new == Added(rows \cup txn.fresh, w, txn.stamp)
  <1>3. txn' = [txn EXCEPT !.todo = Tail(@), !.fresh = @ \cup new]
    BY DEF Nested
  <1>4. \A r \in new : Dated(r, txn.stamp)
    BY AddedDated
  <1> HIDE DEF new
  <1>5. txn' = [todo |-> Tail(txn.todo), stamp |-> txn.stamp, fresh |-> txn.fresh \cup new]
    BY <1>3 DEF Inv, TxnInv
  <1>6. \A r \in txn.fresh : Dated(r, txn.stamp)
    BY <1>2 DEF Inv, TxnInv
  <1> QED
    BY <1>1, <1>2, <1>4, <1>5, <1>6 DEF Inv, TxnInv, Keeps

\* Commit adds what the transaction wrote, under its stamp.
LEMMA CommitCommits ==
  ASSUME Inv, Commit
  PROVE  (\E new : Commits(new)) /\ clock' = clock /\ TxnInv'
  <1>1. /\ txn # NoTxn /\ last' = txn.stamp /\ rows' = rows \cup txn.fresh
        /\ txn' = NoTxn /\ clock' = clock
    BY DEF Commit, CommitWith
  <1>2. Commits(txn.fresh)
    BY <1>1 DEF Commits, Inv, TxnInv
  <1>3. TxnInv'
    BY <1>1 DEF TxnInv, NoTxn
  <1> QED
    BY <1>1, <1>2, <1>3

LEMMA AbortKeeps ==
  ASSUME Inv, Abort
  PROVE  Keeps /\ clock' = clock /\ TxnInv'
  <1>1. txn' = NoTxn /\ Keeps /\ clock' = clock
    BY DEF Abort, clockVars, Keeps
  <1> QED
    BY <1>1 DEF TxnInv, NoTxn

LEMMA ClockKeeps ==
  ASSUME Inv, ClockStep
  PROVE  Keeps /\ clock' \in Nat /\ txn' = txn
  <1>1. Keeps /\ txn' = txn
    BY DEF ClockStep, Tick, SetBack, Keeps
  <1>2. CASE Tick
    BY <1>1, <1>2 DEF Tick, Inv
  <1>3. CASE SetBack
    BY <1>1, <1>3 DEF SetBack, Inv
  <1> QED
    BY <1>1, <1>2, <1>3 DEF ClockStep

-----------------------------------------------------------------------------

\* Every step leaves the rows as they are or commits rows of one later stamp.
LEMMA StepKeepsOrCommits ==
  ASSUME Inv, [Next]_ledgerVars
  PROVE  /\ Keeps \/ \E new : Commits(new)
         /\ clock' \in Nat
         /\ TxnInv'
  <1>1. ASSUME NEW w, Record(w) PROVE TxnInv' /\ clock' \in Nat /\ \E new : Commits(new)
    <2>1. (\E new : Commits(new)) /\ clock' = clock /\ txn' = txn
      BY <1>1, RecordCommits
    <2>2. txn = NoTxn
      BY <1>1 DEF Record
    <2>3. TxnInv'
      BY <2>1, <2>2 DEF TxnInv, NoTxn
    <2> QED
      BY <2>1, <2>3 DEF Inv
  <1>2. ASSUME NEW writes, Begin(writes) PROVE Keeps /\ clock' \in Nat /\ TxnInv'
    BY <1>2, BeginKeeps DEF Inv
  <1>3. CASE ClockStep
    <2>1. Keeps /\ clock' \in Nat /\ txn' = txn
      BY <1>3, ClockKeeps
    <2> QED
      BY <2>1 DEF Inv, TxnInv, Keeps
  <1>4. CASE RecordCandidate
    BY <1>1, <1>4 DEF RecordCandidate
  <1>5. CASE RecordCurrentSignal
    BY <1>1, <1>5 DEF RecordCurrentSignal
  <1>6. CASE RecordKolEvidence
    BY <1>1, <1>6 DEF RecordKolEvidence
  <1>7. CASE RecordEntryDecision
    BY <1>1, <1>7 DEF RecordEntryDecision
  <1>8. CASE RecordCandidateWithSignal
    BY <1>2, <1>8 DEF RecordCandidateWithSignal
  <1>9. CASE CommitSimulatedBuy
    BY <1>2, <1>9 DEF CommitSimulatedBuy
  <1>10. CASE Nested
    BY <1>10, NestedKeeps DEF Inv
  <1>11. CASE Commit
    BY <1>11, CommitCommits DEF Inv
  <1>12. CASE Abort
    BY <1>12, AbortKeeps DEF Inv
  <1>13. CASE UNCHANGED ledgerVars
    BY <1>13 DEF ledgerVars, clockVars, Keeps, Inv, TxnInv
  <1> QED
    BY <1>3, <1>4, <1>5, <1>6, <1>7, <1>8, <1>9, <1>10, <1>11, <1>12, <1>13 DEF Next

\* Rows under a later stamp come after all others in both orders.
LEMMA RowsInvStep ==
  ASSUME Inv, Keeps \/ \E new : Commits(new)
  PROVE  last'.seq \in Nat /\ last'.at \in Nat /\ RowsInv'
  <1>1. CASE Keeps
    BY <1>1 DEF Keeps, Inv, RowsInv, CommitOrder
  <1>2. ASSUME NEW new, Commits(new)
        PROVE  last'.seq \in Nat /\ last'.at \in Nat /\ RowsInv'
    <2>1. last'.seq \in Nat /\ last'.at \in Nat
      BY <1>2 DEF Commits, Inv
    <2>2. \A r \in rows : /\ r.seq \in Nat /\ r.seq < last'.seq
                          /\ r.at \in Nat /\ r.at < last'.at
      BY <1>2 DEF Commits, Inv, RowsInv
    <2>3. \A r \in new : r.seq = last'.seq /\ r.at = last'.at
      BY <1>2 DEF Commits, Dated
    <2>4. rows' = rows \cup new
      BY <1>2 DEF Commits
    <2>5. \A r, q \in rows : r.seq < q.seq <=> r.at < q.at
      BY DEF Inv, RowsInv, CommitOrder
    <2>6. \A r, q \in rows' : r.seq < q.seq <=> r.at < q.at
      BY <2>1, <2>2, <2>3, <2>4, <2>5
    <2>7. \A r \in rows' : /\ r.seq \in Nat /\ r.seq <= last'.seq
                           /\ r.at \in Nat /\ r.at <= last'.at
      BY <2>1, <2>2, <2>3, <2>4
    <2> QED
      BY <2>1, <2>6, <2>7 DEF RowsInv, CommitOrder
  <1> QED
    BY <1>1, <1>2

LEMMA InvInit == Init => Inv
  BY DEF Init, ClockInit, Inv, RowsInv, CommitOrder, TxnInv, NoTxn

LEMMA InvStep == Inv /\ [Next]_ledgerVars => Inv'
  <1> SUFFICES ASSUME Inv, [Next]_ledgerVars PROVE Inv'
    OBVIOUS
  <1>1. /\ Keeps \/ \E new : Commits(new)
        /\ clock' \in Nat
        /\ TxnInv'
    BY StepKeepsOrCommits
  <1>2. last'.seq \in Nat /\ last'.at \in Nat /\ RowsInv'
    BY <1>1, RowsInvStep
  <1> QED
    BY <1>1, <1>2 DEF Inv

LEMMA SpecInv == Spec => []Inv
  BY InvInit, InvStep, PTL DEF Spec

\* In every behaviour the commit numbers and the commit times of the ledger
\* order its rows alike, however often the wall clock is set back.
THEOREM SpecCommitOrder == Spec => []CommitOrder
  <1>1. Inv => CommitOrder
    BY DEF Inv, RowsInv
  <1> QED
    BY <1>1, SpecInv, PTL

\* In every behaviour what is visible as of a moment that the last commit has
\* reached stays what it is: readers may rely on it.
THEOREM SpecViewFixed == Spec => ViewFixed
  <1>1. ASSUME Inv, [Next]_ledgerVars, NEW cutoff \in 0..last.at
        PROVE  {r \in rows : Visible(r, cutoff)} = {r \in rows' : Visible(r, cutoff)}
    <2>1. CASE Keeps
      BY <2>1 DEF Keeps
    <2>2. ASSUME NEW new, Commits(new)
          PROVE  {r \in rows : Visible(r, cutoff)} = {r \in rows' : Visible(r, cutoff)}
      <3>1. rows' = rows \cup new
        BY <2>2 DEF Commits
      <3>2. \A r \in new : ~(r.at <= cutoff)
        BY <1>1, <2>2 DEF Commits, Dated, Inv
      <3>3. \A r \in new : ~Visible(r, cutoff)
        BY <3>2 DEF Visible
      <3> QED
        BY <3>1, <3>3
    <2> QED
      BY <1>1, <2>1, <2>2, StepKeepsOrCommits
  <1>2. Inv /\ [Next]_ledgerVars =>
          [\A cutoff \in 0..last.at :
             {r \in rows : Visible(r, cutoff)} = {r \in rows' : Visible(r, cutoff)}]_ledgerVars
    BY <1>1
  <1> QED
    BY <1>2, SpecInv, PTL DEF Spec, ViewFixed

-----------------------------------------------------------------------------
(* What the tables say of each other *)

\* What a decision rests on.
Basics == {"candidates", "signals", "evidence"}

Tables == Basics \cup {"decisions", "buys", "observations", "sightings"}

Contents ==
  [known : Moments]
    \cup [candidate : Candidates, event : Moments, known : Moments]
    \cup [about : Signals \cup {None}, event : Moments, known : Moments]
    \cup [candidate : Candidates, signal : Signals, evidence : Evidences \cup {None},
          known : Moments, status : {"buy", "skip"}]
    \cup [decision : Decisions, candidate : Candidates, signal : Signals, known : Moments]

Ids == Candidates \cup Signals \cup Evidences \cup Decisions \cup Buys

Writes ==
  {w \in [table : Tables, id : Ids, is : Contents] : w.table = "evidence" => w.id \in Evidences}

\* Moments and stamps are numbers, and evidence is never the absent one.
RowsTyped(t) ==
  \A r \in t : /\ r.is.known \in Nat /\ r.seq \in Nat /\ r.at \in Nat
               /\ r.table = "evidence" => r.id # None

OneRowEach(t) ==
  \A r, q \in t : r.table = q.table /\ r.id = q.id => r = q

\* A decision was taken of a signal in the ledger, on evidence committed before it.
Grounded(t) ==
  \A d \in In(t, "decisions") :
    \E s \in Under(t, "signals", d.is.signal) :
      \/ d.is.evidence = None
      \/ \E k \in Under(t, "evidence", d.is.evidence) :
           k.seq < s.seq /\ k.is.known < s.is.known

Backed(t) ==
  \A b \in In(t, "buys") : \E d \in Under(t, "decisions", b.is.decision) :
    d.is.status = "buy" /\ d.is.known <= b.is.known /\ d.seq <= b.seq

\* Blocks and sightings are of a BUY.
Referred(t) ==
  /\ \A o \in In(t, "observations") : Under(t, "buys", o.id) # {}
  /\ \A h \in In(t, "sightings") : Under(t, "observations", h.id) # {}

Sound(t) == RowsTyped(t) /\ OneRowEach(t) /\ Grounded(t) /\ Backed(t) /\ Referred(t)

Stand(t) ==
  \A d \in In(t, "decisions") : d.is.known <= d.at => Causal(t, d.is)

\* The tables as the open transaction sees them.
View == rows \cup txn.fresh

\* Nothing that a decision rests on is written after it in the same bundle.
Orderly(todo) ==
  \A i, j \in 1..Len(todo) :
    todo[i].table = "decisions" /\ i < j => todo[j].table \notin Basics

\* The blocks and sightings of a BUY follow it.
Followed(todo) ==
  \A i \in 1..Len(todo) : todo[i].table = "buys" =>
    \A table \in {"observations", "sightings"} :
      \E j \in 1..Len(todo) : i < j /\ todo[j].table = table /\ todo[j].id = todo[i].id

\* What is still to be written completes what is written.
Completing(todo, fresh) ==
  /\ In(fresh, "decisions") # {} => \A i \in 1..Len(todo) : todo[i].table \notin Basics
  /\ \A b \in In(fresh, "buys") : \A table \in {"observations", "sightings"} :
       \/ Under(fresh, table, b.id) # {}
       \/ \E i \in 1..Len(todo) : todo[i].table = table /\ todo[i].id = b.id

BundleInv ==
  /\ txn.todo \in Seq(Writes)
  /\ Orderly(txn.todo) /\ Followed(txn.todo) /\ Completing(txn.todo, txn.fresh)
  /\ \A r \in txn.fresh : Under(rows, r.table, r.id) = {}

TablesInv ==
  /\ Sound(rows) /\ Stand(rows) /\ BuyIsWhole
  /\ Sound(View) /\ Stand(View)
  /\ BundleInv

\* The row a write adds, and what it finds or leaves under its id.
LEMMA AddedFacts ==
  ASSUME NEW t, NEW w, NEW stamp, NoConflict(t, w)
  PROVE  /\ \A r \in Added(t, w, stamp) :
              /\ r.table = w.table /\ r.id = w.id /\ r.is = w.is
              /\ r.seq = stamp.seq /\ r.at = stamp.at
              /\ IsNew(t, w)
         /\ \A r, q \in Added(t, w, stamp) : r = q
         /\ \E r \in Under(t \cup Added(t, w, stamp), w.table, w.id) : r.is = w.is
<1> DEFINE row == [table |-> w.table, id |-> w.id, is |-> w.is, seq |-> stamp.seq, at |-> stamp.at]
<1>1. /\ row.table = w.table /\ row.id = w.id /\ row.is = w.is
      /\ row.seq = stamp.seq /\ row.at = stamp.at
  OBVIOUS
<1>2. Added(t, w, stamp) = IF IsNew(t, w) THEN {row} ELSE {}
  BY DEF Added
<1> HIDE DEF row
<1>3. CASE IsNew(t, w)
  BY <1>1, <1>2, <1>3 DEF Under
<1>4. CASE ~IsNew(t, w)
  BY <1>2, <1>4 DEF IsNew, NoConflict, Under
<1> QED BY <1>3, <1>4

\* Causal looks at what was visible at the moment decided, and at nothing that
\* records decisions or trades.
LEMMA CausalKeeps ==
  ASSUME NEW t, NEW new, NEW d,
         \A r \in new : r.table \notin Basics \/ ~Visible(r, d.known)
  PROVE  Causal(t \cup new, d) <=> Causal(t, d)
<1> DEFINE u == t \cup new
<1>1. \A r \in new : Visible(r, d.known) => r.table \notin {"candidates", "signals", "evidence"}
  BY DEF Basics
<1>2. (\E r \in Under(u, "candidates", d.candidate) : Visible(r, d.known))
        <=> \E r \in Under(t, "candidates", d.candidate) : Visible(r, d.known)
  BY <1>1 DEF Under
<1>3. {r \in In(u, "signals") : r.is.candidate = d.candidate /\ Visible(r, d.known)}
        = {r \in In(t, "signals") : r.is.candidate = d.candidate /\ Visible(r, d.known)}
  BY <1>1 DEF In
<1>4. CurrentSignal(u, d.candidate, d.known) = CurrentSignal(t, d.candidate, d.known)
  BY <1>3 DEF CurrentSignal
<1>5. ASSUME NEW s PROVE Eligible(u, s, d.known) = Eligible(t, s, d.known)
  BY <1>1 DEF Eligible, In
<1> QED BY <1>2, <1>4, <1>5 DEF Causal

-----------------------------------------------------------------------------
(* One write *)

LEMMA WriteSound ==
  ASSUME NEW t, NEW w \in Writes, NEW now, NEW stamp,
         Sound(t), Accepted(t, w, now),
         stamp.seq \in Nat, stamp.at \in Nat,
         \A r \in t : r.seq <= stamp.seq,
         None \notin Evidences
  PROVE  Sound(t \cup Added(t, w, stamp))
<1> DEFINE new == Added(t, w, stamp)
           u == t \cup new
<1>0. NoConflict(t, w)
  BY DEF Accepted
<1>1. /\ \A r \in new : /\ r.table = w.table /\ r.id = w.id /\ r.is = w.is
                        /\ r.seq = stamp.seq /\ r.at = stamp.at
                        /\ IsNew(t, w)
      /\ \A r, q \in new : r = q
  BY <1>0, AddedFacts
<1> HIDE DEF new
<1>2. RowsTyped(u)
  <2>1. w.is.known \in Nat /\ (w.table = "evidence" => w.id # None)
    BY ClockAssumption DEF Writes, Contents, Moments
  <2> QED BY <1>1, <2>1 DEF RowsTyped, Sound
<1>3. OneRowEach(u)
  BY <1>1 DEF OneRowEach, Sound, IsNew, Under
<1>4. Grounded(u)
  <2> SUFFICES ASSUME NEW d \in In(u, "decisions")
               PROVE  \E s \in Under(u, "signals", d.is.signal) :
                        \/ d.is.evidence = None
                        \/ \E k \in Under(u, "evidence", d.is.evidence) :
                             k.seq < s.seq /\ k.is.known < s.is.known
    BY DEF Grounded
  <2>1. CASE d \in t
    BY <2>1 DEF Sound, Grounded, In, Under
  <2>2. CASE d \in new
    <3>1. Causal(t, d.is)
      BY <1>1, <2>2 DEF Accepted, In
    <3>2. PICK s \in CurrentSignal(t, d.is.candidate, d.is.known) :
            /\ s.id = d.is.signal
            /\ d.is.evidence = None \/ \E r \in Eligible(t, s, d.is.known) : r.id = d.is.evidence
      BY <3>1 DEF Causal
    <3>3. s \in Under(u, "signals", d.is.signal)
      BY <3>2 DEF CurrentSignal, In, Under
    <3>4. ASSUME NEW k \in Eligible(t, s, d.is.known), k.id = d.is.evidence
          PROVE  /\ k \in Under(u, "evidence", d.is.evidence)
                 /\ k.seq < s.seq /\ k.is.known < s.is.known
      BY <3>4 DEF Eligible, In, Under
    <3> QED BY <3>2, <3>3, <3>4
  <2> QED BY <2>1, <2>2 DEF In
<1>5. Backed(u)
  <2> SUFFICES ASSUME NEW b \in In(u, "buys")
               PROVE  \E d \in Under(u, "decisions", b.is.decision) :
                        d.is.status = "buy" /\ d.is.known <= b.is.known /\ d.seq <= b.seq
    BY DEF Backed
  <2>1. CASE b \in t
    BY <2>1 DEF Sound, Backed, In, Under
  <2>2. CASE b \in new
    <3>1. BuyFits(t, w) /\ Under(t, "decisions", w.is.decision) # {} /\ b.is = w.is
      BY <1>1, <2>2 DEF Accepted, In
    <3>2. PICK d \in Under(t, "decisions", b.is.decision) :
            d.is.status = "buy" /\ d.is.known <= b.is.known
      BY <3>1 DEF BuyFits
    <3>3. d \in Under(u, "decisions", b.is.decision) /\ d.seq <= b.seq
      BY <1>1, <2>2, <3>2 DEF Under
    <3> QED BY <3>2, <3>3
  <2> QED BY <2>1, <2>2 DEF In
<1>6. Referred(u)
  <2>1. ASSUME NEW o \in In(u, "observations") PROVE Under(u, "buys", o.id) # {}
    <3>1. CASE o \in t
      BY <3>1 DEF Sound, Referred, In, Under
    <3>2. CASE o \in new
      BY <1>1, <3>2 DEF Accepted, In, Under
    <3> QED BY <3>1, <3>2 DEF In
  <2>2. ASSUME NEW h \in In(u, "sightings") PROVE Under(u, "observations", h.id) # {}
    <3>1. CASE h \in t
      BY <3>1 DEF Sound, Referred, In, Under
    <3>2. CASE h \in new
      BY <1>1, <3>2 DEF Accepted, In, Under
    <3> QED BY <3>1, <3>2 DEF In
  <2> QED BY <2>1, <2>2 DEF Referred
<1> QED BY <1>2, <1>3, <1>4, <1>5, <1>6 DEF Sound, new

\* A write to a table that decisions rest on comes, by its stamp, after every
\* decision there is.
LEMMA WriteStand ==
  ASSUME NEW t, NEW w, NEW now, NEW stamp,
         RowsTyped(t), Stand(t), Accepted(t, w, now), stamp.at \in Nat,
         w.table \in Basics => \A d \in In(t, "decisions") : d.at < stamp.at
  PROVE  Stand(t \cup Added(t, w, stamp))
<1> DEFINE new == Added(t, w, stamp)
<1>1. \A r \in new : r.table = w.table /\ r.is = w.is /\ r.at = stamp.at /\ IsNew(t, w)
  BY AddedFacts DEF Accepted
<1> HIDE DEF new
<1> SUFFICES ASSUME NEW d \in In(t \cup new, "decisions"), d.is.known <= d.at
             PROVE  Causal(t \cup new, d.is)
  BY DEF Stand, new
<1>2. CASE d \in t
  <2>1. Causal(t, d.is)
    BY <1>2 DEF Stand, In
  <2>2. ASSUME NEW r \in new PROVE r.table \notin Basics \/ ~Visible(r, d.is.known)
    <3>1. CASE w.table \notin Basics
      BY <1>1, <3>1
    <3>2. CASE w.table \in Basics
      <4>0. d \in In(t, "decisions")
        BY <1>2 DEF In
      <4>1. d.is.known \in Nat /\ d.at \in Nat
        BY <1>2 DEF RowsTyped
      <4>2. d.at < stamp.at
        BY <3>2, <4>0
      <4>3. ~(r.at <= d.is.known)
        BY <1>1, <4>1, <4>2
      <4> QED BY <4>3 DEF Visible
    <3> QED BY <3>1, <3>2
  <2> QED BY <2>1, <2>2, CausalKeeps
<1>3. CASE d \in new
  <2>1. d.table = "decisions" /\ Causal(t, d.is)
    BY <1>1, <1>3 DEF In, Accepted
  <2>2. \A r \in new : r.table \notin Basics
    BY <1>1, <1>3, <2>1 DEF Basics
  <2> QED BY <2>1, <2>2, CausalKeeps
<1> QED BY <1>2, <1>3 DEF In

-----------------------------------------------------------------------------
(* Steps *)

\* A BUY that was whole stays so.
LEMMA WholeGrows ==
  ASSUME BuyIsWhole, NEW new, rows' = rows \cup new,
         \A b \in In(new, "buys") :
           /\ \E d \in Under(rows', "decisions", b.is.decision) :
                d.is.status = "buy" /\ d.is.known <= b.is.known /\ d.seq <= b.seq
           /\ \E o \in Under(rows', "observations", b.id),
                 h \in Under(rows', "sightings", b.id) : o.seq = b.seq /\ h.seq = b.seq
  PROVE  BuyIsWhole'
<1> SUFFICES ASSUME NEW b \in In(rows', "buys")
             PROVE  /\ \E d \in Under(rows', "decisions", b.is.decision) :
                         d.is.status = "buy" /\ d.is.known <= b.is.known /\ d.seq <= b.seq
                    /\ \E o \in Under(rows', "observations", b.id),
                          h \in Under(rows', "sightings", b.id) : o.seq = b.seq /\ h.seq = b.seq
  BY DEF BuyIsWhole
<1>1. CASE b \in new
  BY <1>1 DEF In
<1>2. CASE b \in rows
  <2>1. /\ \E d \in Under(rows, "decisions", b.is.decision) :
             d.is.status = "buy" /\ d.is.known <= b.is.known /\ d.seq <= b.seq
        /\ \E o \in Under(rows, "observations", b.id),
              h \in Under(rows, "sightings", b.id) : o.seq = b.seq /\ h.seq = b.seq
    BY <1>2 DEF BuyIsWhole, In
  <2>2. \A table, id : Under(rows, table, id) \subseteq Under(rows', table, id)
    BY DEF Under
  <2> QED BY <2>1, <2>2
<1> QED BY <1>1, <1>2 DEF In

\* With no transaction open there is nothing to complete.
LEMMA NothingOpen ==
  Sound(rows) /\ Stand(rows) /\ BuyIsWhole /\ txn = NoTxn => TablesInv
<1> SUFFICES ASSUME Sound(rows), Stand(rows), BuyIsWhole, txn = NoTxn
             PROVE  TablesInv
  OBVIOUS
<1>1. txn.todo = <<>> /\ txn.fresh = {} /\ View = rows
  BY DEF NoTxn, View
<1>2. BundleInv
  <2>1. txn.todo \in Seq(Writes) /\ Len(txn.todo) = 0
    BY <1>1
  <2>2. Orderly(txn.todo) /\ Followed(txn.todo)
    BY <2>1 DEF Orderly, Followed
  <2>3. In(txn.fresh, "decisions") = {} /\ In(txn.fresh, "buys") = {}
    BY <1>1 DEF In
  <2> QED BY <1>1, <2>1, <2>2, <2>3 DEF BundleInv, Completing
<1> QED BY <1>1, <1>2 DEF TablesInv

LEMMA RecordTables ==
  ASSUME Inv, TablesInv, NEW w \in Writes, Record(w),
         w.table \in Basics \cup {"decisions"}
  PROVE  TablesInv'
<1> DEFINE new == Added(rows, w, Stamp)
<1>1. /\ txn = NoTxn /\ txn' = txn
      /\ Accepted(rows, w, latest)
      /\ rows' = rows \cup new
  BY DEF Record
<1>2. Stamp.seq \in Nat /\ Stamp.seq = last.seq + 1 /\ Stamp.at \in Nat /\ Stamp.at > last.at
  BY StampRises DEF Inv
<1>3. \A r \in rows : r.seq <= Stamp.seq /\ r.at < Stamp.at
  BY <1>2 DEF Inv, RowsInv
<1>4. Sound(rows')
  BY <1>1, <1>2, <1>3, WriteSound, LedgerAssumption DEF TablesInv
<1>5. Stand(rows')
  BY <1>1, <1>2, <1>3, WriteStand DEF TablesInv, Sound, In
<1>6. In(new, "buys") = {}
  BY <1>1, AddedFacts DEF In, Accepted, Basics
<1>7. BuyIsWhole'
  BY <1>1, <1>6, WholeGrows DEF TablesInv
<1>8. /\ Sound(rows)' /\ Stand(rows)' /\ BuyIsWhole' /\ txn' = NoTxn
  BY <1>1, <1>4, <1>5, <1>7
<1>9. (Sound(rows) /\ Stand(rows) /\ BuyIsWhole /\ txn = NoTxn => TablesInv)'
  BY NothingOpen, PTL
<1> QED BY <1>8, <1>9

LEMMA BeginTables ==
  ASSUME TablesInv, NEW writes \in Seq(Writes), Orderly(writes), Followed(writes),
         Begin(writes)
  PROVE  TablesInv'
<1>1. /\ rows' = rows
      /\ txn' = [todo |-> writes, stamp |-> Stamp, fresh |-> {}]
  BY DEF Begin
<1>2. txn'.todo = writes /\ txn'.fresh = {} /\ View' = rows
  BY <1>1 DEF View
<1>3. In(txn'.fresh, "decisions") = {} /\ In(txn'.fresh, "buys") = {}
  BY <1>2 DEF In
<1>4. BundleInv'
  BY <1>2, <1>3 DEF BundleInv, Completing
<1> QED BY <1>1, <1>2, <1>4 DEF TablesInv, BuyIsWhole

\* What remains of a bundle is a bundle.
LEMMA TailOfBundle ==
  ASSUME NEW todo \in Seq(Writes), todo # <<>>, Orderly(todo), Followed(todo)
  PROVE  /\ Tail(todo) \in Seq(Writes)
         /\ Head(todo) \in Writes /\ Head(todo) = todo[1]
         /\ Len(todo) \in Nat /\ Len(Tail(todo)) = Len(todo) - 1 /\ Len(todo) >= 1
         /\ \A i \in 1..Len(Tail(todo)) : i + 1 \in 1..Len(todo) /\ Tail(todo)[i] = todo[i + 1]
         /\ \A i \in 2..Len(todo) : i - 1 \in 1..Len(Tail(todo)) /\ Tail(todo)[i - 1] = todo[i]
         /\ Orderly(Tail(todo)) /\ Followed(Tail(todo))
<1> DEFINE rest == Tail(todo)
<1>1. /\ rest \in Seq(Writes)
      /\ Head(todo) \in Writes /\ Head(todo) = todo[1]
      /\ Len(todo) \in Nat /\ Len(rest) = Len(todo) - 1 /\ Len(todo) >= 1
      /\ \A i \in 1..Len(rest) : rest[i] = todo[i + 1]
  BY HeadTailProperties, LenProperties, ElementOfSeq, EmptySeq
<1> HIDE DEF rest
<1>2. \A i \in 1..Len(rest) : i \in Nat /\ i + 1 \in 1..Len(todo)
  BY <1>1
<1>3. \A i \in 2..Len(todo) : i - 1 \in 1..Len(rest) /\ rest[i - 1] = todo[i]
  <2> TAKE i \in 2..Len(todo)
  <2>1. i - 1 \in 1..Len(rest) /\ (i - 1) + 1 = i
    BY <1>1
  <2> QED BY <1>1, <2>1
<1>4. Orderly(rest)
  <2> SUFFICES ASSUME NEW i \in 1..Len(rest), NEW j \in 1..Len(rest),
                      rest[i].table = "decisions", i < j
               PROVE  rest[j].table \notin Basics
    BY DEF Orderly
  <2>1. i + 1 \in 1..Len(todo) /\ j + 1 \in 1..Len(todo) /\ i + 1 < j + 1
    BY <1>2
  <2>2. rest[i] = todo[i + 1] /\ rest[j] = todo[j + 1]
    BY <1>1
  <2> QED BY <2>1, <2>2 DEF Orderly
<1>5. Followed(rest)
  <2> SUFFICES ASSUME NEW i \in 1..Len(rest), rest[i].table = "buys",
                      NEW table \in {"observations", "sightings"}
               PROVE  \E j \in 1..Len(rest) :
                        i < j /\ rest[j].table = table /\ rest[j].id = rest[i].id
    BY DEF Followed
  <2>1. i + 1 \in 1..Len(todo) /\ rest[i] = todo[i + 1]
    BY <1>1, <1>2
  <2>2. PICK j \in 1..Len(todo) :
          i + 1 < j /\ todo[j].table = table /\ todo[j].id = todo[i + 1].id
    BY <2>1 DEF Followed
  <2>3. j \in 2..Len(todo) /\ i < j - 1
    BY <1>1, <2>2
  <2> QED BY <1>3, <2>1, <2>2, <2>3
<1> QED BY <1>1, <1>2, <1>3, <1>4, <1>5 DEF rest

\* A row of a BUY that is not committed is not committed either.
LEMMA FreshBuyRows ==
  ASSUME Referred(rows), NEW b, Under(rows, "buys", b) = {},
         NEW table \in {"observations", "sightings"}
  PROVE  Under(rows, table, b) = {}
BY DEF Referred, Under, In

LEMMA NestedTables ==
  ASSUME Inv, TablesInv, Nested
  PROVE  TablesInv'
<1> DEFINE t == View
           todo == txn.todo
           w == Head(todo)
           new == Added(t, w, txn.stamp)
           rest == Tail(todo)
<1>1. /\ todo # <<>> /\ rows' = rows
      /\ Accepted(t, w, txn.stamp.at)
      /\ txn' = [txn EXCEPT !.todo = rest, !.fresh = @ \cup new]
  BY DEF Nested, View
<1>2. txn # NoTxn
  BY <1>1 DEF NoTxn
<1>3. txn'.todo = rest /\ txn'.fresh = txn.fresh \cup new
  <2>1. txn = [todo |-> txn.todo, stamp |-> txn.stamp, fresh |-> txn.fresh]
    BY DEF Inv, TxnInv
  <2> HIDE DEF rest, new
  <2> QED BY <1>1, <2>1
<1>4. View' = t \cup new
  BY <1>1, <1>3 DEF View
<1>5. /\ txn.stamp.seq = last.seq + 1 /\ txn.stamp.seq \in Nat
      /\ txn.stamp.at \in Nat /\ txn.stamp.at > last.at
      /\ \A r \in txn.fresh : r.seq = txn.stamp.seq /\ r.at = txn.stamp.at
  BY <1>2 DEF Inv, TxnInv, Dated
<1>6. /\ \A r \in t : r.seq <= txn.stamp.seq
      /\ \A r \in rows : r.at < txn.stamp.at
  BY <1>5 DEF Inv, RowsInv, View
<1>7. /\ todo \in Seq(Writes)
      /\ Orderly(todo) /\ Followed(todo) /\ Completing(todo, txn.fresh)
      /\ \A r \in txn.fresh : Under(rows, r.table, r.id) = {}
      /\ Sound(t) /\ Stand(t) /\ Sound(rows)
  BY DEF TablesInv, BundleInv
<1>8. /\ \A r \in new : r.table = w.table /\ r.id = w.id /\ IsNew(t, w)
      /\ Under(t \cup new, w.table, w.id) # {}
  BY <1>1, AddedFacts DEF Accepted
<1>9. Sound(View')
  <2>1. w \in Writes
    BY <1>1, <1>7, TailOfBundle
  <2> QED BY <1>1, <1>4, <1>5, <1>6, <1>7, <2>1, WriteSound, LedgerAssumption
<1> HIDE DEF t, todo, w, new, rest
<1>10. /\ rest \in Seq(Writes)
       /\ w = todo[1] /\ 1 \in 1..Len(todo)
       /\ \A i \in 1..Len(rest) : i + 1 \in 1..Len(todo) /\ 1 < i + 1 /\ rest[i] = todo[i + 1]
       /\ \A i \in 1..Len(todo) : i # 1 => i - 1 \in 1..Len(rest) /\ rest[i - 1] = todo[i]
       /\ Orderly(rest) /\ Followed(rest)
  BY <1>1, <1>7, TailOfBundle DEF todo, w, rest
<1>11. w.table \in Basics => In(txn.fresh, "decisions") = {}
  BY <1>7, <1>10 DEF Completing
<1>12. Stand(View')
  <2>1. w.table \in Basics => \A d \in In(t, "decisions") : d.at < txn.stamp.at
    BY <1>6, <1>11 DEF t, View, In
  <2> QED BY <1>1, <1>4, <1>5, <1>7, <2>1, WriteStand DEF t, w, new, Sound
<1>13. Completing(rest, txn.fresh \cup new)
  <2>1. ASSUME In(txn.fresh \cup new, "decisions") # {}, NEW i \in 1..Len(rest)
        PROVE  rest[i].table \notin Basics
    <3>1. CASE In(txn.fresh, "decisions") # {}
      BY <1>7, <1>10, <3>1 DEF Completing
    <3>2. CASE w.table = "decisions"
      BY <1>7, <1>10, <3>2 DEF Orderly
    <3> QED BY <1>8, <2>1, <3>1, <3>2 DEF In
  <2>2. ASSUME NEW b \in In(txn.fresh \cup new, "buys"),
               NEW table \in {"observations", "sightings"}
        PROVE  \/ Under(txn.fresh \cup new, table, b.id) # {}
               \/ \E i \in 1..Len(rest) : rest[i].table = table /\ rest[i].id = b.id
    <3>1. CASE b \in new
      <4>1. w.table = "buys" /\ b.id = w.id
        BY <1>8, <2>2, <3>1 DEF In
      <4>2. PICK j \in 1..Len(todo) : 1 < j /\ todo[j].table = table /\ todo[j].id = b.id
        BY <1>7, <1>10, <4>1 DEF Followed
      <4> QED BY <1>10, <4>2
    <3>2. CASE b \in txn.fresh
      <4>1. Under(rows, "buys", b.id) = {}
        BY <1>7, <2>2, <3>2 DEF In
      <4>2. Under(rows, table, b.id) = {}
        BY <1>7, <4>1, FreshBuyRows DEF Sound
      <4>3. \/ Under(txn.fresh, table, b.id) # {}
            \/ \E i \in 1..Len(todo) : todo[i].table = table /\ todo[i].id = b.id
        BY <1>7, <2>2, <3>2 DEF Completing, In
      <4>4. CASE w.table = table /\ w.id = b.id
        BY <1>8, <4>2, <4>4 DEF t, View, Under
      <4>5. CASE ~(w.table = table /\ w.id = b.id)
        BY <1>10, <4>3, <4>5 DEF Under
      <4> QED BY <4>4, <4>5
    <3> QED BY <2>2, <3>1, <3>2 DEF In
  <2> QED BY <2>1, <2>2 DEF Completing
<1>14. \A r \in txn.fresh \cup new : Under(rows, r.table, r.id) = {}
  BY <1>7, <1>8 DEF IsNew, Under, t, View
<1>15. BundleInv'
  BY <1>1, <1>3, <1>10, <1>13, <1>14 DEF BundleInv
<1> QED BY <1>1, <1>9, <1>12, <1>15 DEF TablesInv, BuyIsWhole

\* A bundle that commits has written all it had to write.
LEMMA CommitTables ==
  ASSUME Inv, TablesInv, Commit
  PROVE  TablesInv'
<1>1. /\ txn # NoTxn /\ txn.todo = <<>> /\ txn' = NoTxn
      /\ rows' = rows \cup txn.fresh /\ rows' = View
  BY DEF Commit, View
<1>2. Sound(rows') /\ Stand(rows')
  BY <1>1 DEF TablesInv
<1>3. \A r \in txn.fresh : r.seq = txn.stamp.seq
  BY <1>1 DEF Inv, TxnInv, Dated
<1>4. ASSUME NEW b \in In(txn.fresh, "buys")
      PROVE  /\ \E d \in Under(rows', "decisions", b.is.decision) :
                  d.is.status = "buy" /\ d.is.known <= b.is.known /\ d.seq <= b.seq
             /\ \E o \in Under(rows', "observations", b.id),
                   h \in Under(rows', "sightings", b.id) : o.seq = b.seq /\ h.seq = b.seq
  <2>1. b \in In(rows', "buys") /\ b \in txn.fresh
    BY <1>1, <1>4 DEF In
  <2>2. Len(txn.todo) = 0
    BY <1>1
  <2>3. \A table \in {"observations", "sightings"} : Under(txn.fresh, table, b.id) # {}
    BY <1>4, <2>2 DEF TablesInv, BundleInv, Completing
  <2>4. PICK o \in Under(txn.fresh, "observations", b.id) : TRUE
    BY <2>3
  <2>5. PICK h \in Under(txn.fresh, "sightings", b.id) : TRUE
    BY <2>3
  <2>6. /\ o \in Under(rows', "observations", b.id) /\ o.seq = b.seq
        /\ h \in Under(rows', "sightings", b.id) /\ h.seq = b.seq
    BY <1>1, <1>3, <2>1, <2>4, <2>5 DEF Under
  <2>7. \E d \in Under(rows', "decisions", b.is.decision) :
          d.is.status = "buy" /\ d.is.known <= b.is.known /\ d.seq <= b.seq
    BY <1>2, <2>1 DEF Sound, Backed
  <2> QED BY <2>6, <2>7
<1>5. BuyIsWhole'
  BY <1>1, <1>4, WholeGrows DEF TablesInv
<1>6. /\ Sound(rows)' /\ Stand(rows)' /\ BuyIsWhole' /\ txn' = NoTxn
  BY <1>1, <1>2, <1>5
<1>7. (Sound(rows) /\ Stand(rows) /\ BuyIsWhole /\ txn = NoTxn => TablesInv)'
  BY NothingOpen, PTL
<1> QED BY <1>6, <1>7

\* An abandoned bundle leaves nothing behind.
LEMMA AbortTables ==
  ASSUME TablesInv, Abort
  PROVE  TablesInv'
<1>1. rows' = rows /\ txn' = NoTxn
  BY DEF Abort
<1>2. /\ Sound(rows)' /\ Stand(rows)' /\ BuyIsWhole' /\ txn' = NoTxn
  BY <1>1 DEF TablesInv, BuyIsWhole
<1>3. (Sound(rows) /\ Stand(rows) /\ BuyIsWhole /\ txn = NoTxn => TablesInv)'
  BY NothingOpen, PTL
<1> QED BY <1>2, <1>3

LEMMA SameTables ==
  ASSUME TablesInv, UNCHANGED <<rows, txn>>
  PROVE  TablesInv'
BY DEF TablesInv, BundleInv, View, BuyIsWhole

-----------------------------------------------------------------------------
(* The writes of the methods *)

LEMMA BasicWrites ==
  /\ \A c \in Candidates, known \in Moments : CandidateWrite(c, known) \in Writes
  /\ \A s \in Signals, c \in Candidates, event, known \in Moments :
       SignalWrite(s, c, event, known) \in Writes
  /\ \A k \in Evidences, about \in Signals \cup {None}, event, known \in Moments :
       EvidenceWrite(k, about, event, known) \in Writes
BY DEF CandidateWrite, SignalWrite, EvidenceWrite, Write, Writes, Tables, Basics, Ids, Contents

LEMMA DecisionWrites ==
  \A d \in Decisions, c \in Candidates, s \in Signals, k \in Evidences \cup {None},
     known \in Moments, status \in {"buy", "skip"} :
       DecisionWrite(d, c, s, k, known, status) \in Writes
BY DEF DecisionWrite, Write, Writes, Tables, Basics, Ids, Contents

LEMMA TradeWrites ==
  /\ \A b \in Buys, d \in Decisions, c \in Candidates, s \in Signals, known \in Moments :
       BuyWrite(b, d, c, s, known) \in Writes
  /\ \A b \in Buys, known \in Moments :
       ObservationWrite(b, known) \in Writes /\ SightingWrite(b, known) \in Writes
BY DEF BuyWrite, ObservationWrite, SightingWrite, Write, Writes, Tables, Basics, Ids, Contents

\* An event is not after the moment it was known.
LEMMA EventMoment ==
  ASSUME NEW known \in Moments, NEW event \in 1..known
  PROVE  event \in Moments
BY ClockAssumption DEF Moments

LEMMA CandidateBundle ==
  ASSUME TablesInv, RecordCandidateWithSignal
  PROVE  TablesInv'
<1>1. PICK c \in Candidates, s \in Signals, since \in Moments, known \in Moments :
        \E event \in 1..known :
          Begin(<<CandidateWrite(c, since), SignalWrite(s, c, event, known)>>)
  BY DEF RecordCandidateWithSignal
<1>2. PICK event \in 1..known :
        Begin(<<CandidateWrite(c, since), SignalWrite(s, c, event, known)>>)
  BY <1>1
<1> DEFINE writes == <<CandidateWrite(c, since), SignalWrite(s, c, event, known)>>
<1>3. writes \in Seq(Writes)
  BY BasicWrites, EventMoment
<1>4. Len(writes) = 2 /\ writes[1].table = "candidates" /\ writes[2].table = "signals"
  BY DEF CandidateWrite, SignalWrite, Write
<1> HIDE DEF writes
<1>5. Orderly(writes) /\ Followed(writes)
  BY <1>4 DEF Orderly, Followed
<1> QED BY <1>2, <1>3, <1>5, BeginTables DEF writes

LEMMA BuyBundle ==
  ASSUME TablesInv, CommitSimulatedBuy
  PROVE  TablesInv'
<1>1. PICK b \in Buys, d \in Decisions, c \in Candidates, s \in Signals,
           k \in Evidences \cup {None}, decided \in Moments, executed \in Moments :
        Begin(<<DecisionWrite(d, c, s, k, decided, "buy"),
                BuyWrite(b, d, c, s, executed),
                ObservationWrite(b, executed),
                SightingWrite(b, executed)>>)
  BY DEF CommitSimulatedBuy
<1> DEFINE writes == <<DecisionWrite(d, c, s, k, decided, "buy"),
                       BuyWrite(b, d, c, s, executed),
                       ObservationWrite(b, executed),
                       SightingWrite(b, executed)>>
<1>2. writes \in Seq(Writes)
  BY DecisionWrites, TradeWrites
<1>3. /\ Len(writes) = 4
      /\ writes[1].table = "decisions" /\ writes[2].table = "buys"
      /\ writes[3].table = "observations" /\ writes[4].table = "sightings"
      /\ writes[2].id = b /\ writes[3].id = b /\ writes[4].id = b
  BY DEF DecisionWrite, BuyWrite, ObservationWrite, SightingWrite, Write
<1> HIDE DEF writes
<1>4. Orderly(writes)
  BY <1>3 DEF Orderly, Basics
<1>5. Followed(writes)
  BY <1>3 DEF Followed
<1> QED BY <1>1, <1>2, <1>4, <1>5, BeginTables DEF writes

LEMMA TablesInvInit == Init => TablesInv
<1> SUFFICES ASSUME Init PROVE TablesInv
  OBVIOUS
<1>1. rows = {} /\ txn = NoTxn
  BY DEF Init
<1>2. Sound(rows) /\ Stand(rows) /\ BuyIsWhole
  BY <1>1 DEF Sound, RowsTyped, OneRowEach, Grounded, Backed, Referred, Stand, BuyIsWhole, In
<1> QED BY <1>1, <1>2, NothingOpen

LEMMA TablesInvStep == Inv /\ TablesInv /\ [Next]_ledgerVars => TablesInv'
<1> SUFFICES ASSUME Inv, TablesInv, [Next]_ledgerVars PROVE TablesInv'
  OBVIOUS
<1>1. CASE ClockStep
  BY <1>1, SameTables DEF ClockStep
<1>2. CASE RecordCandidate
  <2>1. PICK c \in Candidates, known \in Moments : Record(CandidateWrite(c, known))
    BY <1>2 DEF RecordCandidate
  <2>2. CandidateWrite(c, known).table \in Basics
    BY DEF CandidateWrite, Write, Basics
  <2> QED BY <2>1, <2>2, BasicWrites, RecordTables
<1>3. CASE RecordCurrentSignal
  <2>1. PICK s \in Signals, c \in Candidates, known \in Moments :
          \E event \in 1..known : Record(SignalWrite(s, c, event, known))
    BY <1>3 DEF RecordCurrentSignal
  <2>2. PICK event \in 1..known : Record(SignalWrite(s, c, event, known))
    BY <2>1
  <2>3. SignalWrite(s, c, event, known).table \in Basics
    BY DEF SignalWrite, Write, Basics
  <2> QED BY <2>2, <2>3, BasicWrites, EventMoment, RecordTables
<1>4. CASE RecordKolEvidence
  <2>1. PICK k \in Evidences, about \in Signals \cup {None}, known \in Moments :
          \E event \in 1..known : Record(EvidenceWrite(k, about, event, known))
    BY <1>4 DEF RecordKolEvidence
  <2>2. PICK event \in 1..known : Record(EvidenceWrite(k, about, event, known))
    BY <2>1
  <2>3. EvidenceWrite(k, about, event, known).table \in Basics
    BY DEF EvidenceWrite, Write, Basics
  <2> QED BY <2>2, <2>3, BasicWrites, EventMoment, RecordTables
<1>5. CASE RecordEntryDecision
  <2>1. PICK d \in Decisions, c \in Candidates, s \in Signals, k \in Evidences \cup {None},
             known \in Moments, status \in {"buy", "skip"} :
               Record(DecisionWrite(d, c, s, k, known, status))
    BY <1>5 DEF RecordEntryDecision
  <2>2. DecisionWrite(d, c, s, k, known, status).table = "decisions"
    BY DEF DecisionWrite, Write
  <2> QED BY <2>1, <2>2, DecisionWrites, RecordTables
<1>6. CASE RecordCandidateWithSignal
  BY <1>6, CandidateBundle
<1>7. CASE CommitSimulatedBuy
  BY <1>7, BuyBundle
<1>8. CASE Nested
  BY <1>8, NestedTables
<1>9. CASE Commit
  BY <1>9, CommitTables
<1>10. CASE Abort
  BY <1>10, AbortTables
<1>11. CASE UNCHANGED ledgerVars
  BY <1>11, SameTables DEF ledgerVars
<1> QED
  BY <1>1, <1>2, <1>3, <1>4, <1>5, <1>6, <1>7, <1>8, <1>9, <1>10, <1>11 DEF Next

LEMMA SpecTables == Spec => []TablesInv
  BY SpecInv, TablesInvInit, TablesInvStep, PTL DEF Spec

-----------------------------------------------------------------------------

\* In every behaviour a decision stays justified by the ledger as of the
\* moment it was taken, once its commit has reached that moment.
THEOREM SpecDecisionStands == Spec => []DecisionStands
<1>1. TablesInv => DecisionStands
  BY DEF TablesInv, Stand, DecisionStands
<1> QED BY <1>1, SpecTables, PTL

\* In every behaviour, however bundles end, no BUY is without its decision,
\* its entry block and the sighting of that block as the head.
THEOREM SpecBuyIsWhole == Spec => []BuyIsWhole
<1>1. TablesInv => BuyIsWhole
  BY DEF TablesInv
<1> QED BY <1>1, SpecTables, PTL

\* In every behaviour the evidence of a decision was known, and committed by
\* number and by time, before the signal it was taken of.
THEOREM SpecEvidenceFirst == Spec => []EvidenceFirst
<1>1. ASSUME Inv, TablesInv,
             NEW d \in In(rows, "decisions"),
             NEW k \in Under(rows, "evidence", d.is.evidence),
             NEW s \in Under(rows, "signals", d.is.signal)
      PROVE  k.at < s.at /\ k.is.known < s.is.known
  <2>1. PICK s0 \in Under(rows, "signals", d.is.signal) :
          \/ d.is.evidence = None
          \/ \E k0 \in Under(rows, "evidence", d.is.evidence) :
               k0.seq < s0.seq /\ k0.is.known < s0.is.known
    BY <1>1 DEF TablesInv, Sound, Grounded
  <2>2. k \in rows /\ k.table = "evidence" /\ k.id = d.is.evidence
    BY DEF Under
  <2>3. d.is.evidence # None
    BY <1>1, <2>2 DEF TablesInv, Sound, RowsTyped
  <2>4. PICK k0 \in Under(rows, "evidence", d.is.evidence) :
          k0.seq < s0.seq /\ k0.is.known < s0.is.known
    BY <2>1, <2>3
  <2>5. k0 = k /\ s0 = s
    BY <1>1 DEF TablesInv, Sound, OneRowEach, Under
  <2>6. s \in rows /\ k.seq < s.seq /\ k.is.known < s.is.known
    BY <2>4, <2>5 DEF Under
  <2> QED BY <1>1, <2>2, <2>6 DEF Inv, RowsInv, CommitOrder
<1>2. Inv /\ TablesInv => EvidenceFirst
  BY <1>1 DEF EvidenceFirst
<1> QED BY <1>2, SpecInv, SpecTables, PTL
=============================================================================
