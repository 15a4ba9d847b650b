--------------------------- MODULE JobTableProofs ---------------------------
(***************************************************************************)
(* What the statements of JobTable keep true of a row, for every value of  *)
(* the constants.  The proofs about the state machines built on JobTable   *)
(* cite these lemmas.                                                      *)
(***************************************************************************)
EXTENDS JobTable, TLAPS

-----------------------------------------------------------------------------
(* What holds of every row *)

\* What holds of every row: RowsPassChecks, NeverStranded and TimesCausal, and
\* that a row not stored yet is blank and a stored one complete.
RowInv(row) ==
  /\ row.status = "absent" => row = NoRow
  /\ row.status # "absent" => row.document \in Documents /\ row.max \in Limits
  /\ row.attempts <= row.max
  /\ row.status = "pending" => row.attempts < row.max
  /\ (row.status = "leased") <=>
       (row.owner # None /\ row.lease # None /\ row.expires # None)
  /\ row.status # "leased" => row.owner = None /\ row.lease = None /\ row.expires = None
  /\ (row.status \in Terminal) <=> (row.completed # None)
  /\ row.created <= row.available
  /\ row.status = "leased" => row.created + Lease <= row.expires
  /\ row.status \in Terminal => row.created <= row.completed

-----------------------------------------------------------------------------
(* What each statement does to one row *)

\* What the proofs use of the constants.
LEMMA ConstantFacts ==
  /\ Lease \in Nat /\ Lease > 0
  /\ RetryDelay \in Nat
  /\ \A limit \in Limits : limit \in Nat /\ limit > 0
  /\ \A priority \in Priorities : priority \in 0..100
  /\ None \notin Nat /\ None \notin Documents /\ None \notin Owners
BY TableAssumption DEF TableAssumption

\* The numeric columns of a row are numbers.
LEMMA RowNumbers ==
  ASSUME NEW row \in Row
  PROVE  /\ row.attempts \in Nat /\ row.max \in Nat
         /\ row.available \in Nat /\ row.created \in Nat
         /\ row.lease \in Nat \cup {None}
         /\ row.expires \in Nat \cup {None}
         /\ row.completed \in Nat \cup {None}
<1>1. row.max \in Limits \cup {0}
  BY DEF Row
<1>2. row.max \in Nat
  BY <1>1, ConstantFacts
<1> QED BY <1>2 DEF Row

\* Inserting a job makes a sound row.
LEMMA NewRowInv ==
  ASSUME NEW document \in Documents, NEW priority \in Priorities,
         NEW limit \in Limits, NEW now \in Nat
  PROVE  /\ NewRow(document, priority, limit, now) \in Row
         /\ RowInv(NewRow(document, priority, limit, now))
         /\ NewRow(document, priority, limit, now).created = now
BY ConstantFacts DEF NewRow, NoRow, Row, RowInv, Status, Errors, Terminal

\* The fields of an updated row, one lemma for each statement.
LEMMA UnleasedFields ==
  ASSUME NEW row \in Row
  PROVE  /\ Unleased(row) \in Row
         /\ Unleased(row).owner = None
         /\ Unleased(row).lease = None
         /\ Unleased(row).expires = None
         /\ \A f \in {"status", "document", "priority", "attempts", "max", "available",
                      "created", "completed", "error"} : Unleased(row)[f] = row[f]
BY DEF Unleased, Row

\* Recovering an expired lease keeps the row sound, its content and creation,
\* and never invents a lease.
LEMMA RecoveredRowInv ==
  ASSUME NEW row \in Row, RowInv(row), NEW now \in Nat
  PROVE  /\ RecoveredRow(row, now) \in Row
         /\ RowInv(RecoveredRow(row, now))
         /\ RecoveredRow(row, now).created = row.created
         /\ RecoveredRow(row, now).document = row.document
         /\ RecoveredRow(row, now).attempts = row.attempts
         /\ RecoveredRow(row, now).max = row.max
         /\ RecoveredRow(row, now).status = "absent" <=> row.status = "absent"
         /\ ~Expired(row, now) => RecoveredRow(row, now) = row
         /\ Expired(row, now) => RecoveredRow(row, now).status # "leased"
<1> DEFINE new == RecoveredRow(row, now)
           free == Unleased(row)
<1>0. free \in Row
  BY UnleasedFields
<1>1. CASE ~Expired(row, now)
  BY <1>1 DEF RecoveredRow
<1>2. CASE Expired(row, now) /\ row.attempts >= row.max
  <2>1. new = [free EXCEPT !.status = "failed", !.completed = now,
                           !.error = "LeaseExpired"]
    BY <1>2 DEF RecoveredRow
  <2> HIDE DEF new, free
  <2>2. /\ new \in Row
        /\ new.status = "failed" /\ new.completed = now
        /\ new.created = free.created /\ new.document = free.document
        /\ new.attempts = free.attempts /\ new.max = free.max
        /\ new.available = free.available /\ new.owner = free.owner
        /\ new.lease = free.lease /\ new.expires = free.expires
    BY <2>1, <1>0, ConstantFacts, RowNumbers DEF Row, Status, Errors
  <2> QED
    BY <2>2, <1>2, UnleasedFields, RowNumbers, ConstantFacts
     DEF free, new, Expired, RowInv, Terminal
<1>3. CASE Expired(row, now) /\ row.attempts < row.max
  <2>1. new = [free EXCEPT !.status = "pending", !.available = now,
                           !.error = "LeaseExpired"]
    BY <1>3, RowNumbers DEF RecoveredRow
  <2> HIDE DEF new, free
  <2>2. /\ new \in Row
        /\ new.status = "pending" /\ new.available = now
        /\ new.created = free.created /\ new.document = free.document
        /\ new.attempts = free.attempts /\ new.max = free.max
        /\ new.completed = free.completed /\ new.owner = free.owner
        /\ new.lease = free.lease /\ new.expires = free.expires
    BY <2>1, <1>0, ConstantFacts, RowNumbers DEF Row, Status, Errors
  <2> QED
    BY <2>2, <1>3, UnleasedFields, RowNumbers, ConstantFacts
     DEF free, new, Expired, RowInv, Terminal
<1> QED BY <1>1, <1>2, <1>3, RowNumbers

\* Leasing a claimable row counts the attempt and keeps the row sound.
LEMMA LeasedRowInv ==
  ASSUME NEW row \in Row, RowInv(row), NEW now \in Nat, Claimable(row, now),
         NEW owner \in Owners, NEW lease \in Nat
  PROVE  /\ LeasedRow(row, owner, lease, now) \in Row
         /\ RowInv(LeasedRow(row, owner, lease, now))
         /\ LeasedRow(row, owner, lease, now).created = row.created
         /\ LeasedRow(row, owner, lease, now).document = row.document
         /\ LeasedRow(row, owner, lease, now).status = "leased"
         /\ LeasedRow(row, owner, lease, now).lease = lease
         /\ LeasedRow(row, owner, lease, now).max = row.max
         /\ LeasedRow(row, owner, lease, now).attempts = row.attempts + 1
<1> DEFINE new == LeasedRow(row, owner, lease, now)
<1>1. new = [row EXCEPT !.status = "leased", !.attempts = row.attempts + 1,
                        !.owner = owner, !.lease = lease,
                        !.expires = now + Lease, !.error = "none"]
  BY DEF LeasedRow
<1> HIDE DEF new
<1>2. now + Lease \in Nat /\ row.attempts + 1 \in Nat
  BY ConstantFacts, RowNumbers
<1>3. /\ new \in Row
      /\ new.status = "leased" /\ new.attempts = row.attempts + 1
      /\ new.owner = owner /\ new.lease = lease /\ new.expires = now + Lease
      /\ new.created = row.created /\ new.document = row.document
      /\ new.max = row.max /\ new.available = row.available
      /\ new.completed = row.completed
  BY <1>1, <1>2 DEF Row, Status, Errors
<1> QED
  BY <1>3, RowNumbers, ConstantFacts DEF new, Claimable, RowInv, Terminal

\* Acknowledging a leased row, at a time after its creation, keeps it sound.
LEMMA DoneRowInv ==
  ASSUME NEW row \in Row, RowInv(row), row.status = "leased",
         NEW now \in Nat, row.created <= now
  PROVE  /\ DoneRow(row, now) \in Row
         /\ RowInv(DoneRow(row, now))
         /\ DoneRow(row, now).created = row.created
         /\ DoneRow(row, now).document = row.document
         /\ DoneRow(row, now).status = "done"
         /\ DoneRow(row, now).attempts = row.attempts
         /\ DoneRow(row, now).max = row.max
<1> DEFINE new == DoneRow(row, now)
           free == Unleased(row)
<1>0. free \in Row
  BY UnleasedFields
<1>1. new = [free EXCEPT !.status = "done", !.error = "none", !.completed = now]
  BY DEF DoneRow
<1> HIDE DEF new, free
<1>2. /\ new \in Row
      /\ new.status = "done" /\ new.completed = now
      /\ new.created = free.created /\ new.document = free.document
      /\ new.attempts = free.attempts /\ new.max = free.max
      /\ new.available = free.available /\ new.owner = free.owner
      /\ new.lease = free.lease /\ new.expires = free.expires
  BY <1>1, <1>0, ConstantFacts, RowNumbers DEF Row, Status, Errors
<1> QED
  BY <1>2, UnleasedFields, RowNumbers, ConstantFacts
     DEF free, new, RowInv, Terminal

\* So does failing it, whether or not it is to be tried again.
LEMMA FailedRowInv ==
  ASSUME NEW row \in Row, RowInv(row), row.status = "leased",
         NEW now \in Nat, row.created <= now, NEW retry \in BOOLEAN
  PROVE  /\ FailedRow(row, retry, now) \in Row
         /\ RowInv(FailedRow(row, retry, now))
         /\ FailedRow(row, retry, now).created = row.created
         /\ FailedRow(row, retry, now).document = row.document
         /\ FailedRow(row, retry, now).status \in {"pending", "failed"}
         /\ FailedRow(row, retry, now).attempts = row.attempts
         /\ FailedRow(row, retry, now).max = row.max
<1> DEFINE new == FailedRow(row, retry, now)
           free == Unleased(row)
           ready == now + RetryDelay
<1>0. free \in Row /\ ready \in Nat
  BY UnleasedFields, ConstantFacts
<1>1. CASE ~retry \/ row.attempts >= row.max
  <2>1. new = [free EXCEPT !.status = "failed", !.available = ready,
                           !.error = "Exception", !.completed = now]
    BY <1>1 DEF FailedRow
  <2> HIDE DEF new, free, ready
  <2>2. /\ new \in Row
        /\ new.status = "failed" /\ new.completed = now
        /\ new.available = ready /\ new.created = free.created
        /\ new.document = free.document
        /\ new.attempts = free.attempts /\ new.max = free.max
        /\ new.owner = free.owner /\ new.lease = free.lease
        /\ new.expires = free.expires
    BY <2>1, <1>0 DEF Row, Status, Errors
  <2> QED
    BY <2>2, UnleasedFields, RowNumbers, ConstantFacts
       DEF free, new, ready, RowInv, Terminal
<1>2. CASE retry /\ ~(row.attempts >= row.max)
  <2>0. row.attempts < row.max
    BY <1>2, RowNumbers
  <2>1. new = [free EXCEPT !.status = "pending", !.available = ready,
                           !.error = "Exception", !.completed = None]
    BY <1>2 DEF FailedRow
  <2> HIDE DEF new, free, ready
  <2>2. /\ new \in Row
        /\ new.status = "pending" /\ new.completed = None
        /\ new.available = ready /\ new.created = free.created
        /\ new.document = free.document
        /\ new.attempts = free.attempts /\ new.max = free.max
        /\ new.owner = free.owner /\ new.lease = free.lease
        /\ new.expires = free.expires
    BY <2>1, <1>0 DEF Row, Status, Errors
  <2> QED
    BY <2>2, <2>0, UnleasedFields, RowNumbers, ConstantFacts
       DEF free, new, ready, RowInv, Terminal
<1> QED BY <1>1, <1>2

\* So does observing a pending item again, or giving it another priority.
LEMMA RefreshedInv ==
  ASSUME NEW row \in Row, RowInv(row), row.status = "pending",
         NEW document \in Documents, NEW priority \in Priorities
  PROVE  /\ Refreshed(row, document, priority) \in Row
         /\ RowInv(Refreshed(row, document, priority))
         /\ Refreshed(row, document, priority).created = row.created
         /\ Refreshed(row, document, priority).document = document
         /\ Refreshed(row, document, priority).status = "pending"
         /\ Refreshed(row, document, priority).lease = row.lease
         /\ Refreshed(row, document, priority).attempts = row.attempts
         /\ Refreshed(row, document, priority).max = row.max
<1> DEFINE new == Refreshed(row, document, priority)
           least == IF row.priority <= priority THEN row.priority ELSE priority
<1>1. new = [row EXCEPT !.document = document, !.priority = least]
  BY DEF Refreshed
<1>2. least \in 0..100
  BY ConstantFacts DEF Row
<1> HIDE DEF new, least
<1>3. /\ new \in Row
      /\ new.document = document
      /\ new.status = row.status /\ new.completed = row.completed
      /\ new.available = row.available /\ new.created = row.created
      /\ new.attempts = row.attempts /\ new.max = row.max
      /\ new.owner = row.owner /\ new.lease = row.lease
      /\ new.expires = row.expires
  BY <1>1, <1>2, ConstantFacts, RowNumbers DEF Row, Status, Errors
<1> QED
  BY <1>3, RowNumbers, ConstantFacts DEF new, RowInv, Terminal

LEMMA RepricedInv ==
  ASSUME NEW row \in Row, RowInv(row), row.status = "pending",
         NEW priority \in Priorities,
         NEW new, new = [row EXCEPT !.priority = priority]
  PROVE  /\ new \in Row
         /\ RowInv(new)
         /\ new.created = row.created
         /\ new.document = row.document
         /\ new.status = "pending"
         /\ new.lease = row.lease
         /\ new.attempts = row.attempts
         /\ new.max = row.max
<1>1. /\ new \in Row
      /\ new.document = row.document
      /\ new.status = row.status /\ new.completed = row.completed
      /\ new.available = row.available /\ new.created = row.created
      /\ new.attempts = row.attempts /\ new.max = row.max
      /\ new.owner = row.owner /\ new.lease = row.lease
      /\ new.expires = row.expires
  BY ConstantFacts, RowNumbers DEF Row, Status, Errors
<1> QED
  BY <1>1, RowNumbers, ConstantFacts DEF RowInv, Terminal

=============================================================================
