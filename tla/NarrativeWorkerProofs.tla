------------------------ MODULE NarrativeWorkerProofs ------------------------
(***************************************************************************)
(* Proofs about NarrativeWorker, for every number of processes and jobs:   *)
(* the variables keep their types, a job that is done has a package in the *)
(* store, and no job has more packages than it has been claimed.  The last *)
(* is not inductive by itself: the attempts that no package stands for     *)
(* must be enough for the threads that are still researching the job.      *)
(***************************************************************************)
EXTENDS NarrativeWorker, JobTableProofs, FiniteSetTheorems

\* The processes whose threads research the job.
Researching(j) == {s \in Services : thread[s] = "researching" /\ held[s].job = j}

\* A package that is about to be acknowledged is in the store.
StoredFirst ==
  \A s \in Services : thread[s] = "stored" => packages[held[s].job] > 0

\* A row that is not there has spent no attempt.
AbsentUnspent ==
  \A j \in Jobs : table[j].status = "absent" => table[j].attempts = 0

\* Every package and every research under way stands for an attempt of its own.
AttemptsCover ==
  \A j \in Jobs :
    /\ IsFiniteSet(Researching(j))
    /\ packages[j] + Cardinality(Researching(j)) <= table[j].attempts

IInv == TypeOK /\ StoredFirst /\ DoneIsStored /\ AbsentUnspent /\ AttemptsCover

\* What every statement but claim and ack does to a row: it spends no attempt,
\* and finishes and removes nothing.
QuietRow(old, new) ==
  /\ new \in Row
  /\ new.attempts = old.attempts
  /\ new.status = "done" => old.status = "done"
  /\ new.status = "absent" => old.status = "absent"

Quiet ==
  /\ table' \in [Jobs -> Row]
  /\ \A j \in Jobs : QuietRow(table[j], table'[j])

\* A step of the thread of s alone.
OthersStay(s) ==
  \A r \in Services \ {s} : thread'[r] = thread[r] /\ held'[r] = held[r]

-----------------------------------------------------------------------------
(* What the statements do to a row *)

LEMMA RecoveredQuiet ==
  ASSUME NEW row \in Row
  PROVE  QuietRow(row, RecoveredRow(row, 0))
<1> DEFINE new == RecoveredRow(row, 0)
           free == Unleased(row)
<1>0. free \in Row /\ free.attempts = row.attempts
  BY UnleasedFields
<1>1. CASE ~Expired(row, 0)
  BY <1>1 DEF RecoveredRow, QuietRow
<1>2. CASE Expired(row, 0) /\ row.attempts >= row.max
  <2>1. new = [free EXCEPT !.status = "failed", !.completed = 0, !.error = "LeaseExpired"]
    BY <1>2 DEF RecoveredRow
  <2> HIDE DEF new, free
  <2>2. QuietRow(row, new)
    BY <2>1, <1>0 DEF Row, Status, Errors, QuietRow
  <2> QED BY <2>2 DEF new
<1>3. CASE Expired(row, 0) /\ ~(row.attempts >= row.max)
  <2>1. new = [free EXCEPT !.status = "pending", !.available = 0, !.error = "LeaseExpired"]
    BY <1>3 DEF RecoveredRow
  <2> HIDE DEF new, free
  <2>2. QuietRow(row, new)
    BY <2>1, <1>0 DEF Row, Status, Errors, QuietRow
  <2> QED BY <2>2 DEF new
<1> QED BY <1>1, <1>2, <1>3

LEMMA FailedQuiet ==
  ASSUME NEW row \in Row
  PROVE  QuietRow(row, FailedRow(row, TRUE, 0))
<1> DEFINE new == FailedRow(row, TRUE, 0)
           free == Unleased(row)
           ready == 0 + RetryDelay
<1>0. free \in Row /\ free.attempts = row.attempts /\ ready \in Nat
  BY UnleasedFields, ConstantFacts
<1>1. CASE row.attempts >= row.max
  <2>1. new = [free EXCEPT !.status = "failed", !.available = ready,
                           !.error = "Exception", !.completed = 0]
    BY <1>1 DEF FailedRow
  <2> HIDE DEF new, free, ready
  <2>2. QuietRow(row, new)
    BY <2>1, <1>0 DEF Row, Status, Errors, QuietRow
  <2> QED BY <2>2 DEF new
<1>2. CASE ~(row.attempts >= row.max)
  <2>1. new = [free EXCEPT !.status = "pending", !.available = ready,
                           !.error = "Exception", !.completed = None]
    BY <1>2 DEF FailedRow
  <2> HIDE DEF new, free, ready
  <2>2. QuietRow(row, new)
    BY <2>1, <1>0 DEF Row, Status, Errors, QuietRow
  <2> QED BY <2>2 DEF new
<1> QED BY <1>1, <1>2

LEMMA DoneKeeps ==
  ASSUME NEW row \in Row
  PROVE  /\ DoneRow(row, 0) \in Row
         /\ DoneRow(row, 0).attempts = row.attempts
         /\ DoneRow(row, 0).status = "done"
<1> DEFINE new == DoneRow(row, 0)
           free == Unleased(row)
<1>0. free \in Row /\ free.attempts = row.attempts
  BY UnleasedFields
<1>1. new = [free EXCEPT !.status = "done", !.error = "none", !.completed = 0]
  BY DEF DoneRow
<1> HIDE DEF new, free
<1>2. new \in Row /\ new.attempts = free.attempts /\ new.status = "done"
  BY <1>0, <1>1 DEF Row, Status, Errors
<1> QED BY <1>0, <1>2 DEF new

LEMMA LeasedKeeps ==
  ASSUME NEW row \in Row, NEW lease \in Nat
  PROVE  /\ LeasedRow(row, Name, lease, 0) \in Row
         /\ LeasedRow(row, Name, lease, 0).attempts = row.attempts + 1
         /\ LeasedRow(row, Name, lease, 0).status = "leased"
<1> DEFINE until == 0 + Lease
           new == [row EXCEPT !.status = "leased", !.attempts = row.attempts + 1,
                              !.owner = Name, !.lease = lease, !.expires = until,
                              !.error = "none"]
<1>1. LeasedRow(row, Name, lease, 0) = new
  BY DEF LeasedRow
<1>2. until \in Nat /\ row.attempts + 1 \in Nat /\ Name \in Owners
  BY ConstantFacts, RowNumbers, WorkerAssumption
<1> HIDE DEF until
<1>3. new \in Row /\ new.attempts = row.attempts + 1 /\ new.status = "leased"
  BY <1>2 DEF Row, Status, Errors
<1> QED BY <1>1, <1>3

LEMMA SoonerQuiet ==
  ASSUME NEW row \in Row,
         NEW new, new = [row EXCEPT !.available = Sooner(@), !.expires = Sooner(@)]
  PROVE  QuietRow(row, new)
<1>1. Sooner(row.available) \in Nat /\ Sooner(row.expires) \in Nat \cup {None}
  BY RowNumbers, ConstantFacts DEF Sooner
<1> QED BY <1>1 DEF Row, QuietRow

LEMMA RepricedQuiet ==
  ASSUME NEW row \in Row, NEW priority \in Priorities,
         NEW new, new = [row EXCEPT !.priority = priority]
  PROVE  QuietRow(row, new)
BY ConstantFacts DEF Row, QuietRow

LEMMA RefreshedQuiet ==
  ASSUME NEW row \in Row, NEW document \in Documents, NEW priority \in Priorities
  PROVE  QuietRow(row, Refreshed(row, document, priority))
<1> DEFINE least == IF row.priority <= priority THEN row.priority ELSE priority
<1>1. least \in 0..100
  BY ConstantFacts DEF Row
<1> HIDE DEF least
<1>2. Refreshed(row, document, priority) = [row EXCEPT !.document = document, !.priority = least]
  BY DEF Refreshed, least
<1> QED BY <1>1, <1>2 DEF Row, QuietRow

-----------------------------------------------------------------------------
(* What the operations do to the table *)

LEMMA SameQuiet ==
  ASSUME TypeOK, table' = table
  PROVE  Quiet
BY DEF TypeOK, Quiet, QuietRow

LEMMA RecoveredTable ==
  ASSUME TypeOK
  PROVE  /\ Recovered(table, 0) \in [Jobs -> Row]
         /\ \A j \in Jobs : QuietRow(table[j], Recovered(table, 0)[j])
<1>1. \A j \in Jobs : QuietRow(table[j], RecoveredRow(table[j], 0))
  BY RecoveredQuiet DEF TypeOK
<1> QED BY <1>1 DEF Recovered, QuietRow

LEMMA TickQuiet ==
  ASSUME TypeOK, Tick
  PROVE  Quiet
<1> DEFINE New(j) == [table[j] EXCEPT !.available = Sooner(@), !.expires = Sooner(@)]
<1>1. table' = [j \in Jobs |-> New(j)]
  BY DEF Tick
<1>2. \A j \in Jobs : QuietRow(table[j], New(j))
  BY SoonerQuiet DEF TypeOK
<1> HIDE DEF New
<1> QED BY <1>1, <1>2 DEF Quiet, QuietRow

LEMMA ReprioritizedQuiet ==
  ASSUME TypeOK, NEW policy \in [Jobs -> Priorities], table' = Reprioritized(table, policy)
  PROVE  Quiet
<1> DEFINE New(j) == IF table[j].status = "pending"
                     THEN [table[j] EXCEPT !.priority = policy[j]] ELSE table[j]
<1>1. table' = [j \in Jobs |-> New(j)]
  BY DEF Reprioritized
<1>2. ASSUME NEW j \in Jobs PROVE QuietRow(table[j], New(j))
  <2>1. table[j] \in Row /\ policy[j] \in Priorities
    BY DEF TypeOK
  <2> QED BY <2>1, RepricedQuiet DEF QuietRow
<1> HIDE DEF New
<1> QED BY <1>1, <1>2 DEF Quiet, QuietRow

LEMMA EnqueuedQuiet ==
  ASSUME TypeOK, AbsentUnspent, NEW j \in Jobs, NEW document \in Documents,
         NEW priority \in Priorities, NEW limit \in Limits,
         table' = Enqueued(table, j, document, priority, limit, 0)
  PROVE  Quiet
<1>1. CASE table[j].status = "absent"
  <2> DEFINE new == NewRow(document, priority, limit, 0)
  <2>1. new \in Row /\ new.attempts = 0 /\ new.status = "pending"
    BY ConstantFacts DEF NewRow, Row, Status, Errors
  <2>2. table' = [table EXCEPT ![j] = new]
    BY <1>1 DEF Enqueued
  <2> HIDE DEF new
  <2> QED BY <1>1, <2>1, <2>2 DEF TypeOK, AbsentUnspent, Quiet, QuietRow
<1>2. CASE table[j].status = "pending" /\ ~Conflicts(table, j, document)
  <2> DEFINE new == Refreshed(table[j], document, priority)
  <2>1. QuietRow(table[j], new)
    BY RefreshedQuiet DEF TypeOK
  <2>2. table' = [table EXCEPT ![j] = new]
    BY <1>2 DEF Enqueued
  <2> HIDE DEF new
  <2> QED BY <2>1, <2>2 DEF TypeOK, Quiet, QuietRow
<1>3. CASE /\ table[j].status # "absent"
           /\ ~(table[j].status = "pending" /\ ~Conflicts(table, j, document))
  BY <1>3, SameQuiet DEF Enqueued
<1> QED BY <1>1, <1>2, <1>3

-----------------------------------------------------------------------------
(* Steps *)

Working == {"researching", "stored", "failing"}

ThreadsTyped ==
  /\ phase \in [Services -> Phase]
  /\ thread \in [Services -> Thread]
  /\ held \in [Services -> Ticket \cup {NoTicket}]
  /\ \A s \in Services : held[s] # NoTicket <=> thread[s] \in Working

LEMMA TypeParts == TypeOK <=> table \in [Jobs -> Row] /\ packages \in [Jobs -> Nat] /\ ThreadsTyped
BY DEF TypeOK, ThreadsTyped, Working

\* A thread goes on with its job, or to a place where it has none.
LEMMA ThreadGoes ==
  ASSUME ThreadsTyped, NEW s \in Services, NEW place \in Thread, Goes(s, place),
         phase' \in [Services -> Phase],
         \/ held' = held /\ (thread[s] \in Working <=> place \in Working)
         \/ Forgets(s) /\ place \notin Working
  PROVE  /\ ThreadsTyped'
         /\ thread'[s] = place
         /\ place \in Working => held'[s] = held[s]
         /\ OthersStay(s)
<1>1. thread' = [thread EXCEPT ![s] = place]
  BY DEF Goes
<1>2. CASE held' = held /\ (thread[s] \in Working <=> place \in Working)
  BY <1>1, <1>2 DEF ThreadsTyped, OthersStay
<1>3. CASE Forgets(s) /\ place \notin Working
  BY <1>1, <1>3 DEF Forgets, ThreadsTyped, OthersStay
<1> QED BY <1>2, <1>3

\* A thread with a ticket works on a job.
LEMMA WorkingHolds ==
  ASSUME TypeOK, NEW s \in Services, thread[s] \in Working
  PROVE  held[s] \in Ticket /\ held[s].job \in Jobs
BY DEF TypeOK, Working, Ticket

LEMMA CoverNumbers ==
  ASSUME TypeOK, AttemptsCover, NEW j \in Jobs
  PROVE  packages[j] \in Nat /\ table[j].attempts \in Nat /\ Cardinality(Researching(j)) \in Nat
<1>1. table[j] \in Row
  BY DEF TypeOK
<1> QED BY <1>1, RowNumbers, FS_CardinalityType DEF TypeOK, AttemptsCover

\* A statement that spends no attempt and finishes nothing, in a step that takes
\* no thread to the research or to the settlement of a job.
LEMMA QuietStep ==
  ASSUME IInv, Quiet, packages' = packages, ThreadsTyped',
         \A s \in Services :
           \/ thread'[s] = thread[s] /\ held'[s] = held[s]
           \/ thread'[s] \notin {"researching", "stored"}
  PROVE  IInv'
<1>1. TypeOK'
  BY TypeParts DEF IInv, Quiet, TypeOK, ThreadsTyped, Working
<1>2. StoredFirst'
  BY DEF IInv, StoredFirst
<1>3. DoneIsStored'
  BY DEF IInv, DoneIsStored, Quiet, QuietRow
<1>4. AbsentUnspent'
  BY DEF IInv, AbsentUnspent, Quiet, QuietRow
<1>5. AttemptsCover'
  <2> SUFFICES ASSUME NEW j \in Jobs
               PROVE  /\ IsFiniteSet(Researching(j)')
                      /\ packages'[j] + Cardinality(Researching(j)') <= table'[j].attempts
    BY DEF AttemptsCover
  <2>1. Researching(j)' \subseteq Researching(j)
    BY DEF Researching
  <2>2. /\ IsFiniteSet(Researching(j)')
        /\ Cardinality(Researching(j)') <= Cardinality(Researching(j))
        /\ Cardinality(Researching(j)') \in Nat
    BY <2>1, FS_Subset, FS_CardinalityType DEF IInv, AttemptsCover
  <2>3. packages'[j] = packages[j] /\ table'[j].attempts = table[j].attempts
    BY DEF Quiet, QuietRow
  <2>4. packages[j] + Cardinality(Researching(j)) <= table[j].attempts
    BY DEF IInv, AttemptsCover
  <2> QED BY <2>2, <2>3, <2>4, CoverNumbers DEF IInv
<1> QED BY <1>1, <1>2, <1>3, <1>4, <1>5 DEF IInv

\* A claim spends an attempt and starts one research.
LEMMA ClaimJobStep ==
  ASSUME IInv, NEW s \in Services, NEW j \in Jobs, ClaimJob(s, j)
  PROVE  IInv'
<1> DEFINE recovered == Recovered(table, 0)
           lease == recovered[j].attempts + 1
           row == LeasedRow(recovered[j], Name, lease, 0)
           ticket == [job |-> j, lease |-> lease]
<1>1. /\ thread[s] = "claiming"
      /\ table' = [recovered EXCEPT ![j] = row]
      /\ held' = [held EXCEPT ![s] = ticket]
      /\ thread' = [thread EXCEPT ![s] = "researching"]
      /\ packages' = packages /\ phase' = phase
  BY DEF ClaimJob, Goes
<1>2. /\ recovered \in [Jobs -> Row]
      /\ \A k \in Jobs : QuietRow(table[k], recovered[k])
  BY RecoveredTable DEF IInv
<1> HIDE DEF recovered
<1>3. recovered[j] \in Row /\ lease \in Nat /\ recovered[j].attempts = table[j].attempts
  BY <1>2, RowNumbers DEF QuietRow
<1>4. row \in Row /\ row.attempts = table[j].attempts + 1 /\ row.status = "leased"
  BY <1>3, LeasedKeeps
<1>5. ticket \in Ticket /\ ticket.job = j /\ ticket # NoTicket
  BY <1>3, WorkerAssumption DEF Ticket, NoTicket
<1> HIDE DEF row, ticket, lease
<1>6. TypeOK'
  BY <1>1, <1>2, <1>4, <1>5 DEF IInv, TypeOK, Thread
<1>7. StoredFirst'
  BY <1>1 DEF IInv, StoredFirst, TypeOK
<1>8. DoneIsStored'
  BY <1>1, <1>2, <1>4 DEF IInv, DoneIsStored, QuietRow
<1>9. AbsentUnspent'
  BY <1>1, <1>2, <1>4 DEF IInv, AbsentUnspent, QuietRow
<1>10. AttemptsCover'
  <2> SUFFICES ASSUME NEW k \in Jobs
               PROVE  /\ IsFiniteSet(Researching(k)')
                      /\ packages'[k] + Cardinality(Researching(k)') <= table'[k].attempts
    BY DEF AttemptsCover
  <2>1. /\ IsFiniteSet(Researching(k))
        /\ packages[k] + Cardinality(Researching(k)) <= table[k].attempts
    BY DEF IInv, AttemptsCover
  <2>2. CASE k = j
    <3>1. Researching(k)' = Researching(k) \cup {s}
      BY <1>1, <1>5, <2>2 DEF Researching, IInv, TypeOK
    <3>2. s \notin Researching(k)
      BY <1>1 DEF Researching
    <3>3. /\ IsFiniteSet(Researching(k)')
          /\ Cardinality(Researching(k)') = Cardinality(Researching(k)) + 1
      BY <2>1, <3>1, <3>2, FS_AddElement
    <3>4. table'[k].attempts = table[k].attempts + 1
      BY <1>1, <1>2, <1>4, <2>2
    <3> QED BY <1>1, <2>1, <3>3, <3>4, CoverNumbers DEF IInv
  <2>3. CASE k # j
    <3>1. Researching(k)' = Researching(k)
      BY <1>1, <1>5, <2>3 DEF Researching, IInv, TypeOK
    <3>2. table'[k].attempts = table[k].attempts
      BY <1>1, <1>2, <2>3 DEF QuietRow
    <3> QED BY <1>1, <2>1, <3>1, <3>2
  <2> QED BY <2>2, <2>3
<1> QED BY <1>6, <1>7, <1>8, <1>9, <1>10 DEF IInv

\* A package is stored for a research that ends with it.
LEMMA StoreStep ==
  ASSUME IInv, NEW s \in Services, Store(s)
  PROVE  IInv'
<1> DEFINE j == held[s].job
           more == packages[j] + 1
<1>1. /\ thread[s] = "researching"
      /\ packages' = [packages EXCEPT ![j] = more]
      /\ table' = table /\ phase' = phase /\ held' = held
  BY DEF Store
<1>2. PICK place \in {"stored", "failing"} : thread' = [thread EXCEPT ![s] = place]
  BY DEF Store, Goes
<1>3. j \in Jobs /\ more \in Nat /\ more > 0 /\ packages[j] \in Nat
  BY <1>1, WorkingHolds DEF IInv, TypeOK, Working
<1>4. \A k \in Jobs : packages'[k] \in Nat /\ (packages[k] > 0 => packages'[k] > 0)
  BY <1>1, <1>3 DEF IInv, TypeOK
<1>5. TypeOK'
  BY <1>1, <1>2, <1>3 DEF IInv, TypeOK, Thread
<1>6. StoredFirst'
  <2> SUFFICES ASSUME NEW r \in Services, thread'[r] = "stored"
               PROVE  packages'[held[r].job] > 0
    BY <1>1 DEF StoredFirst
  <2>1. CASE r = s
    BY <1>1, <1>3, <2>1 DEF IInv, TypeOK
  <2>2. CASE r # s
    <3>1. thread[r] = "stored"
      BY <1>2, <2>2 DEF IInv, TypeOK
    <3>2. held[r].job \in Jobs
      BY <3>1, WorkingHolds DEF IInv, Working
    <3> QED BY <1>4, <3>1, <3>2 DEF IInv, StoredFirst
  <2> QED BY <2>1, <2>2
<1>7. DoneIsStored'
  BY <1>1, <1>4 DEF IInv, DoneIsStored
<1>8. AbsentUnspent'
  BY <1>1 DEF IInv, AbsentUnspent
<1>9. AttemptsCover'
  <2> SUFFICES ASSUME NEW k \in Jobs
               PROVE  /\ IsFiniteSet(Researching(k)')
                      /\ packages'[k] + Cardinality(Researching(k)') <= table'[k].attempts
    BY DEF AttemptsCover
  <2>1. /\ IsFiniteSet(Researching(k))
        /\ packages[k] + Cardinality(Researching(k)) <= table[k].attempts
    BY DEF IInv, AttemptsCover
  <2>2. Researching(k)' = Researching(k) \ {s}
    BY <1>1, <1>2 DEF Researching, IInv, TypeOK
  <2>3. /\ IsFiniteSet(Researching(k) \ {s})
        /\ Cardinality(Researching(k) \ {s}) =
             IF s \in Researching(k) THEN Cardinality(Researching(k)) - 1
             ELSE Cardinality(Researching(k))
    BY <2>1, FS_RemoveElement
  <2>4. s \in Researching(k) <=> k = j
    BY <1>1 DEF Researching
  <2>5. packages'[k] = IF k = j THEN packages[k] + 1 ELSE packages[k]
    BY <1>1, <1>3 DEF IInv, TypeOK
  <2> HIDE DEF j, more
  <2> QED BY <1>1, <2>1, <2>2, <2>3, <2>4, <2>5, CoverNumbers DEF IInv
<1> QED BY <1>5, <1>6, <1>7, <1>8, <1>9 DEF IInv

\* A job is finished by the thread whose package of it is stored.
LEMMA AckStep ==
  ASSUME IInv, NEW s \in Services, Ack(s)
  PROVE  IInv'
<1> DEFINE recovered == Recovered(table, 0)
           j == held[s].job
           row == DoneRow(table[j], 0)
           owns == Owns(recovered, j, Name, held[s].lease)
<1>1. /\ thread[s] = "stored" /\ Goes(s, "idle") /\ Forgets(s)
      /\ table' = IF owns THEN [recovered EXCEPT ![j] = row] ELSE table
      /\ packages' = packages /\ phase' = phase
  BY DEF Ack, Settle
<1>2. /\ ThreadsTyped'
      /\ thread'[s] = "idle"
      /\ OthersStay(s)
  BY <1>1, TypeParts, ThreadGoes DEF IInv, ThreadsTyped, Thread, Working
<1>3. j \in Jobs /\ packages[j] > 0
  BY <1>1, WorkingHolds DEF IInv, StoredFirst, Working
<1>4. CASE ~owns
  BY <1>1, <1>2, <1>4, SameQuiet, QuietStep DEF IInv, OthersStay
<1>5. CASE owns
  <2>1. /\ recovered \in [Jobs -> Row]
        /\ \A k \in Jobs : QuietRow(table[k], recovered[k])
    BY RecoveredTable DEF IInv
  <2>2. row \in Row /\ row.attempts = table[j].attempts /\ row.status = "done"
    BY <1>3, DoneKeeps DEF IInv, TypeOK
  <2>3. table' = [recovered EXCEPT ![j] = row]
    BY <1>1, <1>5
  <2> HIDE DEF recovered, row, j, owns
  <2>4. /\ table' \in [Jobs -> Row]
        /\ \A k \in Jobs : /\ table'[k].attempts = table[k].attempts
                           /\ table'[k].status = "done" => k = j \/ table[k].status = "done"
                           /\ table'[k].status = "absent" => table[k].status = "absent"
    BY <1>3, <2>1, <2>2, <2>3 DEF QuietRow
  <2>5. TypeOK'
    BY <1>1, <1>2, <2>4 DEF IInv, TypeOK, ThreadsTyped, Working
  <2>6. StoredFirst'
    BY <1>1, <1>2 DEF IInv, StoredFirst, OthersStay
  <2>7. DoneIsStored'
    BY <1>1, <1>3, <2>4 DEF IInv, DoneIsStored
  <2>8. AbsentUnspent'
    BY <2>4 DEF IInv, AbsentUnspent
  <2>9. AttemptsCover'
    <3>1. \A k \in Jobs : Researching(k)' = Researching(k)
      BY <1>1, <1>2 DEF Researching, OthersStay
    <3> QED BY <1>1, <2>4, <3>1 DEF IInv, AttemptsCover
  <2> QED BY <2>5, <2>6, <2>7, <2>8, <2>9 DEF IInv
<1> QED BY <1>4, <1>5

\* ClaimNothing, ResearchFails, Fail, QueueRaises and Loop.
LEMMA ThreadStep ==
  ASSUME IInv, NEW s \in Services,
         Loop(s) \/ ClaimNothing(s) \/ ResearchFails(s) \/ Fail(s) \/ QueueRaises(s)
  PROVE  IInv'
<1> DEFINE recovered == Recovered(table, 0)
<1>0. TypeOK /\ ThreadsTyped
  BY TypeParts DEF IInv
<1>1. /\ recovered \in [Jobs -> Row]
      /\ \A j \in Jobs : QuietRow(table[j], recovered[j])
  BY <1>0, RecoveredTable
<1> HIDE DEF recovered
<1>2. PICK place \in Thread \ {"researching", "stored"} :
        /\ Goes(s, place) /\ packages' = packages /\ phase' = phase
        /\ \/ held' = held /\ (thread[s] \in Working <=> place \in Working)
           \/ Forgets(s) /\ place \notin Working
  <2> DEFINE Moves(place) ==
        /\ Goes(s, place) /\ packages' = packages /\ phase' = phase
        /\ \/ held' = held /\ (thread[s] \in Working <=> place \in Working)
           \/ Forgets(s) /\ place \notin Working
  <2>1. CASE Loop(s)
    <3>1. Moves("claiming")
      BY <2>1 DEF Loop, Working
    <3> QED BY <3>1 DEF Thread
  <2>2. CASE ResearchFails(s)
    <3>1. Moves("failing")
      BY <2>2 DEF ResearchFails, Working
    <3> QED BY <3>1 DEF Thread
  <2>3. CASE ClaimNothing(s) \/ Fail(s) \/ QueueRaises(s)
    <3>1. Moves("idle")
      BY <2>3 DEF ClaimNothing, Fail, Settle, QueueRaises, Working
    <3> QED BY <3>1 DEF Thread
  <2> QED BY <2>1, <2>2, <2>3
<1>3. phase' \in [Services -> Phase]
  BY <1>0, <1>2 DEF ThreadsTyped
<1>4. ThreadsTyped' /\ thread'[s] = place /\ OthersStay(s)
  BY <1>0, <1>2, <1>3, ThreadGoes
<1>5. Quiet
  <2>1. CASE table' = table
    BY <2>1, <1>0, SameQuiet
  <2>2. CASE table' = recovered
    BY <2>2, <1>1 DEF Quiet
  <2>3. CASE Fail(s)
    <3> DEFINE j == held[s].job
               row == FailedRow(table[j], TRUE, 0)
    <3>1. j \in Jobs
      BY <2>3, <1>0, WorkingHolds DEF Fail, Working
    <3>2. QuietRow(table[j], row)
      BY <3>1, <1>0, FailedQuiet DEF TypeOK
    <3>3. table' = [recovered EXCEPT ![j] = row] \/ table' = table
      BY <2>3 DEF Fail, Settle, recovered
    <3> HIDE DEF j, row
    <3> QED BY <2>1, <3>1, <3>2, <3>3, <1>1 DEF Quiet, QuietRow
  <2> QED BY <2>1, <2>2, <2>3 DEF Loop, ClaimNothing, ResearchFails, QueueRaises, recovered
<1> QED BY <1>2, <1>4, <1>5, QuietStep DEF OthersStay

\* The life of a process.
LEMMA ProcessStep ==
  ASSUME IInv, NEW s \in Services, Starts(s) \/ Shutdown(s)
  PROVE  IInv'
<1>0. TypeOK /\ ThreadsTyped
  BY TypeParts DEF IInv
<1>1. CASE Starts(s)
  <2>1. PICK policy \in [Jobs -> Priorities] : Start(s, policy)
    BY <1>1 DEF Starts
  <2>2. Quiet
    BY <2>1, <1>0, ReprioritizedQuiet DEF Start
  <2>3. ThreadsTyped' /\ UNCHANGED <<packages, thread, held>>
    BY <2>1, <1>0 DEF Start, ThreadsTyped, Phase
  <2> QED BY <2>2, <2>3, QuietStep
<1>2. CASE Stop(s) \/ CloseStore(s) \/ CloseQueue(s)
  <2>1. ThreadsTyped' /\ UNCHANGED <<table, packages, thread, held>>
    BY <1>2, <1>0 DEF Stop, CloseStore, CloseQueue, ThreadsTyped, Phase
  <2> QED BY <2>1, <1>0, SameQuiet, QuietStep
<1>3. CASE Exit(s) \/ Crash(s)
  <2>1. /\ phase' = [phase EXCEPT ![s] = "down"] /\ Goes(s, "idle") /\ Forgets(s)
        /\ UNCHANGED <<table, packages>>
    BY <1>3 DEF Exit, Crash, Ends
  <2>2. phase' \in [Services -> Phase]
    BY <2>1, <1>0 DEF ThreadsTyped, Phase
  <2>3. ThreadsTyped' /\ thread'[s] = "idle" /\ OthersStay(s)
    BY <2>1, <2>2, <1>0, ThreadGoes DEF Thread, Working
  <2> QED BY <2>1, <2>3, <1>0, SameQuiet, QuietStep DEF OthersStay
<1> QED BY <1>1, <1>2, <1>3 DEF Shutdown

-----------------------------------------------------------------------------

LEMMA IInvInit == Init => IInv
<1> SUFFICES ASSUME Init PROVE IInv
  OBVIOUS
<1>1. NoRow \in Row /\ NoRow.attempts = 0 /\ NoRow.status = "absent"
  BY ConstantFacts DEF NoRow, Row, Status, Errors
<1>2. TypeOK
  BY <1>1 DEF Init, TypeOK, Phase, Thread, NoTicket
<1>3. \A j \in Jobs : Researching(j) = {}
  BY DEF Init, Researching
<1>4. AttemptsCover
  <2>1. \A j \in Jobs : IsFiniteSet(Researching(j)) /\ Cardinality(Researching(j)) = 0
    BY <1>3, FS_EmptySet
  <2>2. \A j \in Jobs : packages[j] = 0 /\ table[j].attempts = 0
    BY <1>1 DEF Init
  <2>3. 0 + 0 <= 0
    OBVIOUS
  <2> QED BY <2>1, <2>2, <2>3, Zenon DEF AttemptsCover
<1>5. StoredFirst /\ DoneIsStored /\ AbsentUnspent
  BY <1>1 DEF Init, StoredFirst, DoneIsStored, AbsentUnspent
<1> QED BY <1>2, <1>4, <1>5 DEF IInv

LEMMA IInvStep == IInv /\ [Next]_vars => IInv'
<1> SUFFICES ASSUME IInv, [Next]_vars PROVE IInv'
  OBVIOUS
<1>0. TypeOK /\ ThreadsTyped /\ AbsentUnspent
  BY TypeParts DEF IInv
<1>1. CASE Tick
  <2>1. ThreadsTyped' /\ UNCHANGED <<packages, thread, held>>
    BY <1>1, <1>0 DEF Tick, ThreadsTyped
  <2> QED BY <1>0, <1>1, <2>1, TickQuiet, QuietStep
<1>2. ASSUME NEW s \in Services, WorkOnce(s) PROVE IInv'
  BY <1>2, ThreadStep, ClaimJobStep, StoreStep, AckStep DEF WorkOnce, Claim
<1>3. ASSUME NEW s \in Services, Starts(s) \/ Shutdown(s) PROVE IInv'
  BY <1>3, ProcessStep
<1>4. ASSUME NEW s \in Services, Enqueues(s) PROVE IInv'
  <2>1. PICK j \in Jobs, document \in Documents, priority \in Priorities,
             limit \in Limits : Enqueue(s, j, document, priority, limit)
    BY <1>4 DEF Enqueues
  <2>2. Quiet
    BY <2>1, <1>0, EnqueuedQuiet DEF Enqueue
  <2>3. ThreadsTyped' /\ UNCHANGED <<packages, thread, held>>
    BY <2>1, <1>0 DEF Enqueue, ThreadsTyped
  <2> QED BY <2>2, <2>3, QuietStep
<1>5. CASE UNCHANGED vars
  <2>1. ThreadsTyped' /\ UNCHANGED <<table, packages, thread, held>>
    BY <1>5, <1>0 DEF vars, ThreadsTyped
  <2> QED BY <2>1, <1>0, SameQuiet, QuietStep
<1> QED BY <1>1, <1>2, <1>3, <1>4, <1>5 DEF Next

LEMMA SpecIInv == Spec => []IInv
BY IInvInit, IInvStep, PTL DEF Spec

\* In every behaviour the variables keep their types, and a thread has a ticket
\* exactly while it works on a job.
THEOREM WorkerTypes == Spec => []TypeOK
<1>1. IInv => TypeOK
  BY DEF IInv
<1> QED BY <1>1, SpecIInv, PTL

\* In every behaviour a job is done only when its package is in the store,
\* although the queue and the store commit apart and close one after the other.
THEOREM DoneStored == Spec => []DoneIsStored
<1>1. IInv => DoneIsStored
  BY DEF IInv
<1> QED BY <1>1, SpecIInv, PTL

\* In every behaviour, with any number of processes that lose their leases and
\* crash, no job has more packages than attempts.
THEOREM StoredWithinAttempts == Spec => []StoredPerAttempt
<1>1. IInv => StoredPerAttempt
  <2> SUFFICES ASSUME IInv, NEW j \in Jobs PROVE packages[j] <= table[j].attempts
    BY DEF StoredPerAttempt
  <2>1. packages[j] + Cardinality(Researching(j)) <= table[j].attempts
    BY DEF IInv, AttemptsCover
  <2> QED BY <2>1, CoverNumbers DEF IInv
<1> QED BY <1>1, SpecIInv, PTL
=============================================================================
