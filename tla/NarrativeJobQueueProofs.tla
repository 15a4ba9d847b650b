----------------------- MODULE NarrativeJobQueueProofs -----------------------
(***************************************************************************)
(* The safety properties of NarrativeJobQueue for any number of jobs,      *)
(* workers and collectors, any lease, retry delay, attempt limits and      *)
(* priorities, and a clock without bound (MaxTime only bounds Tick); and   *)
(* that the queue implements JobLifecycle, for the same values.            *)
(***************************************************************************)
EXTENDS NarrativeJobQueue, JobTableProofs

-----------------------------------------------------------------------------
(* The inductive invariant *)

\* Nobody has read a time, and no row was created at a time, that has not come.
ClockInv ==
  /\ \A p \in Callers : stamp[p] # None => stamp[p] <= clock
  /\ \A j \in Jobs : table[j].created <= clock

\* A ticket was issued for a stored job with the content the row has, no two
\* workers have the same, and a worker that has since read the clock has read a
\* time after the job's creation.
TicketInv ==
  /\ \A w \in Workers : Holds(w) =>
       /\ held[w] \in Ticket
       /\ held[w].lease < nextLease
       /\ table[held[w].job].status # "absent"
       /\ Content(held[w].document) = Content(table[held[w].job].document)
       /\ stamp[w] # None => table[held[w].job].created <= stamp[w]
  /\ \A v, w \in Workers :
       Holds(v) /\ Holds(w) /\ held[v].lease = held[w].lease => v = w

IInv ==
  /\ TypeOK
  /\ \A j \in Jobs : RowInv(table[j])
  /\ ClockInv
  /\ TicketInv

-----------------------------------------------------------------------------
(* What each operation does to the table *)
\* The table stays sound, no row is created in the future, and a stored job
\* stays stored with its creation time and its content.
TableStep ==
  /\ table' \in [Jobs -> Row]
  /\ \A j \in Jobs : RowInv(table'[j]) /\ table'[j].created <= clock
  /\ \A j \in Jobs : table[j].status # "absent" =>
       /\ table'[j].status # "absent"
       /\ table'[j].created = table[j].created
       /\ Content(table'[j].document) = Content(table[j].document)

\* A stamp that is set is a number no later than the clock.
LEMMA StampFacts ==
  ASSUME IInv, NEW p \in Callers, stamp[p] # None
  PROVE  stamp[p] \in Nat /\ stamp[p] <= clock /\ clock \in Nat
BY DEF IInv, TypeOK, ClockInv

\* Recovery keeps every row sound.
LEMMA RecoveredFacts ==
  ASSUME IInv, NEW now \in Nat
  PROVE  /\ Recovered(table, now) \in [Jobs -> Row]
         /\ \A j \in Jobs :
              /\ Recovered(table, now)[j] = RecoveredRow(table[j], now)
              /\ table[j] \in Row /\ RowInv(table[j])
              /\ Recovered(table, now)[j] \in Row
              /\ RowInv(Recovered(table, now)[j])
              /\ Recovered(table, now)[j].created = table[j].created
              /\ Recovered(table, now)[j].document = table[j].document
              /\ Recovered(table, now)[j].status = "absent" <=> table[j].status = "absent"
              /\ table[j].created <= clock
<1>1. \A j \in Jobs : Recovered(table, now)[j] = RecoveredRow(table[j], now)
  BY DEF Recovered
<1>2. \A j \in Jobs : table[j] \in Row /\ RowInv(table[j]) /\ table[j].created <= clock
  BY DEF IInv, TypeOK, ClockInv
<1>3. \A j \in Jobs :
        /\ RecoveredRow(table[j], now) \in Row
        /\ RowInv(RecoveredRow(table[j], now))
        /\ RecoveredRow(table[j], now).created = table[j].created
        /\ RecoveredRow(table[j], now).document = table[j].document
        /\ RecoveredRow(table[j], now).status = "absent" <=> table[j].status = "absent"
  BY <1>2, RecoveredRowInv
<1>4. Recovered(table, now) \in [Jobs -> Row]
  BY <1>3 DEF Recovered
<1> QED BY <1>1, <1>2, <1>3, <1>4

\* A table in which at most one row of a sound table changes.
LEMMA OneRowStep ==
  ASSUME IInv, NEW now \in Nat, NEW j \in Jobs, NEW row \in Row, RowInv(row),
         row.created <= clock,
         table[j].status # "absent" =>
           /\ row.status # "absent" /\ row.created = table[j].created
           /\ Content(row.document) = Content(table[j].document),
         \/ table' = [table EXCEPT ![j] = row]
         \/ table' = [Recovered(table, now) EXCEPT ![j] = row]
  PROVE  TableStep
<1>1. table \in [Jobs -> Row]
  BY DEF IInv, TypeOK
<1>2. \A k \in Jobs : table[k] \in Row /\ RowInv(table[k]) /\ table[k].created <= clock
  BY RecoveredFacts
<1>3. CASE table' = [table EXCEPT ![j] = row]
  BY <1>1, <1>2, <1>3 DEF TableStep
<1>4. CASE table' = [Recovered(table, now) EXCEPT ![j] = row]
  <2> DEFINE recovered == Recovered(table, now)
  <2>1. /\ recovered \in [Jobs -> Row]
        /\ \A k \in Jobs :
             /\ RowInv(recovered[k])
             /\ recovered[k].created = table[k].created
             /\ recovered[k].document = table[k].document
             /\ recovered[k].status = "absent" <=> table[k].status = "absent"
    BY RecoveredFacts
  <2>2. table' = [recovered EXCEPT ![j] = row]
    BY <1>4
  <2> HIDE DEF recovered
  <2> QED BY <1>2, <2>1, <2>2 DEF TableStep
<1> QED BY <1>3, <1>4

\* Tickets stay good through any sound change of the table in which no worker
\* gains a ticket and no caller a stamp.
LEMMA SettledInv ==
  ASSUME IInv, TableStep, UNCHANGED <<clock, nextLease>>,
         stamp' \in [Callers -> Nat \cup {None}],
         \A p \in Callers : stamp'[p] = stamp[p] \/ stamp'[p] = None,
         held' \in [Workers -> Ticket \cup {NoTicket}],
         \A w \in Workers : held'[w] = held[w] \/ held'[w] = NoTicket
  PROVE  IInv'
<1>1. TypeOK'
  BY DEF IInv, TypeOK, TableStep
<1>2. \A j \in Jobs : RowInv(table'[j])
  BY DEF TableStep
<1>3. ClockInv'
  BY DEF IInv, ClockInv, TableStep
<1>4. \A w \in Workers : Holds(w)' => Holds(w) /\ held'[w] = held[w]
  BY DEF Holds
<1>5. \A w \in Workers : Holds(w) => held[w] \in Ticket /\ held[w].job \in Jobs
  BY DEF IInv, TicketInv, Ticket
<1>6. Workers \subseteq Callers
  BY DEF Callers
<1>7. TicketInv'
  BY <1>4, <1>5, <1>6 DEF IInv, TicketInv, TableStep
<1> QED BY <1>1, <1>2, <1>3, <1>7 DEF IInv

-----------------------------------------------------------------------------
(* Every step preserves the invariant *)

\* What the transaction of p's operation does to the stamps.
LEMMA TransactionFacts ==
  ASSUME IInv, NEW p \in Callers, Transaction(p)
  PROVE  /\ stamp[p] \in Nat /\ stamp[p] <= clock /\ clock \in Nat
         /\ UNCHANGED clock
         /\ stamp' \in [Callers -> Nat \cup {None}]
         /\ \A q \in Callers : stamp'[q] = stamp[q] \/ stamp'[q] = None
         /\ stamp'[p] = None
BY StampFacts DEF Transaction, IInv, TypeOK

LEMMA InitInv == Init => IInv
<1> SUFFICES ASSUME Init PROVE IInv
  OBVIOUS
<1>1. NoRow \in Row /\ RowInv(NoRow) /\ NoRow.created = 0
  BY ConstantFacts DEF NoRow, Row, RowInv, Status, Errors, Terminal
<1>2. TypeOK
  BY <1>1 DEF Init, TypeOK
<1>3. ClockInv /\ \A j \in Jobs : RowInv(table[j])
  BY <1>1 DEF Init, ClockInv
<1>4. \A w \in Workers : ~Holds(w)
  BY DEF Init, Holds
<1> QED BY <1>2, <1>3, <1>4 DEF IInv, TicketInv

LEMMA TickInv == IInv /\ Tick => IInv'
<1> SUFFICES ASSUME IInv, Tick PROVE IInv'
  OBVIOUS
<1>1. UNCHANGED <<table, nextLease, stamp, held>> /\ clock \in Nat /\ clock' = clock + 1
  BY DEF Tick, IInv, TypeOK
<1>2. TypeOK'
  BY <1>1 DEF IInv, TypeOK
<1>3. \A j \in Jobs : RowInv(table'[j])
  BY <1>1 DEF IInv
<1>4. ClockInv'
  <2>1. \A j \in Jobs : table[j].created \in Nat
    BY RowNumbers DEF IInv, TypeOK
  <2> QED BY <1>1, <2>1 DEF IInv, ClockInv, TypeOK
<1>5. TicketInv'
  BY <1>1 DEF IInv, TicketInv, Holds
<1> QED BY <1>2, <1>3, <1>4, <1>5 DEF IInv

LEMMA ReadClockInv ==
  ASSUME IInv, NEW p \in Callers, ReadClock(p)
  PROVE  IInv'
<1>1. UNCHANGED <<clock, table, nextLease, held>> /\ clock \in Nat
  BY DEF ReadClock, IInv, TypeOK
<1>2. /\ stamp' \in [Callers -> Nat \cup {None}]
      /\ \A q \in Callers : stamp'[q] = stamp[q] \/ stamp'[q] = clock
  BY <1>1 DEF ReadClock, IInv, TypeOK
<1>3. \A j \in Jobs : table[j].created <= clock
  BY DEF IInv, ClockInv
<1>4. \A w \in Workers : Holds(w) => held[w] \in Ticket /\ held[w].job \in Jobs
  BY DEF IInv, TicketInv, Ticket
<1>5. TypeOK'
  BY <1>1, <1>2 DEF IInv, TypeOK
<1>6. ClockInv'
  BY <1>1, <1>2 DEF IInv, ClockInv, TypeOK
<1>7. TicketInv'
  BY <1>1, <1>2, <1>3, <1>4 DEF IInv, TicketInv, Holds, Callers
<1> QED BY <1>1, <1>5, <1>6, <1>7 DEF IInv

\* Adding, refreshing or refusing an observation.
LEMMA EnqueueInv ==
  ASSUME IInv, NEW p \in Collectors, NEW j \in Jobs, NEW document \in Documents,
         NEW priority \in Priorities, NEW limit \in Limits,
         Enqueue(p, j, document, priority, limit)
  PROVE  IInv'
<1>1. p \in Callers /\ Transaction(p)
  BY DEF Callers, Enqueue
<1>2. /\ table' = Enqueued(table, j, document, priority, limit, stamp[p])
      /\ UNCHANGED <<nextLease, held>>
  BY DEF Enqueue
<1>3. /\ stamp[p] \in Nat /\ stamp[p] <= clock /\ UNCHANGED clock
      /\ stamp' \in [Callers -> Nat \cup {None}]
      /\ \A q \in Callers : stamp'[q] = stamp[q] \/ stamp'[q] = None
  BY <1>1, TransactionFacts
<1>4. /\ table \in [Jobs -> Row] /\ table[j] \in Row /\ RowInv(table[j])
      /\ \A k \in Jobs : RowInv(table[k]) /\ table[k].created <= clock
      /\ held \in [Workers -> Ticket \cup {NoTicket}]
  BY DEF IInv, TypeOK, ClockInv
<1>5. TableStep
  <2>1. CASE table[j].status = "absent"
    <3> DEFINE new == NewRow(document, priority, limit, stamp[p])
    <3>1. new \in Row /\ RowInv(new) /\ new.created = stamp[p]
      BY <1>3, NewRowInv
    <3>2. table' = [table EXCEPT ![j] = new]
      BY <2>1, <1>2 DEF Enqueued
    <3> HIDE DEF new
    <3> QED BY <3>1, <3>2, <2>1, <1>3, OneRowStep
  <2>2. CASE table[j].status = "pending" /\ ~Conflicts(table, j, document)
    <3> DEFINE new == Refreshed(table[j], document, priority)
    <3>1. /\ new \in Row /\ RowInv(new) /\ new.status = "pending"
          /\ new.created = table[j].created /\ new.document = document
      BY <2>2, <1>4, RefreshedInv
    <3>2. table' = [table EXCEPT ![j] = new]
      BY <2>2, <1>2 DEF Enqueued
    <3>3. Content(document) = Content(table[j].document)
      BY <2>2 DEF Conflicts
    <3> HIDE DEF new
    <3> QED BY <3>1, <3>2, <3>3, <1>3, <1>4, OneRowStep
  <2>3. CASE /\ table[j].status # "absent"
             /\ ~(table[j].status = "pending" /\ ~Conflicts(table, j, document))
    <3>1. table' = table
      BY <2>3, <1>2 DEF Enqueued
    <3> QED BY <3>1, <1>4 DEF TableStep
  <2> QED BY <2>1, <2>2, <2>3
<1> QED BY <1>2, <1>3, <1>4, <1>5, SettledInv

\* A claim that finds nothing recovers what has expired.
LEMMA ClaimNothingInv ==
  ASSUME IInv, NEW w \in Workers, ClaimNothing(w)
  PROVE  IInv'
<1>1. w \in Callers /\ Transaction(w) /\ UNCHANGED <<nextLease, held>>
  BY DEF Callers, ClaimNothing
<1>2. table' = Recovered(table, stamp[w])
  BY DEF ClaimNothing
<1>3. /\ stamp[w] \in Nat /\ UNCHANGED clock
      /\ stamp' \in [Callers -> Nat \cup {None}]
      /\ \A q \in Callers : stamp'[q] = stamp[q] \/ stamp'[q] = None
  BY <1>1, TransactionFacts
<1>4. TableStep
  BY <1>2, <1>3, RecoveredFacts DEF TableStep
<1>5. held \in [Workers -> Ticket \cup {NoTicket}]
  BY DEF IInv, TypeOK
<1> QED BY <1>1, <1>3, <1>4, <1>5, SettledInv

\* A claim issues a token nobody has had.
LEMMA ClaimJobInv ==
  ASSUME IInv, NEW w \in Workers, NEW j \in Jobs, ClaimJob(w, j)
  PROVE  IInv'
<1> DEFINE recovered == Recovered(table, stamp[w])
           new == LeasedRow(recovered[j], NameOf[w], nextLease, stamp[w])
           ticket == [job |-> j, lease |-> nextLease,
                      document |-> recovered[j].document]
<1>1. w \in Callers /\ Transaction(w) /\ ~Holds(w) /\ nextLease' = nextLease + 1
  BY DEF Callers, ClaimJob
<1>2. /\ table' = [recovered EXCEPT ![j] = new]
      /\ held' = [held EXCEPT ![w] = ticket]
      /\ Claimable(recovered[j], stamp[w])
  BY DEF ClaimJob, Selected, Ready
<1>3. /\ stamp[w] \in Nat /\ stamp[w] <= clock /\ clock \in Nat /\ clock' = clock
      /\ stamp' \in [Callers -> Nat \cup {None}]
      /\ \A q \in Callers : stamp'[q] = stamp[q] \/ stamp'[q] = None
      /\ stamp'[w] = None
  BY <1>1, TransactionFacts
<1>4. /\ recovered[j] \in Row /\ RowInv(recovered[j])
      /\ recovered[j].created = table[j].created
      /\ recovered[j].document = table[j].document
      /\ recovered[j].status = "absent" <=> table[j].status = "absent"
      /\ table[j].created <= clock
  BY <1>3, RecoveredFacts
<1>5. nextLease \in Nat /\ NameOf[w] \in Owners
  BY QueueAssumption DEF QueueAssumption, IInv, TypeOK
<1>6. recovered[j].status = "pending" /\ recovered[j].document \in Documents
  BY <1>2, <1>4 DEF Claimable, RowInv
<1> HIDE DEF recovered
<1>7. /\ new \in Row /\ RowInv(new)
      /\ new.created = table[j].created /\ new.document = table[j].document
      /\ new.status = "leased"
  BY <1>2, <1>3, <1>4, <1>5, LeasedRowInv
<1>8. ticket \in Ticket /\ ticket.job = j /\ ticket.lease = nextLease
      /\ ticket.document = table[j].document
  BY <1>4, <1>5, <1>6 DEF Ticket
<1> HIDE DEF new, ticket
<1>9. TableStep
  BY <1>2, <1>3, <1>4, <1>7, OneRowStep DEF recovered
<1>10. TypeOK'
  BY <1>2, <1>3, <1>5, <1>1, <1>8, <1>9 DEF IInv, TypeOK, TableStep
<1>11. ClockInv' /\ \A k \in Jobs : RowInv(table'[k])
  BY <1>3, <1>9 DEF IInv, ClockInv, TableStep
<1>12. TicketInv'
  <2>1. held \in [Workers -> Ticket \cup {NoTicket}]
    BY DEF IInv, TypeOK
  <2>2. /\ held'[w] = ticket
        /\ \A v \in Workers : v # w => held'[v] = held[v]
    BY <1>2, <2>1
  <2>3. \A v \in Workers : v # w /\ Holds(v)' =>
          /\ Holds(v) /\ held'[v] = held[v] /\ held[v].job \in Jobs
          /\ held[v].lease \in Nat /\ held[v].lease < nextLease
    BY <2>2 DEF Holds, IInv, TicketInv, Ticket
  <2>4. table[j].status # "absent" /\ table'[j].status # "absent"
    BY <1>4, <1>6, <1>9 DEF TableStep
  <2>5. ASSUME NEW v \in Workers, Holds(v)'
        PROVE  /\ held'[v] \in Ticket
               /\ held'[v].lease < nextLease'
               /\ table'[held'[v].job].status # "absent"
               /\ Content(held'[v].document) = Content(table'[held'[v].job].document)
               /\ stamp'[v] # None => table'[held'[v].job].created <= stamp'[v]
    <3>1. CASE v = w
      BY <3>1, <2>2, <2>4, <1>1, <1>3, <1>5, <1>8, <1>9 DEF TableStep
    <3>2. CASE v # w
      <4>1. Holds(v) /\ held'[v] = held[v] /\ held[v].job \in Jobs
            /\ held[v].lease \in Nat /\ held[v].lease < nextLease
        BY <2>3, <2>5, <3>2
      <4>2. /\ held[v] \in Ticket
            /\ table[held[v].job].status # "absent"
            /\ Content(held[v].document) = Content(table[held[v].job].document)
            /\ stamp[v] # None => table[held[v].job].created <= stamp[v]
        BY <4>1 DEF IInv, TicketInv
      <4>3. v \in Callers
        BY DEF Callers
      <4> QED BY <4>1, <4>2, <4>3, <1>1, <1>3, <1>5, <1>9 DEF TableStep
    <3> QED BY <3>1, <3>2
  <2>6. ASSUME NEW u \in Workers, NEW v \in Workers, Holds(u)', Holds(v)',
               held'[u].lease = held'[v].lease
        PROVE  u = v
    <3>1. CASE u # w /\ v # w
      BY <2>3, <2>6, <3>1 DEF IInv, TicketInv
    <3>2. CASE u = w \/ v = w
      BY <2>2, <2>3, <2>6, <3>2, <1>5, <1>8
    <3> QED BY <3>1, <3>2
  <2> QED BY <2>5, <2>6 DEF TicketInv
<1> QED BY <1>10, <1>11, <1>12 DEF IInv

\* ack and fail: the row changes only while the caller's lease is in it.
LEMMA FinishInv ==
  ASSUME IInv, NEW w \in Workers, NEW update, Finish(w, update),
         Owns(Recovered(table, stamp[w]), held[w].job, NameOf[w], held[w].lease) =>
           /\ update \in Row /\ RowInv(update) /\ update.status # "absent"
           /\ update.created = table[held[w].job].created
           /\ update.document = table[held[w].job].document
  PROVE  IInv'
<1> DEFINE j == held[w].job
           recovered == Recovered(table, stamp[w])
<1>1. w \in Callers /\ Transaction(w) /\ Holds(w) /\ UNCHANGED nextLease
  BY DEF Callers, Finish
<1>2. held' = [held EXCEPT ![w] = NoTicket]
  BY DEF Finish
<1>3. /\ stamp[w] \in Nat /\ UNCHANGED clock
      /\ stamp' \in [Callers -> Nat \cup {None}]
      /\ \A q \in Callers : stamp'[q] = stamp[q] \/ stamp'[q] = None
  BY <1>1, TransactionFacts
<1>4. j \in Jobs /\ table[j].status # "absent"
  BY <1>1 DEF IInv, TicketInv, Ticket
<1>5. /\ held' \in [Workers -> Ticket \cup {NoTicket}]
      /\ \A v \in Workers : held'[v] = held[v] \/ held'[v] = NoTicket
  BY <1>2 DEF IInv, TypeOK
<1>6. CASE Owns(recovered, j, NameOf[w], held[w].lease)
  <2>1. table' = [recovered EXCEPT ![j] = update]
    BY <1>6 DEF Finish
  <2>2. table[j].created <= clock
    BY <1>4 DEF IInv, ClockInv
  <2>3. TableStep
    BY <2>1, <2>2, <1>3, <1>4, <1>6, OneRowStep
  <2> QED BY <2>3, <1>1, <1>3, <1>5, SettledInv
<1>7. CASE ~Owns(recovered, j, NameOf[w], held[w].lease)
  <2>1. table' = table
    BY <1>7 DEF Finish
  <2>2. TableStep
    BY <2>1 DEF TableStep, IInv, TypeOK, ClockInv
  <2> QED BY <2>2, <1>1, <1>3, <1>5, SettledInv
<1> QED BY <1>6, <1>7

\* A worker that finds its lease in the recovered table has an unexpired lease,
\* in a row the recovery left alone.
LEMMA OwnedFacts ==
  ASSUME IInv, NEW w \in Workers, Holds(w), stamp[w] # None,
         Owns(Recovered(table, stamp[w]), held[w].job, NameOf[w], held[w].lease)
  PROVE  /\ held[w].job \in Jobs
         /\ stamp[w] \in Nat
         /\ table[held[w].job] \in Row /\ RowInv(table[held[w].job])
         /\ ~Expired(table[held[w].job], stamp[w])
         /\ Owns(table, held[w].job, NameOf[w], held[w].lease)
         /\ table[held[w].job].created <= stamp[w]
<1> DEFINE j == held[w].job
<1>1. /\ j \in Jobs /\ table[j].created <= stamp[w]
      /\ table[j] \in Row /\ RowInv(table[j])
  BY DEF IInv, TypeOK, TicketInv, Ticket
<1>2. stamp[w] \in Nat
  BY StampFacts DEF Callers
<1>3. Recovered(table, stamp[w])[j] = RecoveredRow(table[j], stamp[w])
  BY <1>1 DEF Recovered
<1>4. ~Expired(table[j], stamp[w])
  BY <1>1, <1>2, <1>3, RecoveredRowInv DEF Owns
<1>5. RecoveredRow(table[j], stamp[w]) = table[j]
  BY <1>4 DEF RecoveredRow
<1> QED BY <1>1, <1>2, <1>3, <1>4, <1>5 DEF Owns

LEMMA AckInv ==
  ASSUME IInv, NEW w \in Workers, Ack(w)
  PROVE  IInv'
<1> DEFINE update == DoneRow(table[held[w].job], stamp[w])
<1>1. Finish(w, update) /\ Holds(w) /\ stamp[w] # None
  BY DEF Ack, Finish, Transaction
<1>2. Owns(Recovered(table, stamp[w]), held[w].job, NameOf[w], held[w].lease) =>
        /\ update \in Row /\ RowInv(update) /\ update.status # "absent"
        /\ update.created = table[held[w].job].created
        /\ update.document = table[held[w].job].document
  BY <1>1, OwnedFacts, DoneRowInv DEF Owns
<1> HIDE DEF update
<1> QED BY <1>1, <1>2, FinishInv

LEMMA FailInv ==
  ASSUME IInv, NEW w \in Workers, NEW retry \in BOOLEAN, Fail(w, retry)
  PROVE  IInv'
<1> DEFINE update == FailedRow(table[held[w].job], retry, stamp[w])
<1>1. Finish(w, update) /\ Holds(w) /\ stamp[w] # None
  BY DEF Fail, Finish, Transaction
<1>2. Owns(Recovered(table, stamp[w]), held[w].job, NameOf[w], held[w].lease) =>
        /\ update \in Row /\ RowInv(update) /\ update.status # "absent"
        /\ update.created = table[held[w].job].created
        /\ update.document = table[held[w].job].document
  BY <1>1, OwnedFacts, FailedRowInv DEF Owns
<1> HIDE DEF update
<1> QED BY <1>1, <1>2, FinishInv

LEMMA ReprioritizeInv ==
  ASSUME IInv, NEW policy \in [Jobs -> Priorities], Reprioritize(policy)
  PROVE  IInv'
<1>1. table' = Reprioritized(table, policy) /\ UNCHANGED <<clock, nextLease, stamp, held>>
  BY DEF Reprioritize
<1>2. \A j \in Jobs : table[j] \in Row /\ RowInv(table[j]) /\ table[j].created <= clock
  BY DEF IInv, TypeOK, ClockInv
<1>3. ASSUME NEW j \in Jobs
      PROVE  /\ table'[j] \in Row /\ RowInv(table'[j])
             /\ table'[j].created = table[j].created
             /\ table'[j].document = table[j].document
             /\ table'[j].status = table[j].status
  <2>1. CASE table[j].status = "pending"
    <3>1. table'[j] = [table[j] EXCEPT !.priority = policy[j]]
      BY <1>1, <2>1 DEF Reprioritized
    <3> QED BY <3>1, <2>1, <1>2, RepricedInv
  <2>2. CASE table[j].status # "pending"
    BY <1>1, <1>2, <2>2 DEF Reprioritized
  <2> QED BY <2>1, <2>2
<1>4. table' \in [Jobs -> Row]
  <2>1. DOMAIN table' = Jobs /\ table' = [j \in Jobs |-> table'[j]]
    BY <1>1 DEF Reprioritized
  <2> QED BY <2>1, <1>3
<1>5. TableStep
  BY <1>2, <1>3, <1>4 DEF TableStep
<1> QED BY <1>1, <1>5, SettledInv DEF IInv, TypeOK

LEMMA AbandonInv ==
  ASSUME IInv, NEW w \in Workers, Abandon(w)
  PROVE  IInv'
<1>1. UNCHANGED <<clock, table, nextLease>>
  BY DEF Abandon
<1>2. TableStep
  BY <1>1 DEF TableStep, IInv, TypeOK, ClockInv
<1>3. /\ stamp' \in [Callers -> Nat \cup {None}]
      /\ \A p \in Callers : stamp'[p] = stamp[p] \/ stamp'[p] = None
      /\ held' \in [Workers -> Ticket \cup {NoTicket}]
      /\ \A v \in Workers : held'[v] = held[v] \/ held'[v] = NoTicket
  BY DEF Abandon, IInv, TypeOK
<1> QED BY <1>1, <1>2, <1>3, SettledInv

LEMMA NextInv == IInv /\ [Next]_vars => IInv'
<1> SUFFICES ASSUME IInv, [Next]_vars PROVE IInv'
  OBVIOUS
<1>1. CASE Tick
  BY <1>1, TickInv
<1>2. CASE \E p \in Callers : ReadClock(p)
  BY <1>2, ReadClockInv
<1>3. CASE EnqueueStep
  BY <1>3, EnqueueInv DEF EnqueueStep
<1>4. ASSUME NEW w \in Workers, WorkerStep(w)
      PROVE  IInv'
  BY <1>4, ClaimNothingInv, ClaimJobInv, AckInv, FailInv, AbandonInv DEF WorkerStep
<1>5. CASE \E policy \in [Jobs -> Priorities] : Reprioritize(policy)
  BY <1>5, ReprioritizeInv
<1>6. CASE UNCHANGED vars
  BY <1>6 DEF vars, IInv, TypeOK, ClockInv, TicketInv, Holds
<1> QED BY <1>1, <1>2, <1>3, <1>4, <1>5, <1>6 DEF Next

\* The strengthened invariant holds in every reachable state.
THEOREM QueueInvariant == Spec => []IInv
BY InitInv, NextInv, PTL DEF Spec

-----------------------------------------------------------------------------
(* The properties the runs check *)

\* Clock, table, lease counter, stamps and tickets keep their types.
THEOREM TypeCorrect == Spec => []TypeOK
<1>1. IInv => TypeOK
  BY DEF IInv
<1> QED BY <1>1, QueueInvariant, PTL

\* No statement ever trips a CHECK constraint of the table.
THEOREM ChecksPass == Spec => []RowsPassChecks
<1>1. IInv => RowsPassChecks
  BY DEF IInv, RowInv, RowsPassChecks
<1> QED BY <1>1, QueueInvariant, PTL

\* A pending job always has an attempt left, so that it can be claimed.
THEOREM PendingClaimable == Spec => []NeverStranded
<1>1. IInv => NeverStranded
  BY DEF IInv, RowInv, NeverStranded
<1> QED BY <1>1, QueueInvariant, PTL

\* At most one worker can settle a job, whatever names the workers use.
THEOREM OneHolder == Spec => []OneCurrentHolder
<1>1. IInv => OneCurrentHolder
  BY DEF IInv, TicketInv, OneCurrentHolder, Current, Owns
<1> QED BY <1>1, QueueInvariant, PTL

\* The content a worker researches is the content of the row.
THEOREM ContentStands == Spec => []HeldContentStands
<1>1. IInv => HeldContentStands
  BY DEF IInv, TicketInv, HeldContentStands
<1> QED BY <1>1, QueueInvariant, PTL

\* Stored times respect the order creation, availability, expiry, completion.
THEOREM CausalTimes == Spec => []TimesCausal
<1>1. IInv => TimesCausal
  BY DEF IInv, RowInv, TimesCausal
<1> QED BY <1>1, QueueInvariant, PTL

-----------------------------------------------------------------------------
(* The shape of every step *)

\* What a step does to the table, and to whom the step belongs.
Enqueueing ==
  \E j \in Jobs, document \in Documents, priority \in Priorities,
     limit \in Limits, now \in Nat :
       table' = Enqueued(table, j, document, priority, limit, now)

Recovering(w) == stamp[w] # None /\ table' = Recovered(table, stamp[w])

Leasing(w, j) ==
  /\ stamp[w] # None
  /\ Claimable(Recovered(table, stamp[w])[j], stamp[w])
  /\ \E lease \in Nat, owner \in Owners :
       table' = [Recovered(table, stamp[w]) EXCEPT ![j] =
                   LeasedRow(Recovered(table, stamp[w])[j], owner, lease, stamp[w])]

\* The row w settles is unexpired by the time w has read, and holds w's lease.
Settling(w, row) ==
  /\ Current(w)
  /\ stamp[w] # None
  /\ held[w].job \in Jobs
  /\ ~Expired(table[held[w].job], stamp[w])
  /\ held'[w] = NoTicket
  /\ table' = [Recovered(table, stamp[w]) EXCEPT ![held[w].job] = row]

Completing(w) == Settling(w, DoneRow(table[held[w].job], stamp[w]))

Failing(w, retry) == Settling(w, FailedRow(table[held[w].job], retry, stamp[w]))

Repricing ==
  \E policy \in [Jobs -> Priorities] : table' = Reprioritized(table, policy)

Shaped ==
  \/ table' = table
  \/ Enqueueing
  \/ \E w \in Workers :
       \/ Recovering(w)
       \/ \E j \in Jobs : Leasing(w, j)
       \/ Completing(w)
       \/ \E retry \in BOOLEAN : Failing(w, retry)
  \/ Repricing

\* ack and fail settle the row of a live lease, or leave the table alone.
LEMMA FinishShape ==
  ASSUME IInv, NEW w \in Workers, NEW row, Finish(w, row)
  PROVE  table' = table \/ Settling(w, row)
<1> DEFINE recovered == Recovered(table, stamp[w])
<1>1. Holds(w) /\ stamp[w] # None
  BY DEF Finish, Transaction
<1>2. held'[w] = NoTicket
  BY DEF Finish, IInv, TypeOK
<1>3. CASE Owns(recovered, held[w].job, NameOf[w], held[w].lease)
  <2>1. table' = [recovered EXCEPT ![held[w].job] = row]
    BY <1>3 DEF Finish
  <2>2. /\ held[w].job \in Jobs
        /\ ~Expired(table[held[w].job], stamp[w])
        /\ Owns(table, held[w].job, NameOf[w], held[w].lease)
    BY <1>1, <1>3, OwnedFacts
  <2> QED BY <1>1, <1>2, <2>1, <2>2 DEF Settling, Current
<1>4. CASE ~Owns(recovered, held[w].job, NameOf[w], held[w].lease)
  BY <1>4 DEF Finish
<1> QED BY <1>3, <1>4

LEMMA StepShape ==
  ASSUME IInv, [Next]_vars
  PROVE  Shaped
<1>1. CASE Tick \/ (\E p \in Callers : ReadClock(p)) \/ UNCHANGED vars
  BY <1>1 DEF Tick, ReadClock, vars, Shaped
<1>2. CASE EnqueueStep
  <2>1. PICK p \in Collectors, j \in Jobs, document \in Documents,
             priority \in Priorities, limit \in Limits :
               Enqueue(p, j, document, priority, limit)
    BY <1>2 DEF EnqueueStep
  <2>2. stamp[p] \in Nat
    BY <2>1, TransactionFacts DEF Enqueue, Callers
  <2> QED BY <2>1, <2>2 DEF Enqueue, Shaped, Enqueueing
<1>3. ASSUME NEW w \in Workers, WorkerStep(w)
      PROVE  Shaped
  <2>1. CASE ClaimNothing(w)
    BY <2>1 DEF ClaimNothing, Transaction, Shaped, Recovering
  <2>2. ASSUME NEW j \in Jobs, ClaimJob(w, j)
        PROVE  Shaped
    <3>1. nextLease \in Nat /\ NameOf[w] \in Owners
      BY QueueAssumption DEF QueueAssumption, IInv, TypeOK
    <3>2. Leasing(w, j)
      BY <2>2, <3>1 DEF ClaimJob, Selected, Ready, Transaction, Leasing
    <3> QED BY <3>2 DEF Shaped
  <2>3. CASE Ack(w)
    BY <2>3, FinishShape DEF Ack, Completing, Shaped
  <2>4. ASSUME NEW retry \in BOOLEAN, Fail(w, retry)
        PROVE  Shaped
    BY <2>4, FinishShape DEF Fail, Failing, Shaped
  <2>5. CASE Abandon(w)
    BY <2>5 DEF Abandon, Shaped
  <2> QED BY <1>3, <2>1, <2>2, <2>3, <2>4, <2>5 DEF WorkerStep
<1>4. CASE \E policy \in [Jobs -> Priorities] : Reprioritize(policy)
  BY <1>4 DEF Reprioritize, Repricing, Shaped
<1> QED BY <1>1, <1>2, <1>3, <1>4 DEF Next

-----------------------------------------------------------------------------
(* What recovery does *)

LEMMA RecoveredShape ==
  ASSUME IInv, NEW w \in Workers, stamp[w] # None, NEW j \in Jobs
  PROVE  LET row == Recovered(table, stamp[w])[j]
         IN /\ stamp[w] \in Nat /\ stamp[w] <= clock /\ clock \in Nat
            /\ ~Expired(table[j], stamp[w]) => row = table[j]
            /\ Expired(table[j], stamp[w]) =>
                 /\ table[j].status = "leased"
                 /\ table[j].expires <= clock
                 /\ row.status =
                      IF table[j].attempts >= table[j].max THEN "failed" ELSE "pending"
            /\ row.max = table[j].max /\ row.attempts = table[j].attempts
<1>1. stamp[w] \in Nat /\ stamp[w] <= clock /\ clock \in Nat
  BY StampFacts DEF Callers
<1>2. table[j] \in Row /\ RowInv(table[j])
  BY DEF IInv, TypeOK
<1>3. Recovered(table, stamp[w])[j] = RecoveredRow(table[j], stamp[w])
  BY DEF Recovered
<1>4. Expired(table[j], stamp[w]) =>
        table[j].status = "leased" /\ table[j].expires <= clock
  <2> SUFFICES ASSUME Expired(table[j], stamp[w])
               PROVE  table[j].status = "leased" /\ table[j].expires <= clock
    OBVIOUS
  <2>1. table[j].status = "leased" /\ table[j].expires <= stamp[w]
    BY DEF Expired
  <2>2. table[j].expires \in Nat
    BY <1>2, <2>1, RowNumbers DEF RowInv
  <2> QED BY <1>1, <2>1, <2>2
<1>5. /\ RecoveredRow(table[j], stamp[w]).max = table[j].max
      /\ RecoveredRow(table[j], stamp[w]).attempts = table[j].attempts
      /\ Expired(table[j], stamp[w]) =>
           RecoveredRow(table[j], stamp[w]).status =
             IF table[j].attempts >= table[j].max THEN "failed" ELSE "pending"
  BY <1>2, UnleasedFields DEF RecoveredRow, Unleased, Row
<1> QED BY <1>1, <1>3, <1>4, <1>5 DEF RecoveredRow

-----------------------------------------------------------------------------
(* What a step does to one job *)

Rewritten(j) ==
  /\ table[j].status \in {"absent", "pending"}
  /\ table'[j].status = "pending"

\* The lease has run out, and j may or may not be leased again at once.
Lost(j) ==
  /\ table[j].status = "leased"
  /\ table[j].expires <= clock
  /\ table'[j].status \in {"pending", "failed", "leased"}

Granted(j) == table[j].status = "pending" /\ table'[j].status = "leased"

Settled(j) ==
  \E w \in Workers :
    /\ Current(w) /\ held[w].job = j /\ held'[w] = NoTicket
    /\ table[j].status = "leased"
    /\ stamp[w] < table[j].expires

JobStep(j) ==
  table'[j] = table[j] \/ Rewritten(j) \/ Lost(j) \/ Granted(j) \/ Settled(j)

LEMMA EnqueueingJob ==
  ASSUME IInv, Enqueueing, NEW j \in Jobs
  PROVE  table'[j] = table[j] \/ Rewritten(j)
<1>1. PICK k \in Jobs, document \in Documents, priority \in Priorities,
           limit \in Limits, now \in Nat :
             table' = Enqueued(table, k, document, priority, limit, now)
  BY DEF Enqueueing
<1>2. table \in [Jobs -> Row]
  BY DEF IInv, TypeOK
<1>3. CASE table' = table
  BY <1>3
<1>4. CASE /\ table[k].status = "absent"
           /\ table' = [table EXCEPT ![k] = NewRow(document, priority, limit, now)]
  <2>1. NewRow(document, priority, limit, now).status = "pending"
    BY DEF NewRow
  <2> HIDE DEF NewRow
  <2> QED BY <1>2, <1>4, <2>1 DEF Rewritten
<1>5. CASE /\ table[k].status = "pending"
           /\ table' = [table EXCEPT ![k] = Refreshed(table[k], document, priority)]
  <2>1. Refreshed(table[k], document, priority).status = "pending"
    BY <1>2, <1>5 DEF Refreshed, Row
  <2> HIDE DEF Refreshed
  <2> QED BY <1>2, <1>5, <2>1 DEF Rewritten
<1> QED BY <1>1, <1>3, <1>4, <1>5 DEF Enqueued

LEMMA RecoveringJob ==
  ASSUME IInv, NEW w \in Workers, stamp[w] # None, NEW j \in Jobs,
         table'[j] = Recovered(table, stamp[w])[j]
  PROVE  table'[j] = table[j] \/ Lost(j)
BY RecoveredShape DEF Lost

LEMMA LeasingJob ==
  ASSUME IInv, NEW w \in Workers, NEW k \in Jobs, Leasing(w, k), NEW j \in Jobs
  PROVE  table'[j] = table[j] \/ Lost(j) \/ Granted(j)
<1> DEFINE recovered == Recovered(table, stamp[w])
<1>1. stamp[w] # None /\ recovered[k].status = "pending"
  BY DEF Leasing, Claimable
<1>2. recovered \in [Jobs -> Row]
  BY <1>1, RecoveredFacts, StampFacts DEF Callers
<1>3. PICK lease \in Nat, owner \in Owners :
        table' = [recovered EXCEPT ![k] = LeasedRow(recovered[k], owner, lease, stamp[w])]
  BY DEF Leasing
<1> HIDE DEF recovered
<1>4. LeasedRow(recovered[k], owner, lease, stamp[w]).status = "leased"
  BY <1>2 DEF LeasedRow, Row
<1>5. CASE j = k
  <2>1. table'[j].status = "leased"
    BY <1>2, <1>3, <1>4, <1>5
  <2> QED BY <1>1, <1>5, <2>1, RecoveredShape DEF recovered, Lost, Granted
<1>6. CASE j # k
  <2>1. table'[j] = recovered[j]
    BY <1>2, <1>3, <1>6
  <2> QED BY <1>1, <2>1, RecoveringJob DEF recovered
<1> QED BY <1>5, <1>6

LEMMA SettlingJob ==
  ASSUME IInv, NEW w \in Workers, NEW row, Settling(w, row), NEW j \in Jobs
  PROVE  table'[j] = table[j] \/ Lost(j) \/ Settled(j)
<1>1. stamp[w] # None /\ Current(w) /\ held'[w] = NoTicket
  BY DEF Settling
<1>2. CASE j = held[w].job
  <2>1. table[j].status = "leased" /\ ~Expired(table[j], stamp[w])
    BY <1>1, <1>2 DEF Settling, Current, Owns
  <2>2. stamp[w] \in Nat /\ table[j].expires \in Nat
    BY <1>1, <2>1, RecoveredShape, RowNumbers DEF IInv, TypeOK, RowInv
  <2>3. stamp[w] < table[j].expires
    BY <2>1, <2>2 DEF Expired
  <2> QED BY <1>1, <1>2, <2>1, <2>3 DEF Settled
<1>3. CASE j # held[w].job
  <2>1. Recovered(table, stamp[w]) \in [Jobs -> Row]
    BY <1>1, RecoveredFacts, StampFacts DEF Callers
  <2>2. table'[j] = Recovered(table, stamp[w])[j]
    BY <1>3, <2>1 DEF Settling
  <2> QED BY <1>1, <2>2, RecoveringJob
<1> QED BY <1>2, <1>3

LEMMA RepricingJob ==
  ASSUME IInv, Repricing, NEW j \in Jobs
  PROVE  table'[j] = table[j] \/ Rewritten(j)
<1>1. PICK policy \in [Jobs -> Priorities] : table' = Reprioritized(table, policy)
  BY DEF Repricing
<1>2. table[j] \in Row
  BY DEF IInv, TypeOK
<1>3. CASE table[j].status = "pending"
  <2>1. table'[j] = [table[j] EXCEPT !.priority = policy[j]]
    BY <1>1, <1>3 DEF Reprioritized
  <2> QED BY <1>2, <1>3, <2>1 DEF Row, Rewritten
<1>4. CASE table[j].status # "pending"
  BY <1>1, <1>4 DEF Reprioritized
<1> QED BY <1>3, <1>4

\* Every step leaves a job alone, rewrites it while nobody has it, takes an
\* expired lease from it, leases it, or is its holder's.
LEMMA EveryJobSteps ==
  ASSUME IInv, [Next]_vars, NEW j \in Jobs
  PROVE  JobStep(j)
<1>1. Shaped
  BY StepShape
<1>2. CASE table' = table
  BY <1>2 DEF JobStep
<1>3. CASE Enqueueing
  BY <1>3, EnqueueingJob DEF JobStep
<1>4. ASSUME NEW w \in Workers, Recovering(w)
      PROVE  JobStep(j)
  BY <1>4, RecoveringJob DEF Recovering, JobStep
<1>5. ASSUME NEW w \in Workers, NEW k \in Jobs, Leasing(w, k)
      PROVE  JobStep(j)
  BY <1>5, LeasingJob DEF JobStep
<1>6. ASSUME NEW w \in Workers, Completing(w)
      PROVE  JobStep(j)
  BY <1>6, SettlingJob DEF Completing, JobStep
<1>7. ASSUME NEW w \in Workers, NEW retry \in BOOLEAN, Failing(w, retry)
      PROVE  JobStep(j)
  BY <1>7, SettlingJob DEF Failing, JobStep
<1>8. CASE Repricing
  BY <1>8, RepricingJob DEF JobStep
<1> QED BY <1>1, <1>2, <1>3, <1>4, <1>5, <1>6, <1>7, <1>8 DEF Shaped

-----------------------------------------------------------------------------
(* The action properties the runs check *)

\* A done or failed job is never changed again.
THEOREM TerminalStays == Spec => TerminalIsFinal
<1>1. IInv /\ [Next]_vars =>
        [\A j \in Jobs : table[j].status \in Terminal => table'[j] = table[j]]_vars
  <2> SUFFICES ASSUME IInv, [Next]_vars, NEW j \in Jobs, table[j].status \in Terminal
               PROVE  table'[j] = table[j]
    OBVIOUS
  <2>1. JobStep(j)
    BY EveryJobSteps
  <2> QED BY <2>1 DEF JobStep, Rewritten, Lost, Granted, Settled, Terminal
<1> QED BY <1>1, QueueInvariant, PTL DEF Spec, TerminalIsFinal

\* Only the holder of a lease that outlasts the time he has read completes a job.
THEOREM LiveLeaseCompletes == Spec => OnlyLiveLeaseCompletes
<1>1. IInv /\ [Next]_vars =>
        [\A j \in Jobs :
           table'[j].status = "done" /\ table[j].status # "done" =>
             \E w \in Workers :
               /\ Current(w) /\ held[w].job = j
               /\ stamp[w] < table[j].expires]_vars
  <2> SUFFICES ASSUME IInv, [Next]_vars, NEW j \in Jobs,
                      table'[j].status = "done", table[j].status # "done"
               PROVE  \E w \in Workers :
                        /\ Current(w) /\ held[w].job = j
                        /\ stamp[w] < table[j].expires
    OBVIOUS
  <2>1. JobStep(j)
    BY EveryJobSteps
  <2> QED BY <2>1 DEF JobStep, Rewritten, Lost, Granted, Settled
<1> QED BY <1>1, QueueInvariant, PTL DEF Spec, OnlyLiveLeaseCompletes

\* A running lease ends by its holder's own ack or fail only.
THEOREM LeaseKept == Spec => LeaseKeptUntilExpiry
<1>1. IInv /\ [Next]_vars =>
        [\A j \in Jobs :
           table[j].status = "leased" /\ table'[j].lease # table[j].lease =>
             \/ table[j].expires <= clock
             \/ \E w \in Workers :
                  Current(w) /\ held[w].job = j /\ held'[w] = NoTicket]_vars
  <2> SUFFICES ASSUME IInv, [Next]_vars, NEW j \in Jobs,
                      table[j].status = "leased", table'[j].lease # table[j].lease
               PROVE  \/ table[j].expires <= clock
                      \/ \E w \in Workers :
                           Current(w) /\ held[w].job = j /\ held'[w] = NoTicket
    OBVIOUS
  <2>1. JobStep(j)
    BY EveryJobSteps
  <2> QED BY <2>1 DEF JobStep, Rewritten, Lost, Granted, Settled
<1> QED BY <1>1, QueueInvariant, PTL DEF Spec, LeaseKeptUntilExpiry

-----------------------------------------------------------------------------
(* The queue implements JobLifecycle: the phase of a job is the status of    *)
(* its row, its budget the attempts it has left, and every step of the queue *)
(* maps to a submission, an expiry, a grant, a settlement or a stutter.      *)

PhaseOf(t) == [j \in Jobs |-> t[j].status]
BudgetOf(t) == [j \in Jobs |-> t[j].max - t[j].attempts]

\* The leases that w's operation finds expired.
LostTo(w) == {j \in Jobs : Expired(table[j], stamp[w])}

\* A step that moves no phase and no budget is a stutter.
LEMMA Unfolded ==
  ASSUME UNCHANGED <<PhaseOf(table), BudgetOf(table)>>
  PROVE  [Lifecycle!Next]_(Lifecycle!vars)
BY DEF PhaseOf, BudgetOf, Lifecycle!vars

\* A job's columns, and the budget they leave.
LEMMA JobNumbers ==
  ASSUME IInv, NEW j \in Jobs
  PROVE  /\ table[j] \in Row /\ RowInv(table[j])
         /\ table[j].max \in Nat /\ table[j].attempts \in Nat
         /\ table[j].attempts <= table[j].max
BY RowNumbers DEF IInv, TypeOK, RowInv

\* Recovery expires the leases it finds expired, and spends no attempt.
LEMMA RecoveryExpires ==
  ASSUME IInv, NEW w \in Workers, stamp[w] # None
  PROVE  /\ LostTo(w) \in SUBSET Lifecycle!Leased
         /\ PhaseOf(Recovered(table, stamp[w])) = Lifecycle!AfterExpiry(LostTo(w))
         /\ BudgetOf(Recovered(table, stamp[w])) = BudgetOf(table)
<1> DEFINE recovered == Recovered(table, stamp[w])
<1>1. \A j \in Jobs :
        /\ ~Expired(table[j], stamp[w]) => recovered[j] = table[j]
        /\ Expired(table[j], stamp[w]) =>
             /\ table[j].status = "leased"
             /\ recovered[j].status =
                  IF table[j].attempts >= table[j].max THEN "failed" ELSE "pending"
        /\ recovered[j].max = table[j].max
        /\ recovered[j].attempts = table[j].attempts
  BY RecoveredShape
<1>2. \A j \in Jobs : table[j].max - table[j].attempts > 0 <=>
                        ~(table[j].attempts >= table[j].max)
  <2> TAKE j \in Jobs
  <2>1. table[j].max \in Nat /\ table[j].attempts \in Nat
    BY JobNumbers
  <2> QED BY <2>1
<1> HIDE DEF recovered
<1>3. LostTo(w) \in SUBSET Lifecycle!Leased
  BY <1>1 DEF LostTo, Lifecycle!Leased
<1>4. PhaseOf(recovered) = Lifecycle!AfterExpiry(LostTo(w))
  BY <1>1, <1>2 DEF PhaseOf, LostTo, Lifecycle!AfterExpiry
<1>5. BudgetOf(recovered) = BudgetOf(table)
  BY <1>1 DEF BudgetOf
<1> QED BY <1>3, <1>4, <1>5 DEF recovered

-----------------------------------------------------------------------------
(* One lemma for each shape of a step *)

LEMMA EnqueueingRefines ==
  ASSUME IInv, Enqueueing
  PROVE  [Lifecycle!Next]_(Lifecycle!vars)
<1>1. PICK j \in Jobs, document \in Documents, priority \in Priorities,
           limit \in Limits, now \in Nat :
             table' = Enqueued(table, j, document, priority, limit, now)
  BY DEF Enqueueing
<1>2. table \in [Jobs -> Row]
  BY DEF IInv, TypeOK
<1>3. CASE table' = table
  BY <1>3, Unfolded
<1>4. CASE /\ table[j].status = "absent"
           /\ table' = [table EXCEPT ![j] = NewRow(document, priority, limit, now)]
  <2> DEFINE new == NewRow(document, priority, limit, now)
  <2>1. new.status = "pending" /\ new.max = limit /\ new.attempts = 0
    BY DEF NewRow
  <2>2. limit - 0 = limit
    BY ConstantFacts
  <2> HIDE DEF new
  <2>3. Lifecycle!Submit(j, limit)
    BY <1>2, <1>4, <2>1, <2>2 DEF new, Lifecycle!Submit
  <2> QED BY <2>3 DEF Lifecycle!Next
<1>5. CASE /\ table[j].status = "pending"
           /\ table' = [table EXCEPT ![j] = Refreshed(table[j], document, priority)]
  <2> DEFINE new == Refreshed(table[j], document, priority)
  <2>1. /\ new.status = table[j].status /\ new.max = table[j].max
        /\ new.attempts = table[j].attempts
    BY <1>2 DEF Refreshed, Row
  <2> HIDE DEF new
  <2>2. UNCHANGED <<PhaseOf(table), BudgetOf(table)>>
    BY <1>2, <1>5, <2>1 DEF new, PhaseOf, BudgetOf
  <2> QED BY <2>2, Unfolded
<1> QED BY <1>1, <1>3, <1>4, <1>5 DEF Enqueued

LEMMA RecoveringRefines ==
  ASSUME IInv, NEW w \in Workers, Recovering(w)
  PROVE  [Lifecycle!Next]_(Lifecycle!vars)
<1>1. stamp[w] # None /\ table' = Recovered(table, stamp[w])
  BY DEF Recovering
<1>2. Lifecycle!Expire(LostTo(w))
  BY <1>1, RecoveryExpires DEF Lifecycle!Expire, PhaseOf, BudgetOf
<1>3. LostTo(w) \in SUBSET Lifecycle!Leased
  BY <1>1, RecoveryExpires
<1>4. \E lost \in SUBSET Lifecycle!Leased : Lifecycle!Expire(lost)
  <2>1. PICK lost \in SUBSET Lifecycle!Leased : lost = LostTo(w)
    BY <1>3
  <2>2. Lifecycle!Expire(lost)
    BY <1>2, <2>1 DEF Lifecycle!Expire
  <2> QED BY <2>2
<1>5. Lifecycle!Next
  BY <1>4 DEF Lifecycle!Next
<1> QED BY <1>5

LEMMA LeasingRefines ==
  ASSUME IInv, NEW w \in Workers, NEW j \in Jobs, Leasing(w, j)
  PROVE  [Lifecycle!Next]_(Lifecycle!vars)
<1> DEFINE recovered == Recovered(table, stamp[w])
<1>1. /\ stamp[w] # None
      /\ recovered[j].status = "pending" /\ recovered[j].attempts < recovered[j].max
  BY DEF Leasing, Claimable
<1>2. recovered \in [Jobs -> Row]
  BY <1>1, RecoveredFacts, StampFacts DEF Callers
<1>3. recovered[j].max = table[j].max /\ recovered[j].attempts = table[j].attempts
  BY <1>1, RecoveredShape
<1>4. PICK lease \in Nat, owner \in Owners :
        table' = [recovered EXCEPT ![j] = LeasedRow(recovered[j], owner, lease, stamp[w])]
  BY DEF Leasing
<1> DEFINE new == LeasedRow(recovered[j], owner, lease, stamp[w])
<1>5. /\ LostTo(w) \in SUBSET Lifecycle!Leased
      /\ PhaseOf(recovered) = Lifecycle!AfterExpiry(LostTo(w))
      /\ BudgetOf(recovered) = BudgetOf(table)
  BY <1>1, RecoveryExpires
<1> HIDE DEF recovered
<1>6. /\ new.status = "leased" /\ new.max = table[j].max
      /\ new.attempts = table[j].attempts + 1
  BY <1>2, <1>3 DEF LeasedRow, Row
<1> HIDE DEF new
<1>7. PhaseOf(table') = [PhaseOf(recovered) EXCEPT ![j] = "leased"]
  BY <1>2, <1>4, <1>6 DEF new, PhaseOf
<1>8. BudgetOf(table') = [BudgetOf(recovered) EXCEPT ![j] = new.max - new.attempts]
  BY <1>2, <1>4 DEF new, BudgetOf
<1>9. /\ table[j].max - table[j].attempts > 0
      /\ new.max - new.attempts = (table[j].max - table[j].attempts) - 1
  BY <1>1, <1>3, <1>6, JobNumbers
<1>10. PhaseOf(recovered)[j] = "pending"
  BY <1>1 DEF PhaseOf
<1>11. BudgetOf(table)[j] = table[j].max - table[j].attempts
  BY DEF BudgetOf
<1>12. Lifecycle!Grant(LostTo(w), j)
  <2>1. Lifecycle!AfterExpiry(LostTo(w))[j] = "pending"
    BY <1>5, <1>10
  <2>2. PhaseOf(table') = [Lifecycle!AfterExpiry(LostTo(w)) EXCEPT ![j] = "leased"]
    BY <1>5, <1>7
  <2>3. BudgetOf(table') = [BudgetOf(table) EXCEPT ![j] = BudgetOf(table)[j] - 1]
    BY <1>5, <1>8, <1>9, <1>11
  <2> QED BY <1>9, <1>11, <2>1, <2>2, <2>3 DEF Lifecycle!Grant, PhaseOf, BudgetOf
<1> QED BY <1>5, <1>12 DEF Lifecycle!Next

\* A settlement, whatever row it leaves.
LEMMA SettlingRefines ==
  ASSUME IInv, NEW w \in Workers, NEW row, Settling(w, row),
         row.status \in {"pending", "done", "failed"},
         row.max = table[held[w].job].max,
         row.attempts = table[held[w].job].attempts,
         row.status = "pending" => row.attempts < row.max
  PROVE  [Lifecycle!Next]_(Lifecycle!vars)
<1> DEFINE recovered == Recovered(table, stamp[w])
           j == held[w].job
<1>1. /\ stamp[w] # None /\ j \in Jobs /\ ~Expired(table[j], stamp[w])
      /\ table[j].status = "leased"
      /\ table' = [recovered EXCEPT ![j] = row]
  BY DEF Settling, Current, Owns
<1>2. recovered \in [Jobs -> Row]
  BY <1>1, RecoveredFacts, StampFacts DEF Callers
<1>3. /\ LostTo(w) \in SUBSET Lifecycle!Leased
      /\ PhaseOf(recovered) = Lifecycle!AfterExpiry(LostTo(w))
      /\ BudgetOf(recovered) = BudgetOf(table)
  BY <1>1, RecoveryExpires
<1> HIDE DEF recovered, j
<1>4. PhaseOf(table') = [PhaseOf(recovered) EXCEPT ![j] = row.status]
  BY <1>1, <1>2 DEF PhaseOf
<1>5. BudgetOf(table') = [BudgetOf(recovered) EXCEPT ![j] = row.max - row.attempts]
  BY <1>1, <1>2 DEF BudgetOf
<1>6. BudgetOf(table)[j] = row.max - row.attempts
  BY <1>1 DEF BudgetOf, j
<1>7. BudgetOf(table') = BudgetOf(table)
  BY <1>3, <1>5, <1>6 DEF BudgetOf
<1>8. row.status = "pending" => BudgetOf(table)[j] > 0
  BY <1>1, <1>6, JobNumbers DEF j
<1>9. j \in Lifecycle!Leased \ LostTo(w)
  BY <1>1 DEF Lifecycle!Leased, LostTo
<1>10. Lifecycle!Settle(LostTo(w), j, row.status)
  BY <1>1, <1>3, <1>4, <1>7, <1>8, <1>9 DEF Lifecycle!Settle, PhaseOf, BudgetOf
<1> QED BY <1>1, <1>3, <1>10 DEF Lifecycle!Next

LEMMA RepricingRefines ==
  ASSUME IInv, Repricing
  PROVE  [Lifecycle!Next]_(Lifecycle!vars)
<1>1. PICK policy \in [Jobs -> Priorities] : table' = Reprioritized(table, policy)
  BY DEF Repricing
<1>2. \A j \in Jobs : /\ table'[j].status = table[j].status
                      /\ table'[j].max = table[j].max
                      /\ table'[j].attempts = table[j].attempts
  BY <1>1, JobNumbers DEF Reprioritized, Row
<1> QED BY <1>2, Unfolded DEF PhaseOf, BudgetOf

-----------------------------------------------------------------------------
(* The refinement *)

LEMMA InitRefines == Init => Lifecycle!Init
BY DEF Init, NoRow, Lifecycle!Init

LEMMA StepRefines == IInv /\ [Next]_vars => [Lifecycle!Next]_(Lifecycle!vars)
<1> SUFFICES ASSUME IInv, [Next]_vars PROVE [Lifecycle!Next]_(Lifecycle!vars)
  OBVIOUS
<1>1. CASE table' = table
  BY <1>1, Unfolded
<1>2. ASSUME NEW w \in Workers, Completing(w)
      PROVE  [Lifecycle!Next]_(Lifecycle!vars)
  <2> DEFINE row == DoneRow(table[held[w].job], stamp[w])
  <2>1. Settling(w, row) /\ held[w].job \in Jobs
    BY <1>2 DEF Completing, Settling
  <2>2. /\ row.status = "done" /\ row.max = table[held[w].job].max
        /\ row.attempts = table[held[w].job].attempts
    <3> DEFINE free == Unleased(table[held[w].job])
    <3>1. /\ free \in Row /\ free.max = table[held[w].job].max
          /\ free.attempts = table[held[w].job].attempts
      BY <2>1, JobNumbers, UnleasedFields
    <3>2. row = [free EXCEPT !.status = "done", !.error = "none", !.completed = stamp[w]]
      BY DEF DoneRow
    <3> HIDE DEF free, row
    <3> QED BY <3>1, <3>2 DEF Row
  <2> HIDE DEF row
  <2> QED BY <2>1, <2>2, SettlingRefines
<1>3. ASSUME NEW w \in Workers, NEW retry \in BOOLEAN, Failing(w, retry)
      PROVE  [Lifecycle!Next]_(Lifecycle!vars)
  <2> DEFINE row == FailedRow(table[held[w].job], retry, stamp[w])
             terminal == ~retry \/ table[held[w].job].attempts >= table[held[w].job].max
  <2>1. Settling(w, row) /\ held[w].job \in Jobs
    BY <1>3 DEF Failing, Settling
  <2>2. /\ row.status = IF terminal THEN "failed" ELSE "pending"
        /\ row.max = table[held[w].job].max
        /\ row.attempts = table[held[w].job].attempts
    BY <2>1, JobNumbers DEF FailedRow, Unleased, Row
  <2>3. row.status = "pending" => row.attempts < row.max
    BY <2>1, <2>2, JobNumbers
  <2>4. row.status \in {"pending", "done", "failed"}
    BY <2>2
  <2> HIDE DEF row, terminal
  <2> QED BY <2>1, <2>2, <2>3, <2>4, SettlingRefines
<1>4. Shaped
  BY StepShape
<1> QED BY <1>1, <1>2, <1>3, <1>4, EnqueueingRefines, RecoveringRefines,
           LeasingRefines, RepricingRefines DEF Shaped

\* The queue, with all its clocks, tokens and late callers, gives every job the
\* life of JobLifecycle.
THEOREM QueueImplementsLifecycle == Spec => ImplementsLifecycle
<1>1. Init => Lifecycle!Init
  BY InitRefines
<1>2. IInv /\ [Next]_vars => [Lifecycle!Next]_(Lifecycle!vars)
  BY StepRefines
<1> QED BY <1>1, <1>2, QueueInvariant, PTL DEF Spec, ImplementsLifecycle, Lifecycle!Spec

=============================================================================
