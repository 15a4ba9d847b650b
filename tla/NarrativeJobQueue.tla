-------------------------- MODULE NarrativeJobQueue --------------------------
(***************************************************************************)
(* NarrativeJobQueue (src/src/debot4/v6/narrative/job_queue.py) shared by  *)
(* the collector threads, which enqueue, and by research workers, which    *)
(* claim a job, hold it in memory for as long as the research takes, and   *)
(* then ack or fail it.                                                    *)
(*                                                                         *)
(* Every public operation reads the clock first (self._now()) and then     *)
(* waits for the lock and for BEGIN IMMEDIATE, for up to the 5 s busy      *)
(* timeout: it is two steps here, ReadClock and the transaction, and the   *)
(* clock and other callers may move between the two.                       *)
(***************************************************************************)
EXTENDS JobTable

CONSTANTS Collectors, \* callers of enqueue
          Workers,    \* callers of claim, ack and fail
          NameOf,     \* the name each worker passes; two processes may share it
          MaxTime     \* bound on the clock

ASSUME QueueAssumption ==
  /\ Collectors \cap Workers = {}
  /\ NameOf \in [Workers -> Owners]
  /\ None \notin Jobs
  /\ MaxTime \in Nat

VARIABLES clock,     \* the wall clock every caller reads
          table,     \* the table narrative_jobs, durable
          nextLease, \* lease ids issued so far; secrets.token_hex never repeats
          stamp,     \* the `now` a caller has read and not used yet
          held       \* the NarrativeJob a worker got from claim

vars == <<clock, table, nextLease, stamp, held>>

Callers == Collectors \cup Workers
Ticket == [job: Jobs, lease: Nat, document: Documents]
NoTicket == [job |-> None, lease |-> 0, document |-> None]

Init ==
  /\ clock = 0
  /\ table = [j \in Jobs |-> NoRow]
  /\ nextLease = 0
  /\ stamp = [p \in Callers |-> None]
  /\ held = [w \in Workers |-> NoTicket]

Tick ==
  /\ clock < MaxTime
  /\ clock' = clock + 1
  /\ UNCHANGED <<table, nextLease, stamp, held>>

ReadClock(p) ==
  /\ stamp[p] = None
  /\ stamp' = [stamp EXCEPT ![p] = clock]
  /\ UNCHANGED <<clock, table, nextLease, held>>

\* The transaction of p's operation, on the clock value p read before it.
Transaction(p) ==
  /\ stamp[p] # None
  /\ stamp' = [stamp EXCEPT ![p] = None]
  /\ UNCHANGED clock

Holds(w) == held[w] # NoTicket

\* enqueue: a JobContentConflict rolls back, and leaves the table as it is.
Enqueue(p, j, document, priority, limit) ==
  /\ Transaction(p)
  /\ table' = Enqueued(table, j, document, priority, limit, stamp[p])
  /\ UNCHANGED <<nextLease, held>>

\* claim with nothing ready: expired leases are recovered all the same.
ClaimNothing(w) ==
  /\ ~Holds(w)
  /\ Transaction(w)
  /\ Ready(Recovered(table, stamp[w]), stamp[w]) = {}
  /\ table' = Recovered(table, stamp[w])
  /\ UNCHANGED <<nextLease, held>>

ClaimJob(w, j) ==
  /\ ~Holds(w)
  /\ Transaction(w)
  /\ LET recovered == Recovered(table, stamp[w])
     IN /\ j \in Selected(recovered, stamp[w])
        /\ table' = [recovered EXCEPT ![j] =
             LeasedRow(recovered[j], NameOf[w], nextLease, stamp[w])]
        /\ held' = [held EXCEPT ![w] =
             [job |-> j, lease |-> nextLease,
              document |-> recovered[j].document]]
  /\ nextLease' = nextLease + 1

\* A slip in Finish (see JobTable): expired leases are not recovered first.
SlipFinish(w, update) ==
  /\ Holds(w)
  /\ Transaction(w)
  /\ table' = IF Owns(table, held[w].job, NameOf[w], held[w].lease)
              THEN [table EXCEPT ![held[w].job] = update]
              ELSE table
  /\ held' = [held EXCEPT ![w] = NoTicket]
  /\ UNCHANGED nextLease

\* ack and fail end with `update` of the row, or with LeaseLostError, which
\* rolls the recovery back too.  Either way the worker forgets the job.
Finish(w, update) ==
  LET recovered == Recovered(table, stamp[w])
      j == held[w].job
  IN /\ Holds(w)
     /\ Transaction(w)
     /\ table' = IF Owns(recovered, j, NameOf[w], held[w].lease)
                 THEN [recovered EXCEPT ![j] = update]
                 ELSE table
     /\ held' = [held EXCEPT ![w] = NoTicket]
     /\ UNCHANGED nextLease

Ack(w) == Finish(w, DoneRow(table[held[w].job], stamp[w]))

Fail(w, retry) == Finish(w, FailedRow(table[held[w].job], retry, stamp[w]))

\* reprioritize_pending, when a service starts; its clock only dates the rows.
Reprioritize(policy) ==
  /\ table' = Reprioritized(table, policy)
  /\ UNCHANGED <<clock, nextLease, stamp, held>>

\* A worker process dies, its operation ends in an error (a busy or closed
\* database, a row that does not decode): what it held in memory is gone.
Abandon(w) ==
  /\ Holds(w) \/ stamp[w] # None
  /\ held' = [held EXCEPT ![w] = NoTicket]
  /\ stamp' = [stamp EXCEPT ![w] = None]
  /\ UNCHANGED <<clock, table, nextLease>>

EnqueueStep ==
  \E p \in Collectors, j \in Jobs, document \in Documents,
     priority \in Priorities, limit \in Limits :
       Enqueue(p, j, document, priority, limit)

WorkerStep(w) ==
  \/ ClaimNothing(w)
  \/ \E j \in Jobs : ClaimJob(w, j)
  \/ Ack(w)
  \/ \E retry \in BOOLEAN : Fail(w, retry)
  \/ Abandon(w)

Next ==
  \/ Tick
  \/ \E p \in Callers : ReadClock(p)
  \/ EnqueueStep
  \/ \E w \in Workers : WorkerStep(w)
  \/ \E policy \in [Jobs -> Priorities] : Reprioritize(policy)

Spec == Init /\ [][Next]_vars

-----------------------------------------------------------------------------
(* Properties *)

\* Rows, clock readings and tickets keep their shape, and no caller has read a
\* time that has not come.
TypeOK ==
  /\ clock \in Nat
  /\ table \in [Jobs -> Row]
  /\ nextLease \in Nat
  /\ stamp \in [Callers -> Nat \cup {None}]
  /\ held \in [Workers -> Ticket \cup {NoTicket}]

\* No statement trips one of the CHECK constraints of job_queue_schema.py, which
\* would turn an operation of the queue into an IntegrityError: a row is leased
\* exactly while its three lease columns are set, and dated exactly when it is
\* done or failed.
RowsPassChecks ==
  \A j \in Jobs :
    /\ (table[j].status = "leased") <=>
         (table[j].owner # None /\ table[j].lease # None /\ table[j].expires # None)
    /\ (table[j].status \in Terminal) <=> (table[j].completed # None)

\* A pending job can always be claimed once its time has come: whichever of
\* fail, expiry and re-observation put it back, it has an attempt left.  claim
\* skips a pending row without one, and nothing else would ever end it.
NeverStranded ==
  \A j \in Jobs : table[j].status = "pending" => table[j].attempts < table[j].max

\* The lease w was given is the one in the row: w may still settle the job.
Current(w) == Holds(w) /\ Owns(table, held[w].job, NameOf[w], held[w].lease)

\* However leases expire and are given out again, and even when two processes
\* run under one worker name, at most one of those researching a job can settle
\* it.
OneCurrentHolder ==
  \A v, w \in Workers :
    Current(v) /\ Current(w) /\ held[v].job = held[w].job => v = w

\* What a worker is researching is what the row still says, up to the details
\* that may be observed anew: no enqueue changes a job's content under it.
HeldContentStands ==
  \A w \in Workers :
    Holds(w) => Content(held[w].document) = Content(table[held[w].job].document)

\* Although every time is read before the transaction that stores it, stored
\* times are causal: no job becomes available, expires or completes before it
\* was created.
TimesCausal ==
  \A j \in Jobs :
    /\ table[j].created <= table[j].available
    /\ table[j].status = "leased" => table[j].created + Lease <= table[j].expires
    /\ table[j].status \in Terminal => table[j].created <= table[j].completed

\* A done or failed job is never touched again: not by a late ack, an expiry,
\* a new observation of its source or a new priority policy.
TerminalIsFinal ==
  [][\A j \in Jobs : table[j].status \in Terminal => table'[j] = table[j]]_vars

\* A job is completed only by the worker whose lease is in its row, and only
\* with a clock reading that the lease outlasts, whether or not some other
\* caller has noticed its expiry.
OnlyLiveLeaseCompletes ==
  [][\A j \in Jobs :
       table'[j].status = "done" /\ table[j].status # "done" =>
         \E w \in Workers :
           /\ Current(w) /\ held[w].job = j
           /\ stamp[w] < table[j].expires]_vars

\* Nobody loses a lease that still runs, unless he settles it himself.
LeaseKeptUntilExpiry ==
  [][\A j \in Jobs :
       table[j].status = "leased" /\ table'[j].lease # table[j].lease =>
         \/ table[j].expires <= clock
         \/ \E w \in Workers :
              Current(w) /\ held[w].job = j /\ held'[w] = NoTicket]_vars

\* The queue gives its callers the life of a job that JobLifecycle promises.
Lifecycle ==
  INSTANCE JobLifecycle WITH
    phase <- [j \in Jobs |-> table[j].status],
    budget <- [j \in Jobs |-> table[j].max - table[j].attempts]

ImplementsLifecycle == Lifecycle!Spec

\* What claim's docstring says (job_queue.py:129): the ready job it leases is
\* the oldest one, here among those of the most urgent priority.
ClaimsOldestReady ==
  [][\A w \in Workers, j \in Jobs :
       ClaimJob(w, j) =>
         \A k \in Ready(table, stamp[w]) :
           table[k].priority = table[j].priority =>
             table[j].created <= table[k].created]_vars
=============================================================================
