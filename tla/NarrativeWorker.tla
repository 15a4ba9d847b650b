--------------------------- MODULE NarrativeWorker ---------------------------
(***************************************************************************)
(* NarrativeService processes over the two databases they share: the job   *)
(* queue (job_queue.py) and the append-only store of research packages     *)
(* (research_store.py).  In each process one thread runs the loop of       *)
(* service.run_worker over worker.work_once, while the main thread waits   *)
(* for a signal or a dead thread, joins its threads for a bounded time and *)
(* then closes the store before the queue, whether or not the worker has   *)
(* finished; the worker is a daemon thread and dies with the process.      *)
(*                                                                         *)
(* Time is relative: the columns available_at and lease_expires_at of      *)
(* `table` count down to the present, 0, and what has passed stays at 0.   *)
(* An operation reads the clock and runs its transaction in one step;      *)
(* NarrativeJobQueue takes the two apart.  All rows count as created       *)
(* equally long ago, so that a claim may take any ready job of the most    *)
(* urgent priority, the newest among them.                                 *)
(***************************************************************************)
EXTENDS JobTable

CONSTANTS Services, \* processes that run build_narrative_app(research=True)
          Name      \* the worker name, the same default in every process

ASSUME WorkerAssumption ==
  /\ Name \in Owners
  /\ None \notin Jobs

VARIABLES table,    \* the table narrative_jobs, durable
          packages, \* packages stored for each job, durable and append-only
          phase,    \* how far each process has come in its life
          thread,   \* where the worker thread is in work_once
          held      \* the job work_once works on, and its lease

vars == <<table, packages, phase, thread, held>>

Phase == {"down", "running", "stopping", "storeClosed", "closed"}
Thread == {"idle", "claiming", "researching", "stored", "failing"}

\* A lease id is a fresh random token.  Attempts of one job are numbered, so
\* the number of the attempt tells its leases apart just as well.
Ticket == [job: Jobs, lease: Nat]
NoTicket == [job |-> None, lease |-> 0]

Init ==
  /\ table = [j \in Jobs |-> NoRow]
  /\ packages = [j \in Jobs |-> 0]
  /\ phase = [s \in Services |-> "down"]
  /\ thread = [s \in Services |-> "idle"]
  /\ held = [s \in Services |-> NoTicket]

QueueOpen(s) == phase[s] \in {"running", "stopping", "storeClosed"}
StoreOpen(s) == phase[s] \in {"running", "stopping"}

Goes(s, place) == thread' = [thread EXCEPT ![s] = place]
Forgets(s) == held' = [held EXCEPT ![s] = NoTicket]

-----------------------------------------------------------------------------
(* Time and collectors *)

Sooner(n) == IF n = None \/ n = 0 THEN n ELSE n - 1

Waiting(row) == row.available > 0 \/ row.expires \notin {None, 0}

Tick ==
  /\ \E j \in Jobs : Waiting(table[j])
  /\ table' = [j \in Jobs |->
       [table[j] EXCEPT !.available = Sooner(@), !.expires = Sooner(@)]]
  /\ UNCHANGED <<packages, phase, thread, held>>

\* A collector thread of a process accepts a source item.
Enqueue(s, j, document, priority, limit) ==
  /\ QueueOpen(s)
  /\ table' = Enqueued(table, j, document, priority, limit, 0)
  /\ UNCHANGED <<packages, phase, thread, held>>

-----------------------------------------------------------------------------
(* The life of a process *)

\* The constructor of NarrativeService reapplies the priority policy.
Start(s, policy) ==
  /\ phase[s] = "down"
  /\ phase' = [phase EXCEPT ![s] = "running"]
  /\ table' = Reprioritized(table, policy)
  /\ UNCHANGED <<packages, thread, held>>

\* The stop event is set: by a signal, or because some thread has died.
Stop(s) ==
  /\ phase[s] = "running"
  /\ phase' = [phase EXCEPT ![s] = "stopping"]
  /\ UNCHANGED <<table, packages, thread, held>>

\* The join of the worker has returned, because the thread has ended or because
\* it took longer than THREAD_JOIN_SECONDS.
CloseStore(s) ==
  /\ phase[s] = "stopping"
  /\ phase' = [phase EXCEPT ![s] = "storeClosed"]
  /\ UNCHANGED <<table, packages, thread, held>>

CloseQueue(s) ==
  /\ phase[s] = "storeClosed"
  /\ phase' = [phase EXCEPT ![s] = "closed"]
  /\ UNCHANGED <<table, packages, thread, held>>

Ends(s) ==
  /\ phase' = [phase EXCEPT ![s] = "down"]
  /\ Goes(s, "idle")
  /\ Forgets(s)
  /\ UNCHANGED <<table, packages>>

Exit(s) == phase[s] = "closed" /\ Ends(s)

Crash(s) == phase[s] # "down" /\ Ends(s)

-----------------------------------------------------------------------------
(* The worker thread *)

\* while not stop.is_set(): the thread may claim after stop, never start over.
Loop(s) ==
  /\ phase[s] = "running"
  /\ thread[s] = "idle"
  /\ Goes(s, "claiming")
  /\ UNCHANGED <<table, packages, phase, held>>

ClaimJob(s, j) ==
  LET recovered == Recovered(table, 0)
  IN /\ thread[s] = "claiming"
     /\ QueueOpen(s)
     /\ j \in Selected(recovered, 0)
     /\ table' = [recovered EXCEPT ![j] =
          LeasedRow(recovered[j], Name, recovered[j].attempts + 1, 0)]
     /\ held' = [held EXCEPT ![s] =
          [job |-> j, lease |-> recovered[j].attempts + 1]]
     /\ Goes(s, "researching")
     /\ UNCHANGED <<packages, phase>>

ClaimNothing(s) ==
  /\ thread[s] = "claiming"
  /\ QueueOpen(s)
  /\ Ready(Recovered(table, 0), 0) = {}
  /\ table' = Recovered(table, 0)
  /\ Goes(s, "idle")
  /\ UNCHANGED <<packages, phase, held>>

\* Takes a closed store for an open one that has the package already.
SlipStore(s) ==
  /\ thread[s] = "researching"
  /\ packages' = IF StoreOpen(s)
                 THEN [packages EXCEPT ![held[s].job] = packages[held[s].job] + 1]
                 ELSE packages
  /\ Goes(s, "stored")
  /\ UNCHANGED <<table, phase, held>>

\* research_*: the investigation returns and its package is appended.  The
\* package id digests researched_at too, so no two attempts share a package.
\* After the COMMIT append secures its files, which may still raise.
Store(s) ==
  /\ thread[s] = "researching"
  /\ StoreOpen(s)
  /\ packages' = [packages EXCEPT ![held[s].job] = packages[held[s].job] + 1]
  /\ Goes(s, "stored") \/ Goes(s, "failing")
  /\ UNCHANGED <<table, phase, held>>

\* The investigation or the append raises; a closed store always does.
ResearchFails(s) ==
  /\ thread[s] = "researching"
  /\ Goes(s, "failing")
  /\ UNCHANGED <<table, packages, phase, held>>

\* Goes back to the research when the lease is lost, to save the attempt.
SlipSettle(s, update) ==
  LET recovered == Recovered(table, 0)
      owns == Owns(recovered, held[s].job, Name, held[s].lease)
  IN /\ QueueOpen(s)
     /\ table' = IF owns THEN [recovered EXCEPT ![held[s].job] = update] ELSE table
     /\ IF owns THEN Goes(s, "idle") /\ Forgets(s)
        ELSE Goes(s, "researching") /\ UNCHANGED held
     /\ UNCHANGED <<packages, phase>>

\* ack or fail.  A lost lease raises LeaseLostError, which run_worker swallows.
Settle(s, update) ==
  LET recovered == Recovered(table, 0)
  IN /\ QueueOpen(s)
     /\ table' = IF Owns(recovered, held[s].job, Name, held[s].lease)
                 THEN [recovered EXCEPT ![held[s].job] = update]
                 ELSE table
     /\ Goes(s, "idle")
     /\ Forgets(s)
     /\ UNCHANGED <<packages, phase>>

Ack(s) ==
  /\ thread[s] = "stored"
  /\ Settle(s, DoneRow(table[held[s].job], 0))

Fail(s) ==
  /\ thread[s] = "failing"
  /\ Settle(s, FailedRow(table[held[s].job], TRUE, 0))

\* claim, ack or fail raises something else (the database is busy for 5 s, or
\* closed) and changes nothing; run_worker goes on with the next cycle.
QueueRaises(s) ==
  /\ phase[s] # "down"
  /\ thread[s] \in {"claiming", "stored", "failing"}
  /\ Goes(s, "idle")
  /\ Forgets(s)
  /\ UNCHANGED <<table, packages, phase>>

Claim(s) == ClaimNothing(s) \/ \E j \in Jobs : ClaimJob(s, j)

WorkOnce(s) ==
  Loop(s) \/ Claim(s) \/ Store(s) \/ ResearchFails(s) \/ Ack(s) \/ Fail(s)
    \/ QueueRaises(s)

Starts(s) == \E policy \in [Jobs -> Priorities] : Start(s, policy)

Shutdown(s) == Stop(s) \/ CloseStore(s) \/ CloseQueue(s) \/ Exit(s) \/ Crash(s)

Enqueues(s) ==
  \E j \in Jobs, document \in Documents, priority \in Priorities,
     limit \in Limits : Enqueue(s, j, document, priority, limit)

Next ==
  \/ Tick
  \/ \E s \in Services : WorkOnce(s) \/ Starts(s) \/ Shutdown(s) \/ Enqueues(s)

Spec == Init /\ [][Next]_vars

\* Time passes; a process that is down is started again; every HTTP call of the
\* research has a timeout, so it ends; a process that closes ends.  The thread
\* gets, again and again, through the head of its loop and through a claim: no
\* process is always stopped, and no database always busy, before it has claimed.
Fairness ==
  /\ WF_vars(Tick)
  /\ \A s \in Services :
       /\ WF_vars(Starts(s))
       /\ WF_vars(Exit(s))
       /\ WF_vars(CloseStore(s))
       /\ WF_vars(CloseQueue(s))
       /\ WF_vars(Store(s) \/ ResearchFails(s))
       /\ WF_vars(Ack(s) \/ Fail(s) \/ QueueRaises(s))
       /\ SF_vars(Loop(s))
       /\ SF_vars(Claim(s))

FairSpec == Spec /\ Fairness

-----------------------------------------------------------------------------
(* Properties *)

\* Rows, phases, thread positions and tickets keep their shape, and a thread has
\* a ticket exactly while it works on a job.
TypeOK ==
  /\ table \in [Jobs -> Row]
  /\ packages \in [Jobs -> Nat]
  /\ phase \in [Services -> Phase]
  /\ thread \in [Services -> Thread]
  /\ held \in [Services -> Ticket \cup {NoTicket}]
  /\ \A s \in Services :
       held[s] # NoTicket <=> thread[s] \in {"researching", "stored", "failing"}

\* A job is done only when a package of its research is in the store, although
\* the two databases commit apart, and the store of a process that shuts down
\* closes under its worker thread.
DoneIsStored ==
  \A j \in Jobs : table[j].status = "done" => packages[j] > 0

\* Research that is retried after a crash between append and ack, or that
\* outlives its lease, is stored again, but never more often than the job has
\* been claimed: the attempt budget bounds the duplicates.
StoredPerAttempt ==
  \A j \in Jobs : packages[j] <= table[j].attempts

\* Whatever happens to the processes, a queued job comes to an end: it is done,
\* or its attempts run out.  No crash, lost lease, busy database or shutdown
\* leaves it leased or pending for ever.
EveryJobEnds ==
  \A j \in Jobs :
    table[j].status = "pending" ~> table[j].status \in Terminal

==============================================================================
