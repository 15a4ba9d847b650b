------------------------------ MODULE JobTable ------------------------------
(***************************************************************************)
(* The rows of the SQLite table narrative_jobs and what each statement of  *)
(* NarrativeJobQueue (src/src/debot4/v6/narrative/job_queue.py) does to    *)
(* them.  A table is a function from job ids to rows; a row whose status   *)
(* is "absent" is not stored yet.  Every operator is a pure function of    *)
(* the table and of the time `now` the operation read before it opened its *)
(* transaction, so that several state machines can share them.             *)
(*                                                                         *)
(* The definitions named Slip... are not part of the model: each is a      *)
(* definition below it with a slip in it, for the runs that show which     *)
(* property would notice ("mutants" in PROJECT.json).                      *)
(***************************************************************************)
EXTENDS Naturals

CONSTANTS Jobs,       \* job ids: a digest of the kind and the source's own id
          Documents,  \* payloads, records [content, detail]
          Owners,     \* worker names
          Lease,      \* lease_seconds
          RetryDelay, \* retry_delay_seconds
          Priorities, \* priorities in use, a subset of 1..100
          Limits,     \* values of max_attempts in use, a subset of 1..100
          None        \* SQL NULL

ASSUME TableAssumption ==
  /\ Lease \in Nat \ {0}
  /\ RetryDelay \in Nat
  /\ Priorities \subseteq 1..100
  /\ Limits \subseteq 1..100
  /\ None \notin Nat \cup Documents \cup Owners

(***************************************************************************)
(* What job_payloads.encode_job_input hashes: `content` is the immutable   *)
(* part of the document, `detail` the fields that may be observed anew     *)
(* (fetched_at, the DeBot market fields).  payload_json keeps both.        *)
(***************************************************************************)
Content(document) == document.content

Status == {"absent", "pending", "leased", "done", "failed"}
Terminal == {"done", "failed"}
Errors == {"none", "LeaseExpired", "Exception"}

Row == [status: Status, document: Documents \cup {None}, priority: 0..100,
        attempts: Nat, max: Limits \cup {0}, available: Nat, created: Nat,
        owner: Owners \cup {None}, lease: Nat \cup {None},
        expires: Nat \cup {None}, completed: Nat \cup {None}, error: Errors]

NoRow == [status |-> "absent", document |-> None, priority |-> 0,
          attempts |-> 0, max |-> 0, available |-> 0, created |-> 0, owner |-> None,
          lease |-> None, expires |-> None, completed |-> None,
          error |-> "none"]

\* Counts the retries apart from the first try.
SlipNewRow(document, priority, limit, now) ==
  [NoRow EXCEPT !.status = "pending", !.document = document, !.priority = priority,
                !.max = limit + 1, !.available = now, !.created = now]

NewRow(document, priority, limit, now) ==
  [status |-> "pending", document |-> document, priority |-> priority,
   attempts |-> 0, max |-> limit, available |-> now, created |-> now,
   owner |-> None, lease |-> None, expires |-> None, completed |-> None,
   error |-> "none"]

\* lease_owner, lease_id and lease_expires_at set to NULL.
Unleased(row) == [row EXCEPT !.owner = None, !.lease = None, !.expires = None]

Refreshed(row, document, priority) ==
  [row EXCEPT !.document = document,
              !.priority = IF row.priority <= priority THEN row.priority
                                                       ELSE priority]

-----------------------------------------------------------------------------
(* enqueue *)

\* Takes a known id for a known content.
SlipConflicts(table, j, document) == FALSE

Conflicts(table, j, document) ==
  /\ table[j].status # "absent"
  /\ Content(table[j].document) # Content(document)

\* A known pending row takes the new detail and the more urgent priority; a
\* leased, done or failed row is left alone.
Enqueued(table, j, document, priority, limit, now) ==
  IF table[j].status = "absent"
  THEN [table EXCEPT ![j] = NewRow(document, priority, limit, now)]
  ELSE IF table[j].status = "pending" /\ ~Conflicts(table, j, document)
  THEN [table EXCEPT ![j] = Refreshed(table[j], document, priority)]
  ELSE table

-----------------------------------------------------------------------------
(* _recover_expired *)

\* Recovers a lease one instant early.
SlipExpired(row, now) == row.status = "leased" /\ row.expires <= now + 1

Expired(row, now) == row.status = "leased" /\ row.expires <= now

\* Does not count an attempt whose lease was lost.
SlipRecoveredRow(row, now) ==
  IF Expired(row, now)
  THEN [Unleased(row) EXCEPT !.status = "pending", !.available = now,
                             !.attempts = row.attempts - 1,
                             !.error = "LeaseExpired"]
  ELSE row

RecoveredRow(row, now) ==
  IF ~Expired(row, now) THEN row
  ELSE IF row.attempts >= row.max
  THEN [Unleased(row) EXCEPT !.status = "failed", !.completed = now,
                             !.error = "LeaseExpired"]
  ELSE [Unleased(row) EXCEPT !.status = "pending", !.available = now,
                             !.error = "LeaseExpired"]

\* Leaves expired leases where they are.
SlipRecovered(table, now) == table

Recovered(table, now) == [j \in Jobs |-> RecoveredRow(table[j], now)]

-----------------------------------------------------------------------------
(* claim *)

\* Does not wait for available_at.
SlipClaimable(row, now) == row.status = "pending" /\ row.attempts < row.max

Claimable(row, now) ==
  /\ row.status = "pending"
  /\ row.available <= now
  /\ row.attempts < row.max

\* ORDER BY priority, created_at DESC, available_at.  The last key, the job id,
\* is a digest: rows that tie on the others may come in any order.
Before(r, s) ==
  \/ r.priority < s.priority
  \/ /\ r.priority = s.priority
     /\ \/ r.created > s.created
        \/ r.created = s.created /\ r.available < s.available

Ready(table, now) == {j \in Jobs : Claimable(table[j], now)}

Selected(table, now) ==
  {j \in Ready(table, now) :
     \A k \in Ready(table, now) : ~Before(table[k], table[j])}

LeasedRow(row, owner, lease, now) ==
  [row EXCEPT !.status = "leased", !.attempts = row.attempts + 1,
              !.owner = owner, !.lease = lease, !.expires = now + Lease,
              !.error = "none"]

-----------------------------------------------------------------------------
(* ack, fail *)

\* Trusts the worker's name alone.
SlipOwns(table, j, owner, lease) ==
  table[j].status = "leased" /\ table[j].owner = owner

Owns(table, j, owner, lease) ==
  /\ table[j].status = "leased"
  /\ table[j].owner = owner
  /\ table[j].lease = lease

\* Leaves the lease columns set.
SlipDoneRow(row, now) ==
  [row EXCEPT !.status = "done", !.error = "none", !.completed = now]

DoneRow(row, now) ==
  [Unleased(row) EXCEPT !.status = "done", !.error = "none", !.completed = now]

\* Allows one attempt more than max_attempts.
SlipFailedRow(row, retry, now) ==
  LET terminal == ~retry \/ row.attempts > row.max
  IN [Unleased(row) EXCEPT !.status = IF terminal THEN "failed" ELSE "pending",
                           !.available = now + RetryDelay,
                           !.error = "Exception",
                           !.completed = IF terminal THEN now ELSE None]

FailedRow(row, retry, now) ==
  LET terminal == ~retry \/ row.attempts >= row.max
  IN [Unleased(row) EXCEPT !.status = IF terminal THEN "failed" ELSE "pending",
                           !.available = now + RetryDelay,
                           !.error = "Exception",
                           !.completed = IF terminal THEN now ELSE None]

-----------------------------------------------------------------------------
(* reprioritize_pending *)

\* Forgets WHERE status='pending'.
SlipReprioritized(table, policy) ==
  [j \in Jobs |-> IF table[j].status = "absent" THEN table[j]
                  ELSE [table[j] EXCEPT !.priority = policy[j]]]

\* The policy overwrites the priority of every pending row, upwards too.
Reprioritized(table, policy) ==
  [j \in Jobs |-> IF table[j].status = "pending"
                  THEN [table[j] EXCEPT !.priority = policy[j]]
                  ELSE table[j]]

=============================================================================
