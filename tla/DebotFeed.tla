------------------------------ MODULE DebotFeed ------------------------------
(***************************************************************************)
(* The DeBot narrative feed (narrative/debot_feed.py): one page of signals *)
(* is read, those with a reason to be researched are put into the job      *)
(* queue (NarrativeCollector._accept_debot), and only then are all ids of  *)
(* the page added to the checkpoint.  The checkpoint file and the copy in  *)
(* memory are separate: _write may fail before or after os.replace.        *)
(*                                                                         *)
(* The page shows the newest signals.  The provider goes on changing what  *)
(* it shows of a signal: the trades of its wallets are part of the content *)
(* that a job is compared by, and the reasons come from them.              *)
(***************************************************************************)
EXTENDS Naturals, FiniteSets, Sequences

CONSTANTS FeedPage,   \* signals on a page
          FeedLimit,  \* max_signal_ids
          MaxSignals, \* bound on the signals
          MaxChanges, \* bound on the changes of a signal
          NoJob

ASSUME FeedAssumption ==
  /\ FeedPage \in Nat \ {0} /\ FeedLimit \in Nat \ {0}
  /\ MaxSignals \in Nat /\ MaxChanges \in Nat
  /\ NoJob \notin Nat

VARIABLES shown,    \* what the provider shows of the signals it has issued
          feedJobs, \* content of the job of each signal, or NoJob
          feedSeen, \* the ids in memory
          feedFile, \* the ids in the file
          feedWork, \* the poll_once that runs, or NoWork
          declined  \* ids committed while there was no reason to research them

feedVars == <<shown, feedJobs, feedSeen, feedFile, feedWork, declined>>

NoWork == [ids |-> {}, todo |-> {}, idle |-> {}]

FeedInit ==
  /\ shown = <<>>
  /\ feedJobs = [i \in 1..MaxSignals |-> NoJob]
  /\ feedSeen = {} /\ feedFile = {}
  /\ feedWork = NoWork
  /\ declined = {}

-----------------------------------------------------------------------------
(* The provider *)

IssueSignal ==
  /\ Len(shown) < MaxSignals
  /\ \E reason \in BOOLEAN : shown' = Append(shown, [content |-> 0, reason |-> reason])
  /\ UNCHANGED <<feedJobs, feedSeen, feedFile, feedWork, declined>>

ChangeSignal(i) ==
  /\ shown[i].content < MaxChanges
  /\ \E reason \in BOOLEAN :
       shown' = [shown EXCEPT ![i] = [content |-> @.content + 1, reason |-> reason]]
  /\ UNCHANGED <<feedJobs, feedSeen, feedFile, feedWork, declined>>

OnFeedPage == {i \in DOMAIN shown : i + FeedPage > Len(shown)}

-----------------------------------------------------------------------------
(* poll_once *)

\* The candidates among `ids`, as the page shows them.
Candidates(ids) == {[id |-> i, content |-> shown[i].content] : i \in {k \in ids : shown[k].reason}}

FetchSignals ==
  /\ feedWork = NoWork
  /\ OnFeedPage # {}
  /\ LET unseen == OnFeedPage \ feedSeen
     IN  feedWork' = [ids |-> OnFeedPage, todo |-> Candidates(unseen),
                      idle |-> {i \in unseen : ~shown[i].reason}]
  /\ UNCHANGED <<shown, feedJobs, feedSeen, feedFile, declined>>

\* _accept_debot enqueues the oldest candidate left: a new job, or the same content.
AcceptSignal ==
  /\ \E next \in feedWork.todo :
       /\ \A later \in feedWork.todo : next.id <= later.id
       /\ feedJobs[next.id] \in {NoJob, next.content}
       /\ feedJobs' = [feedJobs EXCEPT ![next.id] = next.content]
       /\ feedWork' = [feedWork EXCEPT !.todo = @ \ {next}]
  /\ UNCHANGED <<shown, feedSeen, feedFile, declined>>

\* JobContentConflict, a queue that is busy, a checkpoint at its limit, or a
\* write that fails before os.replace.
FailFeed ==
  /\ feedWork # NoWork
  /\ feedWork' = NoWork
  /\ UNCHANGED <<shown, feedJobs, feedSeen, feedFile, declined>>

\* Commits when the first candidate has been accepted.
SlipCommitReady == feedWork # NoWork /\ Cardinality(feedWork.todo) <= 1

CommitReady == feedWork # NoWork /\ feedWork.todo = {}

\* A write that succeeds, or fails after os.replace.
CommitSignals ==
  LET merged == feedSeen \cup feedWork.ids IN
  /\ CommitReady
  /\ Cardinality(merged) <= FeedLimit
  /\ feedFile' = merged
  /\ feedSeen' \in {merged, feedSeen}
  /\ declined' = declined \cup feedWork.idle
  /\ feedWork' = NoWork
  /\ UNCHANGED <<shown, feedJobs>>

RestartFeed ==
  /\ feedSeen' = feedFile
  /\ feedWork' = NoWork
  /\ UNCHANGED <<shown, feedJobs, feedFile, declined>>

FeedNext ==
  \/ IssueSignal
  \/ \E i \in DOMAIN shown : ChangeSignal(i)
  \/ FetchSignals
  \/ AcceptSignal
  \/ FailFeed
  \/ CommitSignals
  \/ RestartFeed

-----------------------------------------------------------------------------

\* A signal that the checkpoint remembers, on disk or in memory, has a job, or
\* was read at a time when there was no reason to research it: no failure or
\* restart makes the feed forget a candidate it has marked (debot_feed.py:183
\* "Advance only after the downstream durable acceptor succeeds").
SeenIsQueued ==
  \A i \in feedSeen \cup feedFile : feedJobs[i] # NoJob \/ i \in declined
=============================================================================
