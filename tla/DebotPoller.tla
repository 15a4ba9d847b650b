----------------------------- MODULE DebotPoller -----------------------------
(***************************************************************************)
(* The poller of DeBot's signals (debot/poller.py): a bootstrap reads some *)
(* pages of history, then the newest page is read again and again.  What   *)
(* is new is recorded as evidence when a KOL bought, and put into the      *)
(* bounded queue of decisions when it happened after the watermark.        *)
(*                                                                         *)
(* Signals are numbered by their event time; the provider may show one     *)
(* later than one that happened after it.  A page is the newest signals    *)
(* shown, the cursor of the next page the oldest of this one.              *)
(***************************************************************************)
EXTENDS Naturals, Sequences, FiniteSets

CONSTANTS Events,         \* number of signals
          KolBuys,        \* those that qualify as evidence
          SignalPage,     \* signals on a page
          BootstrapPages, \* bootstrap_pages
          QueueSize       \* size of the queue of decisions

ASSUME PollerAssumption ==
  /\ Events \in Nat /\ KolBuys \subseteq 1..Events
  /\ SignalPage \in Nat \ {0} /\ BootstrapPages \in Nat \ {0}
  /\ QueueSize \in Nat \ {0}

VARIABLES provided,  \* signals the provider shows
          phase,     \* "bootstrap", "running" or "dead"
          read,      \* pages of the bootstrap read so far
          cursor,    \* the next of them is of the signals below it
          seen,      \* seen
          watermark, \* watermark
          page,      \* signals of a live page still to be looked at
          newest,    \* the newest event time of that page, 0 when there is none
          evidenced, \* signals with evidence in the ledger
          waiting,   \* how many signals wait in the queue of decisions
          handed,    \* all signals ever put into it, each with closed
          closed     \* how many of them before the last page read to its end

pollerVars == <<provided, phase, read, cursor, seen, watermark, page, newest,
                evidenced, waiting, handed, closed>>

\* Two signals happen at each moment.
Time(i) == (i + 1) \div 2

Moments(ids) == {Time(i) : i \in ids}
LatestOf(times) == IF times = {} THEN 0 ELSE CHOOSE t \in times : \A u \in times : u <= t
Earliest(ids) == CHOOSE i \in ids : \A k \in ids : i <= k

PollerInit ==
  /\ provided = {} /\ evidenced = {} /\ waiting = 0 /\ handed = <<>> /\ closed = 0
  /\ phase = "bootstrap" /\ read = 0 /\ cursor = Events + 1
  /\ seen = {} /\ watermark = 0
  /\ page = {} /\ newest = 0

Provide(i) ==
  /\ i \notin provided
  /\ provided' = provided \cup {i}
  /\ UNCHANGED <<phase, read, cursor, seen, watermark, page, newest,
                 evidenced, waiting, handed, closed>>

\* The newest SignalPage signals below a cursor.
PageBelow(event) ==
  {i \in provided : i < event /\
     Cardinality({k \in provided : i < k /\ k < event}) < SignalPage}

-----------------------------------------------------------------------------
(* _bootstrap *)

\* The watermark is set with the first page; when that is empty it is the
\* present, before which all that is shown has happened.
FirstWatermark(ids) ==
  IF ids = {} THEN {t \in Moments(1..Events) \cup {0} : t >= LatestOf(Moments(provided))}
              ELSE {LatestOf(Moments(ids))}

\* Reading goes on for BootstrapPages at most, and ends earlier at the last
\* page of the provider or beyond the lookback.
BootstrapPageRead ==
  /\ phase = "bootstrap"
  /\ LET ids == PageBelow(cursor)
     IN  /\ seen' = seen \cup ids
         /\ evidenced' = evidenced \cup (ids \cap KolBuys)
         /\ IF read = 0 THEN watermark' \in FirstWatermark(ids) ELSE UNCHANGED watermark
         /\ cursor' = IF ids = {} THEN cursor ELSE Earliest(ids)
  /\ read' = read + 1
  /\ \/ read' < BootstrapPages /\ UNCHANGED <<phase, closed>>
     \/ phase' = "running" /\ closed' = Len(handed)
  /\ UNCHANGED <<provided, page, newest, waiting, handed>>

\* A request or the ledger fails: run ends, some evidence is recorded.
BootstrapFails ==
  /\ phase = "bootstrap"
  /\ phase' = "dead"
  /\ \E some \in SUBSET (PageBelow(cursor) \cap KolBuys) : evidenced' = evidenced \cup some
  /\ UNCHANGED <<provided, read, cursor, seen, watermark, page, newest, waiting,
                 handed, closed>>

-----------------------------------------------------------------------------
(* _consume_live, in the order of the events *)

PageFetched ==
  /\ phase = "running" /\ newest = 0 /\ provided # {}
  /\ page' = PageBelow(Events + 1)
  /\ newest' = LatestOf(Moments(page'))
  /\ UNCHANGED <<provided, phase, read, cursor, seen, watermark, evidenced, waiting,
                 handed, closed>>

\* Lets a signal of the watermark's own moment pass.
SlipTimely(i) == Time(i) >= watermark

Timely(i) == Time(i) > watermark

\* The next signal: seen before, or recorded, and queued if it is timely and
\* the queue is not full.
SignalConsumed ==
  /\ page # {}
  /\ LET i == Earliest(page)
         queued == i \notin seen /\ Timely(i) /\ waiting < QueueSize
     IN  /\ page' = page \ {i}
         /\ seen' = seen \cup {i}
         /\ evidenced' = IF i \in seen THEN evidenced ELSE evidenced \cup ({i} \cap KolBuys)
         /\ waiting' = IF queued THEN waiting + 1 ELSE waiting
         /\ handed' = IF queued THEN Append(handed, [signal |-> i, closed |-> closed])
                                ELSE handed
  /\ UNCHANGED <<provided, phase, read, cursor, watermark, newest, closed>>

\* The ledger, or the log of events, fails: the page is given up, before or
\* after its last signal; the signal in hand is marked as seen.
PageFails ==
  /\ newest # 0
  /\ page' = {} /\ newest' = 0
  /\ \/ UNCHANGED seen
     \/ page # {} /\ seen' = seen \cup {Earliest(page)}
  /\ UNCHANGED <<provided, phase, read, cursor, watermark, evidenced, waiting,
                 handed, closed>>

PageEnds ==
  /\ page = {} /\ newest # 0
  /\ watermark' = LatestOf({watermark, newest})
  /\ newest' = 0
  /\ closed' = Len(handed)
  /\ UNCHANGED <<provided, phase, read, cursor, seen, page, evidenced, waiting, handed>>

\* The strategy takes a signal from the queue.
DecisionTaken ==
  /\ waiting > 0
  /\ waiting' = waiting - 1
  /\ UNCHANGED <<provided, phase, read, cursor, seen, watermark, page, newest,
                 evidenced, handed, closed>>

RestartPoller ==
  /\ phase' = "bootstrap" /\ read' = 0 /\ cursor' = Events + 1
  /\ seen' = {} /\ watermark' = 0
  /\ page' = {} /\ newest' = 0 /\ waiting' = 0
  /\ UNCHANGED <<provided, evidenced, handed, closed>>

PollerNext ==
  \/ \E i \in 1..Events : Provide(i)
  \/ BootstrapPageRead
  \/ BootstrapFails
  \/ PageFetched
  \/ SignalConsumed
  \/ PageFails
  \/ PageEnds
  \/ DecisionTaken
  \/ RestartPoller

-----------------------------------------------------------------------------

\* The strategy is given no signal twice, also by processes one after another;
\* what a page hands on happened after everything that pages consumed before it
\* handed on, however late the provider shows a signal; and the evidence of what
\* is handed on is in the ledger first (poller.py _consume_live).
HandedInOrder ==
  \A k \in DOMAIN handed :
    /\ handed[k].signal \in KolBuys => handed[k].signal \in evidenced
    /\ \A n \in 1..(k - 1) :
         /\ handed[n].signal # handed[k].signal
         /\ n <= handed[k].closed => Time(handed[n].signal) < Time(handed[k].signal)
=============================================================================
