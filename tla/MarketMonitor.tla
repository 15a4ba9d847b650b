---------------------------- MODULE MarketMonitor ----------------------------
(***************************************************************************)
(* The market monitor (narrative/market_monitor.py, market_signal.py,      *)
(* market_state.py): the board of gainers is read, the rows that qualify   *)
(* are selected up to a limit, those not emitted before are put into the   *)
(* job queue, and only then are they marked as emitted, in the file and in *)
(* memory, where marks older than the retention are dropped.               *)
(*                                                                         *)
(* A row is a token with the stage its change has reached, 0 when one of   *)
(* the criteria rejects it.  An anomaly is a token, a stage and a day; its *)
(* job has no other content, so that enqueueing never conflicts.           *)
(***************************************************************************)
EXTENDS Naturals, FiniteSets

CONSTANTS Movers,
          Stages,       \* number of stages
          MaxAnomalies, \* max_anomalies
          DayLength,    \* units of time in a day
          Retention,    \* retention, in the same units
          MaxMoment     \* bound on the time

ASSUME MarketAssumption ==
  /\ Stages \in Nat /\ MaxAnomalies \in Nat \ {0}
  /\ DayLength \in Nat \ {0} /\ MaxMoment \in Nat
  /\ Retention \in Nat /\ Retention >= DayLength

VARIABLES moment,     \* the clock
          marks,      \* _emitted: anomalies in memory with the time of emission
          markFile,   \* the same in the file
          marketJobs, \* anomalies with a job
          poll,       \* the poll_once that runs, or NoPoll
          emitted     \* anomalies emitted by polls that ended well

marketVars == <<moment, marks, markFile, marketJobs, poll, emitted>>

NoPoll == [at |-> 0, fresh |-> {}, todo |-> {}]

MarketInit ==
  /\ moment = 1
  /\ marks = {} /\ markFile = {}
  /\ marketJobs = {}
  /\ poll = NoPoll
  /\ emitted = {}

MarketTick ==
  /\ moment < MaxMoment
  /\ moment' = moment + 1
  /\ UNCHANGED <<marks, markFile, marketJobs, poll, emitted>>

-----------------------------------------------------------------------------
(* The board and what is selected of it *)

\* The stage that each token on the board has reached.
Boards == UNION {[tokens -> 0..Stages] : tokens \in SUBSET Movers \ {{}}}

\* anomaly_id.
Anomaly(token, stage, at) ==
  [token |-> token, stage |-> stage, day |-> at \div DayLength]

\* MarketQualityPolicy.select: of the rows that qualify the first MaxAnomalies; the
\* board may have any of them first.
Selections(board, at) ==
  LET good == {Anomaly(t, board[t], at) : t \in {u \in DOMAIN board : board[u] > 0}}
      room == IF Cardinality(good) < MaxAnomalies THEN Cardinality(good) ELSE MaxAnomalies
  IN  {taken \in SUBSET good : Cardinality(taken) = room}

Contains(known, a) == \E m \in known : m.anomaly = a

-----------------------------------------------------------------------------
(* poll_once *)

PollMarket(board) ==
  /\ poll = NoPoll
  /\ \E taken \in Selections(board, moment) :
       LET fresh == {a \in taken : ~Contains(marks, a)}
       IN  /\ fresh # {}
           /\ poll' = [at |-> moment, fresh |-> fresh, todo |-> fresh]
  /\ UNCHANGED <<moment, marks, markFile, marketJobs, emitted>>

\* _accept_market enqueues the next one; an anomaly with a job gets no other.
AcceptAnomaly ==
  /\ \E a \in poll.todo :
       /\ marketJobs' = marketJobs \cup {a}
       /\ poll' = [poll EXCEPT !.todo = @ \ {a}]
  /\ UNCHANGED <<moment, marks, markFile, emitted>>

\* The queue is busy, or the write fails before os.replace.
FailPoll ==
  /\ poll # NoPoll
  /\ poll' = NoPoll
  /\ UNCHANGED <<moment, marks, markFile, marketJobs, emitted>>

NewMarks(at) == {[anomaly |-> a, at |-> at] : a \in poll.fresh}

\* Forgets the marks that were there.
SlipMarked(known, at) == NewMarks(at)

\* The items that mark writes.
Marked(known, at) ==
  {m \in known : at - m.at <= Retention /\ \A f \in NewMarks(at) : f.anomaly # m.anomaly}
    \cup NewMarks(at)

\* mark: a write that succeeds, or fails after os.replace.
MarkEmitted ==
  /\ poll # NoPoll /\ poll.todo = {}
  /\ markFile' = Marked(marks, poll.at)
  /\ \/ marks' = markFile'
        /\ emitted' = emitted \cup poll.fresh
     \/ UNCHANGED <<marks, emitted>>
  /\ poll' = NoPoll
  /\ UNCHANGED <<moment, marketJobs>>

RestartMarket ==
  /\ marks' = markFile
  /\ poll' = NoPoll
  /\ UNCHANGED <<moment, markFile, marketJobs, emitted>>

MarketNext ==
  \/ MarketTick
  \/ \E board \in Boards : PollMarket(board)
  \/ AcceptAnomaly
  \/ FailPoll
  \/ MarkEmitted
  \/ RestartMarket

-----------------------------------------------------------------------------

\* "Poll exact 1h rankings and emit each CA/stage/day at most once"
\* (market_monitor.py:28): what a poll has emitted and marked, no later poll
\* emits again, whatever is dropped from the marks and however often the
\* process is started again; and what is marked has its job.
EmittedOnce ==
  /\ poll.fresh \cap emitted = {}
  /\ \A m \in marks \cup markFile : m.anomaly \in marketJobs
=============================================================================
