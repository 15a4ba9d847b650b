---------------------------- MODULE SourcesProofs ----------------------------
(***************************************************************************)
(* Proofs about the sources around the queue and the ledger: the feed of   *)
(* DeBot and its checkpoint, the monitor of the market and its marks, the  *)
(* poller of DeBot and its watermark, the poller of ranks and its file,    *)
(* the canary of reposts and what it remembers.  Any number of signals, of *)
(* tokens, of pages, of tweets, of failures and of restarts.  Each source  *)
(* is proved about by itself, as a specification of its own.               *)
(***************************************************************************)
EXTENDS DebotFeed, MarketMonitor, DebotPoller, RankPoller, RepostCanary,
        FiniteSetTheorems, SequenceTheorems, WellFoundedInduction, TLAPS

-----------------------------------------------------------------------------
(* DebotFeed *)

FeedSpec == FeedInit /\ [][FeedNext]_feedVars

\* The signal has a job, or was committed when there was no reason for one.
Remembered(i) == feedJobs[i] # NoJob \/ i \in declined

\* The signals of the page that are not remembered are still to be accepted, or
\* have no reason to be.
WorkSound ==
  /\ feedWork = [ids |-> feedWork.ids, todo |-> feedWork.todo, idle |-> feedWork.idle]
  /\ \A c \in feedWork.todo : c.id \in 1..MaxSignals /\ c.content \in Nat
  /\ \A i \in feedWork.ids :
       Remembered(i) \/ i \in feedWork.idle \/ \E c \in feedWork.todo : c.id = i

FeedInv ==
  /\ shown \in Seq([content : Nat, reason : BOOLEAN]) /\ Len(shown) <= MaxSignals
  /\ feedJobs \in [1..MaxSignals -> Nat \cup {NoJob}]
  /\ SeenIsQueued
  /\ WorkSound

\* A step that leaves nothing under way, and remembers nothing new.
LEMMA FeedIdle ==
  ASSUME FeedInv, feedWork' = NoWork, UNCHANGED <<shown, feedJobs, declined>>,
         feedSeen' \cup feedFile' \subseteq feedSeen \cup feedFile
  PROVE  FeedInv'
<1>1. WorkSound'
  BY DEF WorkSound, NoWork
<1>2. SeenIsQueued'
  BY DEF FeedInv, SeenIsQueued
<1> QED BY <1>1, <1>2 DEF FeedInv

\* What was shown under an id that has been given is a signal.
LEMMA ShownSignal ==
  ASSUME FeedInv, NEW i \in DOMAIN shown
  PROVE  /\ i \in 1..MaxSignals /\ i \in 1..Len(shown)
         /\ shown[i].content \in Nat /\ shown[i] \in [content : Nat, reason : BOOLEAN]
<1> DEFINE Signals == [content : Nat, reason : BOOLEAN]
<1>1. shown \in Seq(Signals) /\ Len(shown) <= MaxSignals
  BY DEF FeedInv
<1> HIDE DEF Signals
<1>2. DOMAIN shown = 1..Len(shown) /\ Len(shown) \in Nat
  BY <1>1, LenProperties
<1>3. i \in 1..Len(shown) /\ i \in 1..MaxSignals
  BY <1>1, <1>2, FeedAssumption
<1>4. shown[i] \in Signals
  BY <1>1, <1>3, ElementOfSeq
<1>5. shown[i] \in [content : Nat, reason : BOOLEAN]
  BY <1>4 DEF Signals
<1> QED BY <1>3, <1>5

LEMMA IssueSignalKept == ASSUME FeedInv, IssueSignal PROVE FeedInv'
<1>1. PICK reason \in BOOLEAN : shown' = Append(shown, [content |-> 0, reason |-> reason])
  BY DEF IssueSignal
<1> DEFINE new == [content |-> 0, reason |-> reason]
<1>2. new \in [content : Nat, reason : BOOLEAN]
  OBVIOUS
<1>3. shown' = Append(shown, new)
  BY <1>1
<1> HIDE DEF new
<1>4. /\ shown' \in Seq([content : Nat, reason : BOOLEAN])
      /\ Len(shown') = Len(shown) + 1 /\ Len(shown) \in Nat
  BY <1>2, <1>3, AppendProperties, LenProperties DEF FeedInv
<1>5. Len(shown) < MaxSignals /\ UNCHANGED <<feedJobs, feedSeen, feedFile, feedWork, declined>>
  BY DEF IssueSignal
<1>6. Len(shown') <= MaxSignals
  BY <1>4, <1>5, FeedAssumption
<1> QED BY <1>4, <1>5, <1>6 DEF FeedInv, SeenIsQueued, WorkSound, Remembered

LEMMA ChangeSignalKept == ASSUME FeedInv, NEW i \in DOMAIN shown, ChangeSignal(i) PROVE FeedInv'
<1> DEFINE Signals == [content : Nat, reason : BOOLEAN]
<1>1. PICK reason \in BOOLEAN :
        shown' = [shown EXCEPT ![i] = [content |-> shown[i].content + 1, reason |-> reason]]
  BY DEF ChangeSignal
<1>2. shown[i] \in Signals
  BY ShownSignal
<1> DEFINE new == [content |-> shown[i].content + 1, reason |-> reason]
<1>3. new \in Signals
  BY <1>2
<1>4. shown' = [shown EXCEPT ![i] = new]
  BY <1>1
<1> HIDE DEF new, Signals
<1>5. shown' \in Seq(Signals) /\ Len(shown') = Len(shown)
  BY <1>3, <1>4, ExceptSeq DEF FeedInv, Signals
<1>6. UNCHANGED <<feedJobs, feedSeen, feedFile, feedWork, declined>>
  BY DEF ChangeSignal
<1> QED BY <1>5, <1>6 DEF FeedInv, SeenIsQueued, WorkSound, Remembered, Signals

LEMMA FetchSignalsKept == ASSUME FeedInv, FetchSignals PROVE FeedInv'
<1> DEFINE unseen == OnFeedPage \ feedSeen
           todo == Candidates(unseen)
           idle == {i \in unseen : ~shown[i].reason}
<1>1. feedWork' = [ids |-> OnFeedPage, todo |-> todo, idle |-> idle]
      /\ UNCHANGED <<shown, feedJobs, feedSeen, feedFile, declined>>
  BY DEF FetchSignals
<1>2. DOMAIN shown \subseteq 1..MaxSignals
  BY FeedAssumption, LenProperties DEF FeedInv
<1>3. OnFeedPage \subseteq DOMAIN shown
  BY DEF OnFeedPage
<1>4. \A c \in todo : c.id \in 1..MaxSignals /\ c.content \in Nat
  <2> TAKE c \in todo
  <2>1. PICK i \in unseen : c = [id |-> i, content |-> shown[i].content]
    BY DEF Candidates
  <2>2. shown[i].content \in Nat
    BY <1>3, <2>1, ShownSignal
  <2> QED BY <1>2, <1>3, <2>1, <2>2
<1>5. \A i \in OnFeedPage : Remembered(i) \/ i \in idle \/ \E c \in todo : c.id = i
  <2> TAKE i \in OnFeedPage
  <2>1. CASE i \in feedSeen
    BY <2>1 DEF FeedInv, SeenIsQueued, Remembered
  <2>2. CASE i \in unseen /\ shown[i].reason
    <3>1. [id |-> i, content |-> shown[i].content] \in todo
      BY <2>2 DEF Candidates
    <3> QED BY <3>1
  <2>3. CASE i \in unseen /\ ~shown[i].reason
    BY <2>3
  <2> QED BY <2>1, <2>2, <2>3
<1> HIDE DEF todo, idle
<1>6. WorkSound'
  BY <1>1, <1>4, <1>5 DEF WorkSound, Remembered
<1> QED BY <1>1, <1>6 DEF FeedInv, SeenIsQueued

LEMMA AcceptSignalKept == ASSUME FeedInv, AcceptSignal PROVE FeedInv'
<1>1. PICK least \in feedWork.todo :
        /\ feedJobs' = [feedJobs EXCEPT ![least.id] = least.content]
        /\ feedWork' = [feedWork EXCEPT !.todo = feedWork.todo \ {least}]
  BY DEF AcceptSignal
<1>2. UNCHANGED <<shown, feedSeen, feedFile, declined>>
  BY DEF AcceptSignal
<1>3. least.id \in 1..MaxSignals /\ least.content \in Nat /\ least.content # NoJob
  BY <1>1, FeedAssumption DEF FeedInv, WorkSound
<1>4. feedWork' = [ids |-> feedWork.ids, todo |-> feedWork.todo \ {least}, idle |-> feedWork.idle]
  BY <1>1 DEF FeedInv, WorkSound
<1>5. /\ feedJobs' \in [1..MaxSignals -> Nat \cup {NoJob}]
      /\ feedJobs'[least.id] = least.content
      /\ \A i : i # least.id => feedJobs'[i] = feedJobs[i]
  BY <1>1, <1>3 DEF FeedInv
<1>6. Remembered(least.id)' /\ \A i : Remembered(i) => Remembered(i)'
  BY <1>2, <1>3, <1>5 DEF Remembered
<1>7. WorkSound'
  <2>1. ASSUME NEW i \in feedWork.ids, NEW c \in feedWork.todo, c.id = i
        PROVE  Remembered(i)' \/ \E d \in feedWork.todo \ {least} : d.id = i
    BY <1>6, <2>1
  <2> QED BY <1>4, <1>6, <2>1 DEF FeedInv, WorkSound
<1>8. SeenIsQueued'
  BY <1>2, <1>6 DEF FeedInv, SeenIsQueued, Remembered
<1> QED BY <1>2, <1>5, <1>7, <1>8 DEF FeedInv

LEMMA CommitSignalsKept == ASSUME FeedInv, CommitSignals PROVE FeedInv'
<1> DEFINE merged == feedSeen \cup feedWork.ids
<1>1. /\ feedWork.todo = {} /\ feedFile' = merged /\ feedSeen' \in {merged, feedSeen}
      /\ declined' = declined \cup feedWork.idle /\ feedWork' = NoWork
      /\ UNCHANGED <<shown, feedJobs>>
  BY DEF CommitSignals, CommitReady
<1>2. \A i \in merged : Remembered(i)'
  BY <1>1 DEF FeedInv, WorkSound, SeenIsQueued, Remembered
<1>3. SeenIsQueued'
  BY <1>1, <1>2 DEF SeenIsQueued, Remembered
<1>4. WorkSound'
  BY <1>1 DEF WorkSound, NoWork
<1> QED BY <1>1, <1>3, <1>4 DEF FeedInv

LEMMA FeedInvStep == FeedInv /\ [FeedNext]_feedVars => FeedInv'
<1> SUFFICES ASSUME FeedInv, [FeedNext]_feedVars PROVE FeedInv'
  OBVIOUS
<1>1. CASE UNCHANGED feedVars
  BY <1>1 DEF feedVars, FeedInv, SeenIsQueued, WorkSound, Remembered
<1>2. CASE FailFeed
  BY <1>2, FeedIdle DEF FailFeed
<1>3. CASE RestartFeed
  BY <1>3, FeedIdle DEF RestartFeed
<1>4. CASE IssueSignal \/ FetchSignals \/ AcceptSignal \/ CommitSignals
  BY <1>4, IssueSignalKept, FetchSignalsKept, AcceptSignalKept, CommitSignalsKept
<1>5. ASSUME NEW i \in DOMAIN shown, ChangeSignal(i) PROVE FeedInv'
  BY <1>5, ChangeSignalKept
<1> QED BY <1>1, <1>2, <1>3, <1>4, <1>5 DEF FeedNext

\* In every behaviour of the feed a signal its checkpoint remembers has a job, or
\* was committed when there was no reason to research it.
THEOREM FeedSeenIsQueued == FeedSpec => []SeenIsQueued
<1>1. FeedInit => FeedInv
  <2> SUFFICES ASSUME FeedInit PROVE FeedInv
    OBVIOUS
  <2>1. <<>> \in Seq([content : Nat, reason : BOOLEAN]) /\ Len(<<>>) = 0
    BY EmptySeq
  <2> QED BY <2>1, FeedAssumption DEF FeedInit, FeedInv, SeenIsQueued, WorkSound, NoWork
<1>2. FeedInv => SeenIsQueued
  BY DEF FeedInv
<1> QED BY <1>1, <1>2, FeedInvStep, PTL DEF FeedSpec

-----------------------------------------------------------------------------
(* MarketMonitor *)

MarketSpec == MarketInit /\ [][MarketNext]_marketVars

\* What was emitted has a mark still, or its day is over.
Guarded(known, at) ==
  \A a \in emitted : a.day < at \div DayLength \/ \E m \in known : m.anomaly = a

\* A mark is of its anomaly's day, and its anomaly has a job.
MarksSound(known) ==
  \A m \in known : /\ m.at \in Nat /\ m.anomaly.day = m.at \div DayLength
                   /\ m.anomaly \in marketJobs

PollSound ==
  /\ poll = [at |-> poll.at, fresh |-> poll.fresh, todo |-> poll.todo]
  /\ poll.at \in Nat /\ poll.at <= moment
  /\ poll.fresh \subseteq marketJobs \cup poll.todo
  /\ \A a \in poll.fresh : a.day = poll.at \div DayLength

MarketInv ==
  /\ moment \in Nat
  /\ MarksSound(marks) /\ MarksSound(markFile)
  /\ Guarded(marks, moment) /\ Guarded(markFile, moment)
  /\ \A a \in emitted : a.day \in Nat
  /\ PollSound
  /\ poll.fresh \cap emitted = {}

LEMMA DayFacts ==
  ASSUME NEW at \in Nat
  PROVE  /\ at \div DayLength \in Nat
         /\ DayLength * (at \div DayLength) <= at
         /\ at < DayLength * (at \div DayLength) + DayLength
BY MarketAssumption

LEMMA LaterDay ==
  ASSUME NEW length \in Nat, NEW day \in Nat, NEW other \in Nat, day < other
  PROVE  length * day + length <= length * other
<1>1. PICK k \in Nat : other = day + 1 + k
  <2>1. other - day - 1 \in Nat /\ other = day + 1 + (other - day - 1)
    OBVIOUS
  <2> QED BY <2>1
<1>2. length * other = length * day + length + length * k
  BY <1>1
<1>3. length * k \in Nat /\ length * day \in Nat
  OBVIOUS
<1> QED BY <1>2, <1>3

\* Days do not go back, and one is over when its length has gone by.
LEMMA DaysPass ==
  ASSUME NEW early \in Nat, NEW late \in Nat, early <= late
  PROVE  /\ early \div DayLength <= late \div DayLength
         /\ early + DayLength <= late => early \div DayLength < late \div DayLength
<1> DEFINE d == early \div DayLength
           e == late \div DayLength
<1>1. /\ d \in Nat /\ e \in Nat /\ DayLength \in Nat
      /\ DayLength * d <= early /\ late < DayLength * e + DayLength
  BY DayFacts, MarketAssumption
<1>2. DayLength * d \in Nat /\ DayLength * e \in Nat
  BY <1>1
<1> HIDE DEF d, e
<1>3. ~(e < d)
  <2> SUFFICES ASSUME e < d PROVE FALSE
    OBVIOUS
  <2>1. DayLength * e + DayLength <= DayLength * d
    BY <1>1, LaterDay
  <2> QED BY <1>1, <1>2, <2>1
<1>4. early + DayLength <= late => e # d
  BY <1>1, <1>2
<1>5. d <= e
  BY <1>1, <1>3
<1>6. early + DayLength <= late => d < e
  BY <1>1, <1>4, <1>5
<1> QED BY <1>5, <1>6 DEF d, e

\* A mark that is dropped is of a day that is over.
LEMMA MarkedGuards ==
  ASSUME MarketInv, NEW known, MarksSound(known), Guarded(known, moment)
  PROVE  /\ Guarded(Marked(known, poll.at), moment)
         /\ \A a \in poll.fresh : \E m \in Marked(known, poll.at) : m.anomaly = a
<1>1. ASSUME NEW a \in poll.fresh PROVE \E m \in Marked(known, poll.at) : m.anomaly = a
  <2>1. [anomaly |-> a, at |-> poll.at] \in Marked(known, poll.at)
    BY DEF Marked, NewMarks
  <2> QED BY <2>1
<1>2. ASSUME NEW a \in emitted
      PROVE  a.day < moment \div DayLength \/ \E m \in Marked(known, poll.at) : m.anomaly = a
  <2>1. CASE a.day < moment \div DayLength
    BY <2>1
  <2>2. CASE \E m \in known : m.anomaly = a
    <3>1. PICK m \in known : m.anomaly = a
      BY <2>2
    <3>2. CASE \E f \in NewMarks(poll.at) : f.anomaly = m.anomaly
      BY <3>1, <3>2 DEF Marked
    <3>3. CASE /\ poll.at - m.at <= Retention
               /\ \A f \in NewMarks(poll.at) : f.anomaly # m.anomaly
      BY <3>1, <3>3 DEF Marked
    <3>4. CASE ~(poll.at - m.at <= Retention)
      <4>1. /\ m.at \in Nat /\ poll.at \in Nat /\ moment \in Nat /\ poll.at <= moment
            /\ a.day = m.at \div DayLength
        BY <3>1 DEF MarketInv, MarksSound, PollSound
      <4>2. m.at + DayLength <= moment /\ m.at <= moment
        BY <3>4, <4>1, MarketAssumption
      <4>3. m.at \div DayLength < moment \div DayLength
        BY <4>1, <4>2, DaysPass
      <4> QED BY <4>1, <4>3
    <3> QED BY <3>2, <3>3, <3>4
  <2> QED BY <2>1, <2>2 DEF Guarded
<1> QED BY <1>1, <1>2 DEF Guarded

LEMMA MarketTickKept == ASSUME MarketInv, MarketTick PROVE MarketInv'
<1>1. moment' = moment + 1 /\ UNCHANGED <<marks, markFile, marketJobs, poll, emitted>> /\ moment \in Nat
  BY DEF MarketTick, MarketInv
<1>2. /\ moment \div DayLength <= moment' \div DayLength
      /\ moment \div DayLength \in Nat /\ moment' \div DayLength \in Nat
  BY <1>1, DaysPass, DayFacts
<1>3. \A a \in emitted : a.day < moment \div DayLength => a.day < moment' \div DayLength
  BY <1>2 DEF MarketInv
<1>4. Guarded(marks, moment)' /\ Guarded(markFile, moment)'
  BY <1>1, <1>3 DEF MarketInv, Guarded
<1>5. PollSound'
  BY <1>1 DEF MarketInv, PollSound
<1> QED BY <1>1, <1>4, <1>5 DEF MarketInv, MarksSound

\* An anomaly of the day that has no mark was not emitted.
LEMMA PollMarketKept == ASSUME MarketInv, NEW board, PollMarket(board) PROVE MarketInv'
<1>0. PICK taken \in Selections(board, moment) :
        LET unmarked == {a \in taken : ~Contains(marks, a)}
        IN  poll' = [at |-> moment, fresh |-> unmarked, todo |-> unmarked]
  BY DEF PollMarket
<1>1. PICK fresh \in SUBSET taken :
        /\ \A a \in fresh : ~Contains(marks, a)
        /\ poll' = [at |-> moment, fresh |-> fresh, todo |-> fresh]
  BY <1>0
<1>2. UNCHANGED <<moment, marks, markFile, marketJobs, emitted>>
  BY DEF PollMarket
<1>3. \A a \in fresh : a.day = moment \div DayLength
  BY <1>0, <1>1 DEF Selections, Anomaly
<1>4. moment \in Nat /\ moment \div DayLength \in Nat
  BY DayFacts DEF MarketInv
<1>5. fresh \cap emitted = {}
  <2> SUFFICES ASSUME NEW a \in fresh, a \in emitted PROVE FALSE
    OBVIOUS
  <2>1. a.day < moment \div DayLength \/ \E m \in marks : m.anomaly = a
    BY DEF MarketInv, Guarded
  <2> QED BY <1>1, <1>3, <1>4, <2>1 DEF Contains
<1>6. PollSound'
  BY <1>1, <1>2, <1>3, <1>4 DEF PollSound
<1> QED BY <1>1, <1>2, <1>5, <1>6 DEF MarketInv, MarksSound, Guarded

LEMMA AcceptAnomalyKept == ASSUME MarketInv, AcceptAnomaly PROVE MarketInv'
<1>1. PICK a \in poll.todo :
        marketJobs' = marketJobs \cup {a} /\ poll' = [poll EXCEPT !.todo = poll.todo \ {a}]
  BY DEF AcceptAnomaly
<1>2. UNCHANGED <<moment, marks, markFile, emitted>>
  BY DEF AcceptAnomaly
<1>3. poll' = [at |-> poll.at, fresh |-> poll.fresh, todo |-> poll.todo \ {a}]
  BY <1>1 DEF MarketInv, PollSound
<1>4. PollSound'
  BY <1>1, <1>2, <1>3 DEF MarketInv, PollSound
<1> QED BY <1>1, <1>2, <1>3, <1>4 DEF MarketInv, MarksSound, Guarded

\* A poll that ends, whatever it leaves in memory and in the file.
LEMMA PollOver ==
  ASSUME MarketInv, poll' = NoPoll, UNCHANGED <<moment, marketJobs>>,
         MarksSound(marks'), MarksSound(markFile'), emitted' \subseteq emitted \cup poll.fresh,
         \A a \in emitted' : /\ a.day < moment \div DayLength \/ \E m \in marks' : m.anomaly = a
                             /\ a.day < moment \div DayLength \/ \E m \in markFile' : m.anomaly = a
  PROVE  MarketInv'
<1>1. PollSound'
  BY DEF MarketInv, PollSound, NoPoll
<1>2. \A a \in emitted' : a.day \in Nat
  BY DayFacts DEF MarketInv, PollSound
<1>3. poll'.fresh = {}
  BY DEF NoPoll
<1> QED BY <1>1, <1>2, <1>3 DEF MarketInv, MarksSound, Guarded

LEMMA MarkEmittedKept == ASSUME MarketInv, MarkEmitted PROVE MarketInv'
<1>1. /\ poll.todo = {} /\ markFile' = Marked(marks, poll.at) /\ poll' = NoPoll
      /\ UNCHANGED <<moment, marketJobs>>
      /\ \/ marks' = markFile' /\ emitted' = emitted \cup poll.fresh
         \/ UNCHANGED <<marks, emitted>>
  BY DEF MarkEmitted
<1>2. MarksSound(markFile')
  <2> SUFFICES ASSUME NEW m \in markFile'
               PROVE  /\ m.at \in Nat /\ m.anomaly.day = m.at \div DayLength
                      /\ m.anomaly \in marketJobs
    BY DEF MarksSound
  <2>1. CASE m \in marks
    BY <2>1 DEF MarketInv, MarksSound
  <2>2. CASE m \in NewMarks(poll.at)
    BY <1>1, <2>2 DEF NewMarks, MarketInv, PollSound
  <2> QED BY <1>1, <2>1, <2>2 DEF Marked
<1>3. MarksSound(marks')
  BY <1>1, <1>2 DEF MarketInv
<1>4. /\ Guarded(Marked(marks, poll.at), moment)
      /\ \A a \in poll.fresh : \E m \in Marked(marks, poll.at) : m.anomaly = a
  BY MarkedGuards DEF MarketInv
<1> QED BY <1>1, <1>2, <1>3, <1>4, PollOver DEF MarketInv, Guarded

LEMMA MarketInvStep == MarketInv /\ [MarketNext]_marketVars => MarketInv'
<1> SUFFICES ASSUME MarketInv, [MarketNext]_marketVars PROVE MarketInv'
  OBVIOUS
<1>1. CASE UNCHANGED marketVars
  BY <1>1 DEF marketVars, MarketInv, MarksSound, Guarded, PollSound
<1>2. CASE FailPoll
  BY <1>2, PollOver DEF FailPoll, MarketInv, Guarded
<1>3. CASE RestartMarket
  BY <1>3, PollOver DEF RestartMarket, MarketInv, Guarded
<1> QED BY <1>1, <1>2, <1>3, MarketTickKept, PollMarketKept, AcceptAnomalyKept, MarkEmittedKept
        DEF MarketNext

\* In every behaviour of the monitor an anomaly that was emitted is not emitted again,
\* and one that is marked has its job.
THEOREM MarketEmittedOnce == MarketSpec => []EmittedOnce
<1>1. MarketInit => MarketInv
  BY DEF MarketInit, NoPoll, MarketInv, MarksSound, Guarded, PollSound
<1>2. MarketInv => EmittedOnce
  BY DEF MarketInv, MarksSound, EmittedOnce
<1> QED BY <1>1, <1>2, MarketInvStep, PTL DEF MarketSpec

-----------------------------------------------------------------------------
(* DebotPoller *)

PollerSpec == PollerInit /\ [][PollerNext]_pollerVars

Hand == [signal : 1..Events, closed : Nat]

\* What was handed on happened no later than at this moment.
HandedUpTo(hands, count, time) == \A n \in 1..count : Time(hands[n].signal) <= time

PollerTypes ==
  /\ provided \subseteq 1..Events /\ page \subseteq provided
  /\ handed \in Seq(Hand) /\ closed \in Nat /\ closed <= Len(handed)
  /\ watermark \in Nat /\ newest \in Nat /\ read \in Nat
  /\ phase \in {"bootstrap", "running", "dead"}

\* What was handed on was provided, so that the first page of a bootstrap shows
\* nothing older.  A running poller has the closed pages behind its watermark, and
\* has seen what it handed on since; the page in hand, which was the newest, has
\* nothing handed on after it.
PollerInv ==
  /\ PollerTypes
  /\ HandedInOrder
  /\ \A n \in 1..Len(handed) : handed[n].signal \in provided /\ handed[n].closed < n
  /\ phase = "bootstrap" => read # 0 \/ cursor = Events + 1
  /\ phase = "bootstrap" /\ read # 0 => HandedUpTo(handed, Len(handed), watermark)
  /\ phase = "running" => HandedUpTo(handed, closed, watermark)
  /\ phase = "running" => \A n \in (closed + 1)..Len(handed) : handed[n].signal \in seen
  /\ newest = 0 => page = {}
  /\ newest # 0 => /\ phase = "running" /\ HandedUpTo(handed, Len(handed), newest)
                   /\ \A i \in page : Time(i) <= newest

LEMMA LeastNatural ==
  ASSUME NEW S, S \subseteq Nat, S # {}
  PROVE  \E m \in S : \A k \in S : m <= k
<1> DEFINE R == {p \in Nat \X Nat : p[1] < p[2]}
<1>1. IsWellFoundedOn(R, Nat)
  BY NatLessThanWellFounded DEF OpToRel
<1> HIDE DEF R
<1>2. PICK m \in S : \A k \in S : <<k, m>> \notin R
  BY <1>1, WFMin
<1>3. ASSUME NEW k \in S PROVE m <= k
  <2>1. k \in Nat /\ m \in Nat
    OBVIOUS
  <2>2. ~(k < m)
    BY <1>2, <2>1 DEF R
  <2> QED BY <2>1, <2>2
<1> QED BY <1>3

LEMMA GreatestNatural ==
  ASSUME NEW bound \in Nat, NEW S, S \subseteq 0..bound, S # {}
  PROVE  \E m \in S : \A k \in S : k <= m
<1>1. \A k \in S : k \in Nat /\ bound - k \in Nat
  OBVIOUS
<1> DEFINE D == {bound - k : k \in S}
<1>2. \A k \in S : bound - k \in D
  OBVIOUS
<1>3. \A d \in D : \E m \in S : d = bound - m
  OBVIOUS
<1> HIDE DEF D
<1>4. D \subseteq Nat
  BY <1>1, <1>3
<1>5. D # {}
  BY <1>2
<1>6. PICK d \in D : \A e \in D : d <= e
  BY <1>4, <1>5, LeastNatural
<1>7. PICK m \in S : d = bound - m
  BY <1>3
<1>8. ASSUME NEW k \in S PROVE k <= m
  <2>1. d <= bound - k
    BY <1>2, <1>6
  <2> QED BY <1>1, <1>7, <2>1
<1> QED BY <1>8

LEMMA LatestFacts ==
  ASSUME NEW bound \in Nat, NEW times, times \subseteq 0..bound
  PROVE  /\ LatestOf(times) \in Nat
         /\ \A t \in times : t <= LatestOf(times)
<1>1. CASE times = {}
  BY <1>1 DEF LatestOf
<1>2. CASE times # {}
  <2>1. \E m \in times : \A k \in times : k <= m
    BY <1>2, GreatestNatural
  <2>2. LatestOf(times) \in times /\ \A k \in times : k <= LatestOf(times)
    BY <1>2, <2>1 DEF LatestOf
  <2>3. \A t \in times : t \in Nat
    OBVIOUS
  <2> QED BY <2>2, <2>3
<1> QED BY <1>1, <1>2

\* Times of signals, and those of a set of them.
LEMMA Times ==
  ASSUME NEW ids, ids \subseteq 1..Events
  PROVE  /\ Moments(ids) \subseteq 0..Events
         /\ \A i \in ids : Time(i) \in Moments(ids) /\ Time(i) \in Nat
<1>1. ASSUME NEW i \in ids PROVE Time(i) \in 0..Events
  BY PollerAssumption DEF Time
<1> QED BY <1>1 DEF Moments

\* The newest page shows the latest moment of all that is provided.
LEMMA NewestPage ==
  ASSUME provided \subseteq 1..Events, NEW i \in provided
  PROVE  /\ PageBelow(Events + 1) # {}
         /\ Time(i) <= LatestOf(Moments(PageBelow(Events + 1)))
<1>1. Events \in Nat /\ provided \subseteq 0..Events /\ SignalPage \in Nat /\ 0 < SignalPage
  BY PollerAssumption
<1>2. PICK last \in provided : \A k \in provided : k <= last
  BY <1>1, GreatestNatural
<1>3. {k \in provided : last < k /\ k < Events + 1} = {}
  <2>1. ASSUME NEW k \in provided PROVE ~(last < k)
    BY <1>1, <1>2
  <2> QED BY <2>1
<1>4. last \in PageBelow(Events + 1)
  <2>1. last < Events + 1
    BY <1>1
  <2> QED BY <1>1, <1>3, <2>1, FS_EmptySet DEF PageBelow
<1>5. i \in 1..Events /\ last \in 1..Events /\ i <= last
  BY <1>2
<1>6. Time(i) <= Time(last) /\ Time(i) \in Nat /\ Time(last) \in Nat
  BY <1>5 DEF Time
<1>7. PageBelow(Events + 1) \subseteq 1..Events
  BY DEF PageBelow
<1>8. /\ LatestOf(Moments(PageBelow(Events + 1))) \in Nat
      /\ Time(last) <= LatestOf(Moments(PageBelow(Events + 1)))
  <2>1. Moments(PageBelow(Events + 1)) \subseteq 0..Events /\ Time(last) \in Moments(PageBelow(Events + 1))
    BY <1>4, <1>7, Times
  <2> QED BY <1>1, <2>1, LatestFacts
<1> QED BY <1>4, <1>6, <1>8

\* A signal is handed on after those of closed pages, and is not among the others.
LEMMA HandsOver ==
  ASSUME PollerInv, phase = "running", NEW i \in page, i \notin seen, Timely(i),
         NEW known, evidenced \subseteq known, i \in KolBuys => i \in known,
         evidenced' = known, handed' = Append(handed, [signal |-> i, closed |-> closed])
  PROVE  /\ handed' \in Seq(Hand) /\ Len(handed') = Len(handed) + 1
         /\ HandedInOrder'
         /\ \A n \in 1..Len(handed) : handed'[n] = handed[n]
         /\ handed'[Len(handed) + 1].signal = i /\ handed'[Len(handed) + 1].closed = closed
<1> DEFINE new == [signal |-> i, closed |-> closed]
<1>1. new \in Hand
  BY DEF PollerInv, PollerTypes, Hand
<1>2. new.signal = i /\ new.closed = closed /\ handed' = Append(handed, new)
  OBVIOUS
<1> HIDE DEF new
<1>3. /\ handed \in Seq(Hand) /\ Len(handed) \in Nat /\ DOMAIN handed = 1..Len(handed)
      /\ closed \in Nat /\ closed <= Len(handed)
  BY LenProperties DEF PollerInv, PollerTypes
<1>4. /\ handed' \in Seq(Hand) /\ Len(handed') = Len(handed) + 1
      /\ \A n \in 1..Len(handed) : handed'[n] = handed[n]
      /\ handed'[Len(handed) + 1] = new
  BY <1>1, <1>2, <1>3, AppendProperties
<1>5. DOMAIN handed' = 1..(Len(handed) + 1)
  BY <1>4, LenProperties
<1>6. /\ watermark \in Nat /\ Time(i) \in Nat /\ watermark < Time(i)
  BY Times DEF PollerInv, PollerTypes, Timely
<1>7. ASSUME NEW n \in 1..Len(handed)
      PROVE  /\ handed[n].signal # i
             /\ n <= closed => Time(handed[n].signal) < Time(i)
  <2>1. handed[n].signal \in provided /\ provided \subseteq 1..Events
    BY DEF PollerInv, PollerTypes
  <2>2. Time(handed[n].signal) \in Nat
    BY <2>1, Times
  <2>3. CASE n <= closed
    <3>1. Time(handed[n].signal) <= watermark
      BY <1>3, <2>3 DEF PollerInv, HandedUpTo
    <3> QED BY <1>6, <2>2, <3>1
  <2>4. CASE ~(n <= closed)
    <3>1. n \in (closed + 1)..Len(handed)
      BY <1>3, <2>4
    <3>2. handed[n].signal \in seen
      BY <3>1 DEF PollerInv
    <3> QED BY <2>4, <3>2
  <2> QED BY <2>3, <2>4
<1>8. ASSUME NEW k \in 1..(Len(handed) + 1)
      PROVE  /\ handed'[k].signal \in KolBuys => handed'[k].signal \in evidenced'
             /\ \A n \in 1..(k - 1) :
                  /\ handed'[n].signal # handed'[k].signal
                  /\ n <= handed'[k].closed => Time(handed'[n].signal) < Time(handed'[k].signal)
  <2>1. CASE k \in 1..Len(handed)
    <3>1. handed'[k] = handed[k] /\ \A n \in 1..(k - 1) : handed'[n] = handed[n]
      BY <1>3, <1>4, <2>1
    <3>2. /\ handed[k].signal \in KolBuys => handed[k].signal \in evidenced
          /\ \A n \in 1..(k - 1) :
               /\ handed[n].signal # handed[k].signal
               /\ n <= handed[k].closed => Time(handed[n].signal) < Time(handed[k].signal)
      BY <1>3, <2>1 DEF PollerInv, HandedInOrder
    <3> QED BY <3>1, <3>2
  <2>2. CASE k = Len(handed) + 1
    <3>1. 1..(k - 1) = 1..Len(handed) /\ handed'[k].signal = i /\ handed'[k].closed = closed
      BY <1>2, <1>3, <1>4, <2>2
    <3>2. \A n \in 1..(k - 1) : handed'[n] = handed[n]
      BY <1>4, <3>1
    <3> QED BY <1>7, <3>1, <3>2
  <2> QED BY <1>3, <2>1, <2>2
<1>9. HandedInOrder'
  BY <1>5, <1>8 DEF HandedInOrder, Time
<1> QED BY <1>2, <1>4, <1>9

LEMMA SignalConsumedKept == ASSUME PollerInv, SignalConsumed PROVE PollerInv'
<1> DEFINE i == Earliest(page)
           queued == i \notin seen /\ Timely(i) /\ waiting < QueueSize
<1>1. /\ page # {} /\ page' = page \ {i} /\ seen' = seen \cup {i}
      /\ evidenced \subseteq evidenced'
      /\ i \notin seen /\ i \in KolBuys => i \in evidenced'
      /\ UNCHANGED <<provided, phase, read, cursor, watermark, newest, closed>>
  BY DEF SignalConsumed
<1>7. handed' = IF queued THEN Append(handed, [signal |-> i, closed |-> closed]) ELSE handed
  BY DEF SignalConsumed
<1>2. newest # 0 /\ phase = "running" /\ provided \subseteq 1..Events /\ page \subseteq provided
  BY <1>1 DEF PollerInv, PollerTypes
<1>3. i \in page
  <2>1. page \subseteq Nat
    BY <1>2
  <2>2. \E m \in page : \A k \in page : m <= k
    BY <1>1, <2>1, LeastNatural
  <2> QED BY <2>2 DEF Earliest
<1> HIDE DEF i
<1>4. Len(handed) \in Nat /\ closed \in Nat /\ closed <= Len(handed) /\ DOMAIN handed = 1..Len(handed)
  BY LenProperties DEF PollerInv, PollerTypes
<1>5. CASE ~queued
  <2>1. handed' = handed
    BY <1>5, <1>7
  <2>2. HandedInOrder'
    BY <1>1, <2>1 DEF PollerInv, HandedInOrder, Time
  <2>3. PollerTypes'
    BY <1>1, <2>1 DEF PollerInv, PollerTypes
  <2> QED BY <1>1, <1>2, <2>1, <2>2, <2>3 DEF PollerInv, HandedUpTo, Time
<1>6. CASE queued
  <2>1. /\ handed' \in Seq(Hand) /\ Len(handed') = Len(handed) + 1 /\ HandedInOrder'
        /\ \A n \in 1..Len(handed) : handed'[n] = handed[n]
        /\ handed'[Len(handed) + 1].signal = i /\ handed'[Len(handed) + 1].closed = closed
    BY <1>1, <1>2, <1>3, <1>6, <1>7, HandsOver
  <2>2. PollerTypes'
    <3>1. PollerTypes /\ page' \subseteq provided
      BY <1>1 DEF PollerInv, PollerTypes
    <3>2. closed <= Len(handed')
      BY <1>4, <2>1
    <3> QED BY <1>1, <2>1, <3>1, <3>2 DEF PollerTypes
  <2>3. ASSUME NEW n \in 1..(Len(handed) + 1)
        PROVE  /\ handed'[n].signal \in provided /\ handed'[n].closed < n
               /\ n <= closed => handed'[n] = handed[n]
               /\ n \in (closed + 1)..(Len(handed) + 1) => handed'[n].signal \in seen'
               /\ Time(handed'[n].signal) <= newest
    <3>1. CASE n \in 1..Len(handed)
      <4>1. handed'[n] = handed[n]
        BY <2>1, <3>1
      <4>2. handed[n].signal \in provided /\ handed[n].closed < n
        BY <3>1 DEF PollerInv
      <4>3. Time(handed[n].signal) <= newest
        BY <1>2, <3>1 DEF PollerInv, HandedUpTo
      <4>4. n \in (closed + 1)..(Len(handed) + 1) => handed[n].signal \in seen
        BY <1>2, <3>1 DEF PollerInv
      <4> QED BY <1>1, <4>1, <4>2, <4>3, <4>4
    <3>2. CASE n = Len(handed) + 1
      <4>1. Time(i) <= newest
        BY <1>2, <1>3 DEF PollerInv
      <4> QED BY <1>1, <1>2, <1>3, <1>4, <2>1, <3>2, <4>1
    <3> QED BY <1>4, <3>1, <3>2
  <2>4. HandedUpTo(handed', closed', watermark')
    BY <1>1, <1>2, <1>4, <2>1, <2>3 DEF PollerInv, HandedUpTo, Time
  <2>5. HandedUpTo(handed', Len(handed'), newest')
    BY <1>1, <2>1, <2>3 DEF HandedUpTo, Time
  <2>6. \A k \in page' : Time(k) <= newest'
    BY <1>1, <1>2 DEF PollerInv
  <2>7. \A n \in 1..Len(handed') : handed'[n].signal \in provided' /\ handed'[n].closed < n
    BY <1>1, <2>1, <2>3
  <2>8. \A n \in (closed' + 1)..Len(handed') : handed'[n].signal \in seen'
    <3> TAKE n \in (closed' + 1)..Len(handed')
    <3>1. n \in (closed + 1)..(Len(handed) + 1) /\ n \in 1..(Len(handed) + 1)
      BY <1>1, <1>4, <2>1
    <3> QED BY <2>3, <3>1
  <2>9. phase' = "running" /\ newest' # 0
    BY <1>1, <1>2
  <2> QED BY <2>1, <2>2, <2>4, <2>5, <2>6, <2>7, <2>8, <2>9 DEF PollerInv
<1> QED BY <1>5, <1>6

LEMMA BootstrapPageReadKept == ASSUME PollerInv, BootstrapPageRead PROVE PollerInv'
<1> DEFINE ids == PageBelow(cursor)
<1>1. /\ phase = "bootstrap" /\ read' = read + 1 /\ handed' = handed
      /\ seen' = seen \cup ids /\ evidenced \subseteq evidenced'
      /\ IF read = 0 THEN watermark' \in FirstWatermark(ids) ELSE watermark' = watermark
      /\ (phase' = phase /\ closed' = closed) \/ (phase' = "running" /\ closed' = Len(handed))
      /\ UNCHANGED <<provided, page, newest>>
  BY DEF BootstrapPageRead
<1>2. newest = 0 /\ read \in Nat /\ read + 1 # 0 /\ Events \in Nat /\ provided \subseteq 1..Events
  BY <1>1, PollerAssumption DEF PollerInv, PollerTypes
<1>3. handed \in Seq(Hand) /\ Len(handed) \in Nat /\ closed \in Nat
  BY LenProperties DEF PollerInv, PollerTypes
<1>4. ASSUME read = 0
      PROVE  watermark' \in Nat /\ \A i \in provided : Time(i) <= watermark'
  <2>1. ids = PageBelow(Events + 1)
    BY <1>1, <1>4 DEF PollerInv
  <2>2. Moments(ids) \subseteq 0..Events
    <3>1. ids \subseteq 1..Events
      BY <1>2 DEF PageBelow
    <3> QED BY <3>1, Times
  <2>3. LatestOf(Moments(ids)) \in Nat
    BY <1>2, <2>2, LatestFacts
  <2>4. CASE ids = {}
    <3>1. provided = {}
      BY <1>2, <2>1, <2>4, NewestPage
    <3>2. Moments(1..Events) \subseteq 0..Events
      BY Times
    <3>3. watermark' \in Nat
      BY <1>1, <1>4, <2>4, <3>2 DEF FirstWatermark
    <3> QED BY <3>1, <3>3
  <2>5. CASE ids # {}
    <3>1. watermark' = LatestOf(Moments(ids))
      BY <1>1, <1>4, <2>5 DEF FirstWatermark
    <3> QED BY <1>2, <2>1, <2>3, <3>1, NewestPage
  <2> QED BY <2>4, <2>5
<1> HIDE DEF ids
<1>5. watermark' \in Nat /\ HandedUpTo(handed, Len(handed), watermark')
  <2>1. CASE read = 0
    <3>1. \A n \in 1..Len(handed) : handed[n].signal \in provided
      BY DEF PollerInv
    <3> QED BY <1>4, <2>1, <3>1 DEF HandedUpTo
  <2>2. CASE read # 0
    BY <1>1, <2>2 DEF PollerInv, PollerTypes
  <2> QED BY <2>1, <2>2
<1>6. PollerTypes'
  <2>1. PollerTypes
    BY DEF PollerInv
  <2>2. closed' \in Nat /\ closed' <= Len(handed)
    BY <1>1, <1>3, <2>1 DEF PollerTypes
  <2>3. phase' \in {"bootstrap", "running"} /\ read' \in Nat
    BY <1>1, <1>2
  <2> QED BY <1>1, <1>5, <2>1, <2>2, <2>3 DEF PollerTypes
<1>7. HandedInOrder'
  BY <1>1 DEF PollerInv, HandedInOrder, Time
<1>8. phase' = "running" => HandedUpTo(handed', closed', watermark')
  BY <1>1, <1>5
<1>9. phase' = "running" => \A n \in (closed' + 1)..Len(handed') : handed'[n].signal \in seen'
  BY <1>1, <1>3
<1>10. phase' = "bootstrap" => read' # 0 /\ HandedUpTo(handed', Len(handed'), watermark')
  BY <1>1, <1>2, <1>5
<1>11. newest' = 0 /\ page' = {}
  BY <1>1, <1>2 DEF PollerInv
<1>12. \A n \in 1..Len(handed') : handed'[n].signal \in provided' /\ handed'[n].closed < n
  BY <1>1 DEF PollerInv
<1> QED BY <1>6, <1>7, <1>8, <1>9, <1>10, <1>11, <1>12 DEF PollerInv

LEMMA PageFetchedKept == ASSUME PollerInv, PageFetched PROVE PollerInv'
<1>1. /\ phase = "running" /\ provided # {}
      /\ page' = PageBelow(Events + 1) /\ newest' = LatestOf(Moments(page'))
      /\ UNCHANGED <<provided, phase, read, cursor, seen, watermark, evidenced, handed, closed>>
  BY DEF PageFetched
<1>2. Events \in Nat /\ provided \subseteq 1..Events /\ PollerTypes
  BY PollerAssumption DEF PollerInv, PollerTypes
<1>3. page' \subseteq provided
  BY <1>1 DEF PageBelow
<1>4. newest' \in Nat /\ \A i \in provided : Time(i) <= newest'
  <2>1. Moments(page') \subseteq 0..Events
    BY <1>2, <1>3, Times
  <2> QED BY <1>1, <1>2, <2>1, LatestFacts, NewestPage
<1>5. newest' # 0
  <2>1. PICK i \in provided : TRUE
    BY <1>1
  <2>2. i \in 1..Events
    BY <1>2
  <2>3. 1 <= Time(i) /\ Time(i) \in Nat
    BY <2>2 DEF Time
  <2> QED BY <1>4, <2>3
<1>6. HandedUpTo(handed', Len(handed'), newest') /\ \A i \in page' : Time(i) <= newest'
  BY <1>1, <1>3, <1>4 DEF PollerInv, HandedUpTo
<1>7. PollerTypes'
  BY <1>1, <1>2, <1>3, <1>4 DEF PollerTypes
<1>8. HandedInOrder'
  BY <1>1 DEF PollerInv, HandedInOrder, Time
<1> QED BY <1>1, <1>5, <1>6, <1>7, <1>8 DEF PollerInv

\* The page that ends becomes one of the closed, and all of them are behind the
\* watermark.
LEMMA PageEndsKept == ASSUME PollerInv, PageEnds PROVE PollerInv'
<1>1. /\ page = {} /\ newest # 0 /\ phase = "running"
      /\ watermark' = LatestOf({watermark, newest}) /\ newest' = 0 /\ closed' = Len(handed)
      /\ UNCHANGED <<provided, phase, read, cursor, seen, page, evidenced, handed>>
  BY DEF PageEnds, PollerInv
<1>2. PollerTypes /\ watermark \in Nat /\ newest \in Nat /\ Len(handed) \in Nat
  BY LenProperties DEF PollerInv, PollerTypes
<1>3. watermark' \in Nat /\ newest <= watermark'
  <2>1. watermark + newest \in Nat /\ {watermark, newest} \subseteq 0..(watermark + newest)
    BY <1>2
  <2> QED BY <1>1, <2>1, LatestFacts
<1>4. HandedUpTo(handed, Len(handed), watermark')
  <2> SUFFICES ASSUME NEW n \in 1..Len(handed) PROVE Time(handed[n].signal) <= watermark'
    BY DEF HandedUpTo
  <2>1. Time(handed[n].signal) <= newest
    BY <1>1 DEF PollerInv, HandedUpTo
  <2>2. handed[n].signal \in provided /\ provided \subseteq 1..Events
    BY DEF PollerInv, PollerTypes
  <2>3. Time(handed[n].signal) \in Nat
    BY <2>2, Times
  <2> QED BY <1>2, <1>3, <2>1, <2>3
<1>5. PollerTypes'
  BY <1>1, <1>2, <1>3 DEF PollerTypes
<1>6. HandedInOrder'
  BY <1>1 DEF PollerInv, HandedInOrder, Time
<1>7. (closed' + 1)..Len(handed') = {}
  BY <1>1, <1>2
<1> QED BY <1>1, <1>4, <1>5, <1>6, <1>7 DEF PollerInv

\* The steps that hand nothing on and leave what was handed on where it is.
LEMMA OtherStepsKept ==
  ASSUME PollerInv,
         \/ \E i \in 1..Events : Provide(i)
         \/ BootstrapFails \/ PageFails \/ DecisionTaken \/ RestartPoller
  PROVE  PollerInv'
<1>1. /\ handed' = handed /\ closed' = closed /\ evidenced \subseteq evidenced'
      /\ provided \subseteq provided' /\ provided' \subseteq 1..Events
  BY DEF Provide, BootstrapFails, PageFails, DecisionTaken, RestartPoller, PollerInv, PollerTypes
<1>2. HandedInOrder'
  BY <1>1 DEF PollerInv, HandedInOrder, Time
<1>3. \A n \in 1..Len(handed') : handed'[n].signal \in provided' /\ handed'[n].closed < n
  BY <1>1 DEF PollerInv
<1>4. PollerTypes
  BY DEF PollerInv
<1>5. CASE \E i \in 1..Events : Provide(i)
  <2>1. UNCHANGED <<phase, read, cursor, seen, watermark, page, newest>>
    BY <1>5 DEF Provide
  <2>2. PollerTypes'
    BY <1>1, <1>4, <2>1 DEF PollerTypes
  <2> QED BY <1>1, <1>2, <1>3, <2>1, <2>2 DEF PollerInv
<1>6. CASE BootstrapFails
  <2>1. phase = "bootstrap" /\ phase' = "dead" /\ UNCHANGED <<provided, read, seen, watermark, page, newest>>
    BY <1>6 DEF BootstrapFails
  <2>2. PollerTypes'
    BY <1>1, <1>4, <2>1 DEF PollerTypes
  <2>3. newest' = 0
    BY <2>1 DEF PollerInv
  <2> QED BY <1>1, <1>2, <1>3, <2>1, <2>2, <2>3 DEF PollerInv
<1>7. CASE PageFails
  <2>1. /\ page' = {} /\ newest' = 0 /\ seen \subseteq seen'
        /\ UNCHANGED <<provided, phase, read, cursor, watermark>>
    BY <1>7 DEF PageFails
  <2>2. PollerTypes'
    BY <1>1, <1>4, <2>1 DEF PollerTypes
  <2> QED BY <1>1, <1>2, <1>3, <2>1, <2>2 DEF PollerInv
<1>8. CASE DecisionTaken
  <2>1. UNCHANGED <<provided, phase, read, cursor, seen, watermark, page, newest>>
    BY <1>8 DEF DecisionTaken
  <2>2. PollerTypes'
    BY <1>1, <1>4, <2>1 DEF PollerTypes
  <2> QED BY <1>1, <1>2, <1>3, <2>1, <2>2 DEF PollerInv
<1>9. CASE RestartPoller
  <2>1. /\ phase' = "bootstrap" /\ read' = 0 /\ cursor' = Events + 1 /\ watermark' = 0
        /\ page' = {} /\ newest' = 0 /\ provided' = provided
    BY <1>9 DEF RestartPoller
  <2>2. PollerTypes'
    BY <1>1, <1>4, <2>1 DEF PollerTypes
  <2> QED BY <1>1, <1>2, <1>3, <2>1, <2>2 DEF PollerInv
<1> QED BY <1>5, <1>6, <1>7, <1>8, <1>9

LEMMA PollerInvStep == PollerInv /\ [PollerNext]_pollerVars => PollerInv'
<1> SUFFICES ASSUME PollerInv, [PollerNext]_pollerVars PROVE PollerInv'
  OBVIOUS
<1>1. CASE UNCHANGED pollerVars
  <2>1. HandedInOrder' /\ PollerTypes'
    BY <1>1 DEF pollerVars, PollerInv, PollerTypes, HandedInOrder, Time
  <2> QED BY <1>1, <2>1 DEF pollerVars, PollerInv
<1>2. CASE PollerNext
  BY <1>2, BootstrapPageReadKept, PageFetchedKept, SignalConsumedKept, PageEndsKept, OtherStepsKept
     DEF PollerNext
<1> QED BY <1>1, <1>2

\* In every behaviour of the poller no signal is handed on twice, and what a page
\* hands on happened after all that the pages closed before it handed on.
THEOREM PollerHandedInOrder == PollerSpec => []HandedInOrder
<1>1. PollerInit => PollerInv
  <2> SUFFICES ASSUME PollerInit PROVE PollerInv
    OBVIOUS
  <2>1. handed = <<>> /\ Len(handed) = 0 /\ handed \in Seq(Hand) /\ DOMAIN handed = {}
    BY EmptySeq DEF PollerInit
  <2>2. PollerTypes
    BY <2>1 DEF PollerInit, PollerTypes
  <2>3. HandedInOrder
    BY <2>1 DEF HandedInOrder
  <2> QED BY <2>1, <2>2, <2>3 DEF PollerInit, PollerInv
<1>2. PollerInv => HandedInOrder
  BY DEF PollerInv
<1> QED BY <1>1, <1>2, PollerInvStep, PTL DEF PollerSpec

-----------------------------------------------------------------------------
(* RankPoller *)

RankSpec == RankInit /\ [][RankNext]_rankVars

\* Snapshots of pages fetched so far, one of each token.
Snapshots(known) ==
  /\ \A s \in known : s.at \in Nat /\ s.at <= pages
  /\ \A s, q \in known : s.token = q.token => s = q

\* What is known of a token is no older than the rise.
Behind(rise, known) == \A s \in known : s.token = rise.token => rise.at <= s.at

\* The rises in hand are of the last page and begin after all that are recorded.  They
\* may be recorded when the file has what they rose to.
RankInv ==
  /\ pages \in Nat /\ unsaved \in BOOLEAN
  /\ Snapshots(ranks) /\ Snapshots(rankFile)
  /\ RisesApart
  /\ \A r \in evidence : r.at \in Nat /\ r.at <= pages /\ Behind(r, ranks) /\ Behind(r, rankFile)
  /\ \A r \in rises :
       /\ r.at = pages /\ r.since \in Nat
       /\ Behind(r, ranks) /\ (~unsaved => Behind(r, rankFile))
       /\ \A e \in evidence : e.token = r.token => e.at <= r.since
  /\ \A r, q \in rises : r.token = q.token => r = q

\* A page is newer than all that is known, and every rise on it goes from what was
\* known of its token to it.
LEMMA FetchRanksKept ==
  ASSUME RankInv, NEW tokens \in SUBSET Ranked, NEW fetched \in RankSnapshots(tokens, pages + 1),
         FetchRanks(fetched)
  PROVE  RankInv'
<1>1. /\ pages' = pages + 1 /\ rises' = Rises(ranks, fetched) /\ ranks' = RanksObserved(ranks, fetched)
      /\ unsaved' = TRUE /\ rankFile' = rankFile /\ evidence' = evidence /\ pages \in Nat
  BY DEF FetchRanks, RankInv
<1>2. PICK kols \in [tokens -> 0..MaxKols] :
        fetched = {[token |-> t, kols |-> kols[t], at |-> pages + 1] : t \in tokens}
  BY DEF RankSnapshots
<1>3. /\ \A s \in fetched : s.at = pages + 1
      /\ \A s, q \in fetched : s.token = q.token => s = q
  BY <1>2
<1>4. \A s \in ranks' : (s \in ranks /\ \A q \in fetched : q.token # s.token) \/ s \in fetched
  BY <1>1 DEF RanksObserved
<1>5. Snapshots(ranks)' /\ Snapshots(rankFile)'
  BY <1>1, <1>3, <1>4 DEF RankInv, Snapshots
<1>6. \A r \in rises' : \E old \in ranks, new \in fetched :
        /\ old.token = new.token /\ r = [token |-> new.token, since |-> old.at, at |-> new.at]
  BY <1>1 DEF Rises
<1>7. \A r \in evidence' : r.at \in Nat /\ r.at <= pages' /\ Behind(r, ranks') /\ Behind(r, rankFile')
  <2> TAKE r \in evidence'
  <2>1. r.at \in Nat /\ r.at <= pages /\ Behind(r, ranks) /\ Behind(r, rankFile)
    BY <1>1 DEF RankInv
  <2>2. ASSUME NEW s \in ranks', s.token = r.token PROVE r.at <= s.at
    <3>1. CASE s \in ranks
      BY <2>1, <2>2, <3>1 DEF Behind
    <3>2. CASE s \in fetched
      BY <1>1, <1>3, <2>1, <3>2
    <3> QED BY <1>4, <3>1, <3>2
  <2> QED BY <1>1, <2>1, <2>2 DEF Behind
<1> QED BY <1>1, <1>3, <1>4, <1>5, <1>6, <1>7 DEF RankInv, RisesApart, Behind, Snapshots

\* What is kept was known.
LEMMA SaveRanksKept == ASSUME RankInv, SaveRanks PROVE RankInv'
<1>1. /\ unsaved' = FALSE /\ pages' = pages /\ evidence' = evidence
      /\ (rankFile' = ranks' /\ rises' = rises) \/ (rankFile' = rankFile /\ rises' = {})
  BY DEF SaveRanks
<1>2. ranks' \subseteq ranks
  BY DEF SaveRanks, Kept
<1>3. Snapshots(ranks)'
  BY <1>1, <1>2 DEF RankInv, Snapshots
<1>4. Snapshots(rankFile)'
  BY <1>1, <1>3 DEF RankInv, Snapshots
<1>5. \A r : Behind(r, ranks) => Behind(r, ranks')
  BY <1>2 DEF Behind
<1> QED BY <1>1, <1>3, <1>4, <1>5 DEF RankInv, RisesApart

LEMMA RecordRiseKept == ASSUME RankInv, RecordRise PROVE RankInv'
<1>1. ~unsaved /\ UNCHANGED <<pages, ranks, rankFile, unsaved>>
  BY DEF RecordRise, MayRecord, RankInv
<1>2. CASE UNCHANGED evidence /\ rises' = {}
  BY <1>1, <1>2 DEF RankInv, RisesApart, Snapshots
<1>3. CASE \E r \in rises : evidence' = evidence \cup {r} /\ rises' = rises \ {r}
  <2>1. PICK r \in rises : evidence' = evidence \cup {r} /\ rises' = rises \ {r}
    BY <1>3
  <2>2. /\ r.at = pages /\ r.since \in Nat /\ Behind(r, ranks) /\ Behind(r, rankFile)
        /\ \A e \in evidence : e.token = r.token => e.at <= r.since
        /\ \A q \in rises' : q.token # r.token
        /\ pages \in Nat
    BY <1>1, <2>1 DEF RankInv
  <2>3. RisesApart'
    BY <2>1, <2>2 DEF RankInv, RisesApart
  <2> QED BY <1>1, <2>1, <2>2, <2>3 DEF RankInv, Snapshots
<1> QED BY <1>2, <1>3 DEF RecordRise

LEMMA RankInvStep == RankInv /\ [RankNext]_rankVars => RankInv'
<1> SUFFICES ASSUME RankInv, [RankNext]_rankVars PROVE RankInv'
  OBVIOUS
<1>1. CASE UNCHANGED rankVars
  BY <1>1 DEF rankVars, RankInv, RisesApart, Snapshots
<1>2. CASE RestartRanks
  BY <1>2 DEF RestartRanks, RankInv, RisesApart, Snapshots
<1> QED BY <1>1, <1>2, FetchRanksKept, SaveRanksKept, RecordRiseKept DEF RankNext

\* In every behaviour of the poller the recorded rises of a token lie apart.
THEOREM RankRisesApart == RankSpec => []RisesApart
<1>1. RankInit => RankInv
  <2> SUFFICES ASSUME RankInit PROVE RankInv
    OBVIOUS
  <2>1. pages \in Nat /\ Snapshots(ranks) /\ Snapshots(rankFile) /\ RisesApart
    BY DEF RankInit, RisesApart, Snapshots
  <2>2. unsaved \in BOOLEAN
    BY DEF RankInit
  <2> QED BY <2>1, <2>2 DEF RankInit, RankInv
<1>2. RankInv => RisesApart
  BY DEF RankInv
<1> QED BY <1>1, <1>2, RankInvStep, PTL DEF RankSpec

-----------------------------------------------------------------------------
(* RepostCanary *)

CanarySpec == CanaryInit /\ [][CanaryNext]_canaryVars

Distinct(s) == \A i, k \in 1..Len(s) : s[i] = s[k] => i = k

\* What follows the n-th of a sequence.
Following(s, n) == {s[k] : k \in (n + 1)..Len(s)}

\* What was seen of a tweet is remembered with at least what follows it, or as many
\* others as are remembered at once.
TweetSound(x, memory, s, set) ==
  /\ memory = NotSeen \/ memory \subseteq Tweets
  /\ IsFiniteSet(memory)
  /\ \A n \in 1..Len(s) : s[n] = x => memory # NotSeen /\ Following(s, n) \subseteq memory
  /\ memory # NotSeen /\ x \notin set => Cardinality(memory) >= SeenLimit

CanaryInv ==
  /\ reposts \in Seq(Tweets) /\ Distinct(reposts)
  /\ order \in Seq(Tweets) /\ Distinct(order)
  /\ remembered = {order[n] : n \in 1..Len(order)}
  /\ newer = [x \in Tweets |-> newer[x]]
  /\ \A x \in Tweets : TweetSound(x, newer[x], order, remembered)

-----------------------------------------------------------------------------

\* Distinct things are as many as their places.
LEMMA AsManyAsPlaces ==
  ASSUME NEW s, Len(s) \in Nat, Distinct(s), NEW n \in 0..Len(s)
  PROVE  IsFiniteSet(Following(s, n)) /\ Cardinality(Following(s, n)) = Len(s) - n
<1> DEFINE places == (n + 1)..Len(s)
           f == [k \in places |-> s[k]]
<1>1. IsFiniteSet(places) /\ Cardinality(places) = Len(s) - n
  <2>1. n + 1 \in Int /\ Len(s) \in Int
    OBVIOUS
  <2>2. /\ IsFiniteSet((n + 1)..Len(s))
        /\ Cardinality((n + 1)..Len(s)) = IF n + 1 > Len(s) THEN 0 ELSE Len(s) - (n + 1) + 1
    BY <2>1, FS_Interval
  <2> QED BY <2>2
<1>2. places \subseteq 1..Len(s)
  OBVIOUS
<1> HIDE DEF places
<1>3. f \in Surjection(places, {s[k] : k \in places})
  BY DEF Surjection
<1>4. f \in Injection(places, {s[k] : k \in places})
  BY <1>2, <1>3 DEF Injection, Surjection, IsInjective, Distinct
<1> HIDE DEF f
<1>5. Following(s, n) = {s[k] : k \in places}
  BY DEF Following, places
<1>6. /\ IsFiniteSet({s[k] : k \in places})
      /\ Cardinality({s[k] : k \in places}) = Cardinality(places)
  BY <1>1, <1>3, <1>4, FS_Surjection
<1> QED BY <1>1, <1>5, <1>6

\* What a page adds to the order comes after it, and is new.
LEMMA AddedIsNew ==
  ASSUME CanaryInv, NEW all \in Added(Shown)
  PROVE  /\ all \in Seq(Tweets) /\ Distinct(all)
         /\ Len(order) <= Len(all)
         /\ \A n \in 1..Len(order) : all[n] = order[n]
         /\ \A n \in (Len(order) + 1)..Len(all) : all[n] \notin remembered
<1> DEFINE onPage == Shown
           unseen == {n \in DOMAIN onPage : onPage[n] \notin remembered}
<1>1. PICK at \in [1..Cardinality(unseen) -> unseen] :
        /\ \A i, k \in DOMAIN at : i < k => at[i] < at[k]
        /\ all = order \o [k \in DOMAIN at |-> onPage[at[k]]]
  BY DEF Added
<1>2. /\ Len(onPage) \in Nat /\ onPage \in Seq(Tweets) /\ Distinct(onPage) /\ DOMAIN onPage = 1..Len(onPage)
  <2> DEFINE top == IF Len(reposts) < RepostPage THEN Len(reposts) ELSE RepostPage
  <2>1. top \in Nat /\ top <= Len(reposts) /\ reposts \in Seq(Tweets) /\ Distinct(reposts)
    BY CanaryAssumption DEF CanaryInv, CanaryAssumption
  <2>2. onPage = SubSeq(reposts, 1, top)
    BY DEF Shown
  <2> HIDE DEF top, onPage
  <2>3. onPage \in Seq(Tweets) /\ Len(onPage) = top /\ \A n \in 1..top : onPage[n] = reposts[n]
    BY <2>1, <2>2, SubSeqProperties
  <2>4. Distinct(onPage)
    BY <2>1, <2>3 DEF Distinct
  <2> QED BY <2>3, <2>4
<1> HIDE DEF onPage
<1>3. Cardinality(unseen) \in Nat
  <2>1. IsFiniteSet(1..Len(onPage))
    BY <1>2, FS_Interval
  <2>2. IsFiniteSet(unseen)
    BY <1>2, <2>1, FS_Subset
  <2> QED BY <2>2, FS_CardinalityType
<1> DEFINE count == Cardinality(unseen)
           fresh == [k \in 1..count |-> onPage[at[k]]]
<1>4. \A k \in 1..count : at[k] \in 1..Len(onPage) /\ onPage[at[k]] \in Tweets /\ onPage[at[k]] \notin remembered
  BY <1>1, <1>2
<1>5. \A i, k \in 1..count : at[i] = at[k] => i = k
  <2> SUFFICES ASSUME NEW i \in 1..count, NEW k \in 1..count, i # k PROVE at[i] # at[k]
    OBVIOUS
  <2>1. at[i] \in Nat /\ at[k] \in Nat
    BY <1>2, <1>4
  <2>2. i < k \/ k < i
    BY <1>3
  <2> QED BY <1>1, <2>1, <2>2
<1> HIDE DEF unseen
<1>6. all = order \o fresh
  BY <1>1
<1> HIDE DEF count
<1>7. fresh \in Seq(Tweets) /\ Len(fresh) = count /\ count \in Nat
  BY <1>3, <1>4 DEF count
<1>8. /\ \A k \in 1..count : fresh[k] \notin remembered
      /\ \A i, k \in 1..count : fresh[i] = fresh[k] => i = k
  BY <1>2, <1>4, <1>5 DEF Distinct
<1> HIDE DEF fresh
<1>9. order \in Seq(Tweets) /\ Distinct(order) /\ \A n \in 1..Len(order) : order[n] \in remembered
  BY DEF CanaryInv
<1>10. /\ all \in Seq(Tweets) /\ Len(all) = Len(order) + count
       /\ \A n \in 1..Len(all) : all[n] = IF n <= Len(order) THEN order[n] ELSE fresh[n - Len(order)]
  BY <1>6, <1>7, <1>9, ConcatProperties
<1>11. \A n \in (Len(order) + 1)..Len(all) : n - Len(order) \in 1..count /\ all[n] = fresh[n - Len(order)]
  BY <1>7, <1>9, <1>10
<1>12. \A n \in 1..Len(order) : all[n] = order[n]
  BY <1>7, <1>9, <1>10
<1>13. Distinct(all)
  <2> SUFFICES ASSUME NEW i \in 1..Len(all), NEW k \in 1..Len(all), all[i] = all[k] PROVE i = k
    BY DEF Distinct
  <2>1. Len(order) \in Nat /\ Len(all) \in Nat
    BY <1>9, <1>10
  <2>2. CASE i <= Len(order) /\ k <= Len(order)
    BY <1>9, <1>12, <2>1, <2>2 DEF Distinct
  <2>3. CASE i > Len(order) /\ k > Len(order)
    <3>1. i - Len(order) = k - Len(order)
      BY <1>8, <1>11, <2>1, <2>3
    <3> QED BY <2>1, <3>1
  <2>4. ASSUME NEW m \in 1..Len(all), NEW n \in 1..Len(all), m <= Len(order), n > Len(order), all[m] = all[n]
        PROVE  FALSE
    BY <1>8, <1>9, <1>11, <1>12, <2>1, <2>4
  <2> QED BY <2>1, <2>2, <2>3, <2>4
<1> QED BY <1>7, <1>8, <1>9, <1>10, <1>11, <1>12, <1>13

LEMMA RepostKept == ASSUME CanaryInv, NEW x \in Tweets, Repost(x) PROVE CanaryInv'
<1>1. /\ reposts' = <<x>> \o reposts /\ reposts \in Seq(Tweets) /\ Distinct(reposts)
      /\ \A n \in 1..Len(reposts) : reposts[n] # x
  BY DEF Repost, CanaryInv
<1>2. /\ reposts' \in Seq(Tweets) /\ Len(reposts') = Len(reposts) + 1
      /\ \A n \in 1..Len(reposts') : reposts'[n] = IF n = 1 THEN x ELSE reposts[n - 1]
  BY <1>1
<1>3. Distinct(reposts')
  <2> SUFFICES ASSUME NEW i \in 1..Len(reposts'), NEW k \in 1..Len(reposts'), reposts'[i] = reposts'[k]
               PROVE  i = k
    BY DEF Distinct
  <2>1. Len(reposts) \in Nat
    BY <1>1
  <2>2. CASE i = 1 \/ k = 1
    BY <1>1, <1>2, <2>1, <2>2
  <2>3. CASE i # 1 /\ k # 1
    <3>1. i - 1 \in 1..Len(reposts) /\ k - 1 \in 1..Len(reposts) /\ reposts[i - 1] = reposts[k - 1]
      BY <1>2, <2>1, <2>3
    <3>2. i - 1 = k - 1
      BY <1>1, <3>1 DEF Distinct
    <3> QED BY <3>2
  <2> QED BY <2>2, <2>3
<1>4. UNCHANGED <<order, remembered, newer>>
  BY DEF Repost
<1> QED BY <1>2, <1>3, <1>4 DEF CanaryInv, Distinct, TweetSound, Following

LEMMA UndoKept == ASSUME CanaryInv, NEW x \in Tweets, Undo(x) PROVE CanaryInv'
<1>1. PICK n \in 1..Len(reposts) :
        reposts' = SubSeq(reposts, 1, n - 1) \o SubSeq(reposts, n + 1, Len(reposts))
  <2>1. PICK n \in DOMAIN reposts :
          reposts' = SubSeq(reposts, 1, n - 1) \o SubSeq(reposts, n + 1, Len(reposts))
    BY DEF Undo
  <2>2. DOMAIN reposts = 1..Len(reposts)
    BY DEF CanaryInv
  <2> QED BY <2>1, <2>2
<1>2. reposts \in Seq(Tweets) /\ Distinct(reposts) /\ Len(reposts) \in Nat
  BY DEF CanaryInv
<1> DEFINE before == SubSeq(reposts, 1, n - 1)
           after == SubSeq(reposts, n + 1, Len(reposts))
<1>3. /\ before \in Seq(Tweets) /\ Len(before) = n - 1
      /\ \A k \in 1..(n - 1) : before[k] = reposts[k]
  <2>1. n - 1 \in Int /\ \A k \in 1..(n - 1) : reposts[k] \in Tweets
    BY <1>2
  <2> QED BY <2>1, SubSeqProperties
<1>4. /\ after \in Seq(Tweets) /\ Len(after) = Len(reposts) - n
      /\ \A k \in 1..(Len(reposts) - n) : after[k] = reposts[n + k]
  <2>1. n + 1 \in Int /\ Len(reposts) \in Int /\ \A k \in (n + 1)..Len(reposts) : reposts[k] \in Tweets
    BY <1>2
  <2>2. /\ after \in Seq(Tweets)
        /\ Len(after) = IF n + 1 <= Len(reposts) THEN Len(reposts) - (n + 1) + 1 ELSE 0
        /\ \A k \in 1..(Len(reposts) - (n + 1) + 1) : after[k] = reposts[(n + 1) + k - 1]
    BY <2>1, SubSeqProperties
  <2> HIDE DEF after
  <2> QED BY <1>2, <2>2
<1> HIDE DEF before, after
<1>5. /\ reposts' \in Seq(Tweets) /\ Len(reposts') = Len(reposts) - 1
      /\ \A k \in 1..Len(reposts') : reposts'[k] = IF k <= n - 1 THEN before[k] ELSE after[k - (n - 1)]
  <2>1. reposts' = before \o after
    BY <1>1 DEF before, after
  <2> QED BY <1>2, <1>3, <1>4, <2>1, ConcatProperties
<1>6. \A k \in 1..Len(reposts') : reposts'[k] = reposts[IF k <= n - 1 THEN k ELSE k + 1]
  <2> TAKE k \in 1..Len(reposts')
  <2>1. CASE k <= n - 1
    BY <1>2, <1>3, <1>5, <2>1
  <2>2. CASE k > n - 1
    <3>1. k - (n - 1) \in 1..(Len(reposts) - n)
      BY <1>2, <1>5, <2>2
    <3>2. after[k - (n - 1)] = reposts[n + (k - (n - 1))]
      BY <1>4, <3>1
    <3>3. n + (k - (n - 1)) = k + 1
      BY <1>2
    <3> QED BY <1>2, <1>5, <2>2, <3>2, <3>3
  <2> QED BY <1>2, <2>1, <2>2
<1>7. Distinct(reposts')
  <2> SUFFICES ASSUME NEW i \in 1..Len(reposts'), NEW k \in 1..Len(reposts'), reposts'[i] = reposts'[k]
               PROVE  i = k
    BY DEF Distinct
  <2> DEFINE at(m) == IF m <= n - 1 THEN m ELSE m + 1
  <2>1. at(i) \in 1..Len(reposts) /\ at(k) \in 1..Len(reposts)
    BY <1>2, <1>5
  <2>2. at(i) = at(k)
    BY <1>2, <1>6, <2>1 DEF Distinct
  <2> QED BY <2>2
<1>8. UNCHANGED <<order, remembered, newer>>
  BY DEF Undo
<1> QED BY <1>5, <1>7, <1>8 DEF CanaryInv, Distinct, TweetSound, Following

LEMMA PollRepostsKept == ASSUME CanaryInv, PollReposts PROVE CanaryInv'
<1>1. PICK all \in Added(Shown) :
        LET ids == {all[n] : n \in DOMAIN all}
            new == {x \in ids : x \notin remembered}
        IN  /\ order' = SubSeq(all, Excess(all) + 1, Len(all))
            /\ remembered' = (remembered \cup ids) \ {all[n] : n \in 1..Excess(all)}
            /\ newer' = [x \in Tweets |->
                           IF x \in new THEN {y \in new : OlderThan(all, x, y)}
                           ELSE IF newer[x] = NotSeen THEN NotSeen
                           ELSE newer[x] \cup new]
            /\ UNCHANGED reposts
  BY DEF PollReposts
<1> DEFINE out == Excess(all)
           ids == {all[n] : n \in 1..Len(all)}
           new == {x \in ids : x \notin remembered}
<1>2. /\ all \in Seq(Tweets) /\ Distinct(all) /\ DOMAIN all = 1..Len(all) /\ Len(all) \in Nat
      /\ Len(order) \in Nat /\ Len(order) <= Len(all)
      /\ \A n \in 1..Len(order) : all[n] = order[n]
      /\ \A n \in (Len(order) + 1)..Len(all) : all[n] \notin remembered
  BY AddedIsNew DEF CanaryInv
<1>3. /\ order' = SubSeq(all, out + 1, Len(all))
      /\ remembered' = (remembered \cup ids) \ {all[n] : n \in 1..out}
      /\ newer' = [x \in Tweets |->
                     IF x \in new THEN {y \in new : OlderThan(all, x, y)}
                     ELSE IF newer[x] = NotSeen THEN NotSeen
                     ELSE newer[x] \cup new]
      /\ reposts' = reposts
  BY <1>1, <1>2
<1>4. /\ out \in 0..Len(all)
      /\ \A n \in 1..out : Len(all) - n >= SeenLimit
      /\ SeenLimit \in Nat
  BY <1>2, CanaryAssumption DEF Excess, CanaryAssumption
<1> HIDE DEF out
<1>5. /\ order' \in Seq(Tweets) /\ Len(order') = Len(all) - out
      /\ \A n \in 1..Len(order') : order'[n] = all[n + out]
  <2>1. out + 1 \in Int /\ Len(all) \in Int /\ \A n \in (out + 1)..Len(all) : all[n] \in Tweets
    BY <1>2, <1>4
  <2>2. /\ order' \in Seq(Tweets)
        /\ Len(order') = IF out + 1 <= Len(all) THEN Len(all) - (out + 1) + 1 ELSE 0
        /\ \A n \in 1..(Len(all) - (out + 1) + 1) : order'[n] = all[out + 1 + n - 1]
    BY <1>3, <2>1, SubSeqProperties
  <2>3. Len(order') = Len(all) - out
    <3>1. Len(all) \in Nat /\ out \in Nat /\ out <= Len(all)
      BY <1>2, <1>4
    <3>2. Len(order') = IF out + 1 <= Len(all) THEN Len(all) - (out + 1) + 1 ELSE 0
      BY <2>2
    <3>3. CASE out + 1 <= Len(all)
      BY <3>1, <3>2, <3>3
    <3>4. CASE ~(out + 1 <= Len(all))
      <4>1. Len(all) - out = 0
        BY <3>1, <3>4
      <4> QED BY <3>2, <3>4, <4>1
    <3> QED BY <3>3, <3>4
  <2>4. ASSUME NEW n \in 1..Len(order') PROVE order'[n] = all[n + out]
    <3>1. n \in 1..(Len(all) - (out + 1) + 1) /\ out + 1 + n - 1 = n + out
      BY <1>2, <1>4, <2>3
    <3> QED BY <2>2, <3>1
  <2> QED BY <2>2, <2>3, <2>4
<1>6. Distinct(order')
  <2> SUFFICES ASSUME NEW i \in 1..Len(order'), NEW k \in 1..Len(order'), order'[i] = order'[k] PROVE i = k
    BY DEF Distinct
  <2>1. i + out \in 1..Len(all) /\ k + out \in 1..Len(all) /\ all[i + out] = all[k + out]
    BY <1>2, <1>4, <1>5
  <2>2. i + out = k + out
    BY <1>2, <2>1 DEF Distinct
  <2> QED BY <1>4, <2>2
<1>7. remembered = {all[n] : n \in 1..Len(order)}
  BY <1>2 DEF CanaryInv
<1>8. new = {all[n] : n \in (Len(order) + 1)..Len(all)}
  BY <1>2, <1>7
<1>9. remembered' = {order'[n] : n \in 1..Len(order')}
  <2>1. remembered' = {all[n] : n \in (out + 1)..Len(all)}
    <3>1. remembered \subseteq ids
      BY <1>2, <1>7
    <3>2. \A n \in 1..Len(all) : n \notin 1..out <=> n \in (out + 1)..Len(all)
      BY <1>2, <1>4
    <3>3. \A n \in 1..Len(all) : all[n] \in {all[k] : k \in 1..out} <=> n \in 1..out
      BY <1>2, <1>4 DEF Distinct
    <3> QED BY <1>3, <1>4, <3>1, <3>2, <3>3
  <2>2. ASSUME NEW n \in (out + 1)..Len(all) PROVE n - out \in 1..Len(order') /\ order'[n - out] = all[n]
    BY <1>2, <1>4, <1>5
  <2>3. ASSUME NEW n \in 1..Len(order') PROVE n + out \in (out + 1)..Len(all) /\ order'[n] = all[n + out]
    BY <1>2, <1>4, <1>5
  <2> QED BY <2>1, <2>2, <2>3
<1>10. new \subseteq Tweets /\ IsFiniteSet(new)
  <2>1. new = Following(all, Len(order))
    BY <1>8 DEF Following
  <2>2. IsFiniteSet(Following(all, Len(order)))
    BY <1>2, AsManyAsPlaces
  <2> HIDE DEF new
  <2>3. new \subseteq Tweets
    BY <1>2, <1>8
  <2> QED BY <2>1, <2>2, <2>3
<1>11. \A x \in Tweets : TweetSound(x, newer[x], order, remembered)
  BY DEF CanaryInv
\* What follows a tweet is among what is newer than it.
<1>12. ASSUME NEW n \in 1..Len(all)
       PROVE  newer'[all[n]] # NotSeen /\ Following(all, n) \subseteq newer'[all[n]]
  <2> DEFINE x == all[n]
  <2>1. x \in Tweets
    BY <1>2
  <2>2. CASE n > Len(order)
    <3>1. x \in new
      BY <1>2, <1>8, <2>2
    <3>2. newer'[x] = {y \in new : OlderThan(all, x, y)}
      BY <1>3, <2>1, <3>1
    <3>3. ASSUME NEW k \in (n + 1)..Len(all) PROVE all[k] \in newer'[x]
      <4>1. all[k] \in new
        BY <1>2, <1>8, <2>2
      <4>2. OlderThan(all, x, all[k])
        BY <1>2 DEF OlderThan
      <4> QED BY <3>2, <4>1, <4>2
    <3>4. newer'[x] # NotSeen
      BY <1>10, <3>2, CanaryAssumption DEF NotSeen, CanaryAssumption
    <3> QED BY <3>3, <3>4 DEF Following
  <2>3. CASE n <= Len(order)
    <3>1. x \notin new /\ x = order[n] /\ n \in 1..Len(order)
      BY <1>2, <1>7, <2>3
    <3>2. newer[x] # NotSeen /\ newer[x] \subseteq Tweets /\ Following(order, n) \subseteq newer[x]
      BY <1>11, <2>1, <3>1 DEF TweetSound
    <3>3. newer'[x] = newer[x] \cup new
      BY <1>3, <2>1, <3>1, <3>2
    <3>4. ASSUME NEW k \in (n + 1)..Len(all) PROVE all[k] \in newer'[x]
      <4>1. CASE k <= Len(order)
        BY <1>2, <3>2, <3>3, <4>1 DEF Following
      <4>2. CASE k > Len(order)
        BY <1>2, <1>8, <3>3, <4>2
      <4> QED BY <1>2, <4>1, <4>2
    <3>5. newer'[x] # NotSeen
      BY <1>10, <3>2, <3>3, CanaryAssumption DEF NotSeen, CanaryAssumption
    <3> QED BY <3>4, <3>5 DEF Following
  <2> QED BY <1>2, <2>2, <2>3
<1>13. ASSUME NEW x \in Tweets PROVE TweetSound(x, newer'[x], order', remembered')
  <2>1. TweetSound(x, newer[x], order, remembered)
    BY <1>11
  <2>2. \/ x \in new /\ newer'[x] = {y \in new : OlderThan(all, x, y)}
        \/ x \notin new /\ newer[x] = NotSeen /\ newer'[x] = NotSeen
        \/ x \notin new /\ newer[x] # NotSeen /\ newer'[x] = newer[x] \cup new
    BY <1>3
  <2> HIDE DEF new
  <2>3. (newer'[x] = NotSeen \/ newer'[x] \subseteq Tweets) /\ IsFiniteSet(newer'[x])
    <3>1. CASE newer'[x] = {y \in new : OlderThan(all, x, y)}
      BY <1>10, <3>1, FS_Subset
    <3>2. CASE newer'[x] = newer[x]
      BY <2>1, <3>2 DEF TweetSound
    <3>3. CASE newer'[x] = newer[x] \cup new /\ newer[x] # NotSeen
      BY <1>10, <2>1, <3>3, FS_Union DEF TweetSound
    <3> QED BY <2>2, <3>1, <3>2, <3>3
  <2>4. ASSUME NEW n \in 1..Len(order'), order'[n] = x
        PROVE  newer'[x] # NotSeen /\ Following(order', n) \subseteq newer'[x]
    <3>1. n + out \in 1..Len(all) /\ all[n + out] = x
      BY <1>2, <1>4, <1>5, <2>4
    <3>2. Following(order', n) \subseteq Following(all, n + out)
      <4> SUFFICES ASSUME NEW k \in (n + 1)..Len(order') PROVE order'[k] \in Following(all, n + out)
        BY DEF Following
      <4>1. k + out \in (n + out + 1)..Len(all) /\ order'[k] = all[k + out]
        BY <1>2, <1>4, <1>5
      <4> QED BY <4>1 DEF Following
    <3> QED BY <1>12, <3>1, <3>2
  <2>5. ASSUME newer'[x] # NotSeen, x \notin remembered' PROVE Cardinality(newer'[x]) >= SeenLimit
    <3>1. CASE \E n \in 1..out : x = all[n]
      <4>1. PICK n \in 1..out : x = all[n]
        BY <3>1
      <4>2. n \in 1..Len(all) /\ Len(all) - n >= SeenLimit
        BY <1>2, <1>4
      <4>3. Following(all, n) \subseteq newer'[x]
        BY <1>12, <4>1, <4>2
      <4>4. n \in 0..Len(all) /\ Cardinality(Following(all, n)) = Len(all) - n
        BY <1>2, <4>2, AsManyAsPlaces
      <4>5. Cardinality(Following(all, n)) <= Cardinality(newer'[x]) /\ Cardinality(newer'[x]) \in Nat
        BY <2>3, <4>3, FS_Subset, FS_CardinalityType
      <4> QED BY <1>2, <1>4, <4>2, <4>4, <4>5
    <3>2. CASE ~\E n \in 1..out : x = all[n]
      <4>1. x \notin remembered /\ x \notin new
        BY <1>3, <2>5, <3>2 DEF new
      <4>2. newer[x] # NotSeen /\ newer'[x] = newer[x] \cup new
        BY <2>2, <2>5, <4>1
      <4>3. Cardinality(newer[x]) >= SeenLimit /\ IsFiniteSet(newer[x])
        BY <2>1, <4>1, <4>2 DEF TweetSound
      <4>4. /\ Cardinality(newer[x]) <= Cardinality(newer'[x])
            /\ Cardinality(newer[x]) \in Nat /\ Cardinality(newer'[x]) \in Nat
        BY <2>3, <4>2, <4>3, FS_Subset, FS_CardinalityType
      <4> QED BY <1>4, <4>3, <4>4
    <3> QED BY <3>1, <3>2
  <2> QED BY <2>3, <2>4, <2>5 DEF TweetSound
<1>14. newer' = [x \in Tweets |-> newer'[x]]
  BY <1>3
<1>15. reposts' \in Seq(Tweets) /\ Distinct(reposts')
  BY <1>3 DEF CanaryInv
<1> QED BY <1>5, <1>6, <1>9, <1>13, <1>14, <1>15 DEF CanaryInv, Distinct, TweetSound, Following

LEMMA RestartCanaryKept == ASSUME CanaryInv, RestartCanary PROVE CanaryInv'
<1>1. /\ order' = <<>> /\ remembered' = {} /\ newer' = [x \in Tweets |-> NotSeen] /\ reposts' = reposts
  BY DEF RestartCanary
<1>2. IsFiniteSet(NotSeen)
  BY FS_Singleton DEF NotSeen
<1>3. \A x \in Tweets : TweetSound(x, newer'[x], order', remembered')
  BY <1>1, <1>2 DEF TweetSound
<1> QED BY <1>1, <1>3 DEF CanaryInv, Distinct, TweetSound, Following

\* In every behaviour a repost that was seen is reported again only when as many
\* others have been remembered after it as are remembered at once.
THEOREM CanaryReportsLate == CanarySpec => []ReportedAgainLate
<1>1. CanaryInit => CanaryInv
  <2> SUFFICES ASSUME CanaryInit PROVE CanaryInv
    OBVIOUS
  <2>1. IsFiniteSet(NotSeen)
    BY FS_Singleton DEF NotSeen
  <2>2. order = <<>> /\ remembered = {} /\ reposts = <<>> /\ newer = [x \in Tweets |-> NotSeen]
    BY DEF CanaryInit
  <2>3. \A x \in Tweets : TweetSound(x, newer[x], order, remembered)
    BY <2>1, <2>2 DEF TweetSound
  <2> QED BY <2>2, <2>3 DEF CanaryInv, Distinct
<1>2. CanaryInv /\ [CanaryNext]_canaryVars => CanaryInv'
  <2> SUFFICES ASSUME CanaryInv, [CanaryNext]_canaryVars PROVE CanaryInv'
    OBVIOUS
  <2>1. CASE UNCHANGED canaryVars
    BY <2>1 DEF canaryVars, CanaryInv, Distinct, TweetSound, Following
  <2> QED BY <2>1, RepostKept, UndoKept, PollRepostsKept, RestartCanaryKept DEF CanaryNext
<1>3. CanaryInv => ReportedAgainLate
  <2> SUFFICES ASSUME CanaryInv, NEW x \in Reported, newer[x] # NotSeen
               PROVE  Cardinality(newer[x]) >= SeenLimit
    BY DEF ReportedAgainLate
  <2>1. x \notin remembered /\ \E n \in DOMAIN Shown : x = Shown[n]
    BY DEF Reported
  <2>2. x \in Tweets
    <3> DEFINE top == IF Len(reposts) < RepostPage THEN Len(reposts) ELSE RepostPage
    <3>1. top \in Nat /\ top <= Len(reposts) /\ reposts \in Seq(Tweets)
      BY CanaryAssumption DEF CanaryInv, CanaryAssumption
    <3>2. Shown = SubSeq(reposts, 1, top)
      BY DEF Shown
    <3> HIDE DEF top
    <3>3. Shown \in Seq(Tweets)
      BY <3>1, <3>2, SubSeqProperties
    <3> QED BY <2>1, <3>3
  <2> QED BY <2>1, <2>2 DEF CanaryInv, TweetSound
<1> QED BY <1>1, <1>2, <1>3, PTL DEF CanarySpec

=============================================================================
