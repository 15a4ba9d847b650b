# A specification of DeBot4

DeBot4 is a narrative radar for meme tokens: collectors read X, Telegram, DeBot
and a market board, put what they find into a durable SQLite queue, and a worker
researches one job at a time with a language model and stores the result in an
append-only database. This directory holds TLA+ modules for its stateful core,
the TLC configurations that check them on small instances, and TLAPS proofs that
hold for every instance. `PROJECT.json` maps each definition to the lines of
`src/` it models and lists the runs, the mutants, the findings and the hazards.

    tlc -workers 2 -config QueueLeases.cfg MCNarrativeJobQueue
    tlapm NarrativeJobQueueProofs.tla

Paths below are relative to `src/src/debot4/v6/`.

## 1. The system

| Part | State | Operations | What is hard | What makes it correct |
|---|---|---|---|---|
| Job queue, `narrative/job_queue*.py` | table `narrative_jobs` | enqueue, claim, ack, fail, expiry inside the others, reprioritize | several processes; times read before the transaction; late settlement | one settler per job, budget of attempts, final states, no stranded job |
| Worker and service, `narrative/worker.py`, `service.py`, `app.py`, `serve.py` | threads, stop event, the job in hand | work_once, start, stop, bounded join, close | crash between two databases; resources closed under a daemon thread | done implies stored; every job ends |
| Research store, `narrative/research_store.py` | append-only packages | append | duplicates after a crash | one package per attempt at most |
| X and public Telegram monitors, `narrative/monitor*.py`, `telegram_monitor.py`, `x/timeline.py`, `telegram/client.py` | checkpoint file and its copy in memory | poll, first-start rule, accept, save | failures between enqueueing and saving; edits, deletions, short pages | what the checkpoint has passed is queued; the past is not dug up |
| Realtime Telegram, `telegram/realtime.py` | connection, inbox, health | connect, deliver with retries | loss while offline; the same message by two ways | health does not overclaim |
| DeBot feed and market monitor, `narrative/debot_feed.py`, `market_*.py` | seen ids, emitted anomalies | poll_once | limits of the memory, selection before freshness | nothing accepted twice or starved |
| Ledger and tracker, `ledger/`, `tracker.py` | commits, signals, decisions, trades, outcomes | record, finalise | nested transactions, commit clock, causality | strictly rising commits, no use of later knowledge |
| DeBot poller, ranks, `debot/` | watermark, seen ids, bounded queue | bootstrap, consume | marking before recording, full queue | each signal handed on once |
| DeBot login, `debot/http.py`, `credentials.py` | one client, its cookies and the file's identity | get_json, close, renewal by an operator | a renewal between two steps of another thread | a renewed login is used |
| Egress pool, `x/egress.py` | cursor, counters of each node | route, mark, snapshot | concurrent calls that fail over | even load, counters that add up |
| BSC access, `market/` | place in the list of endpoints, caches of tokens and routes | batch, state, buy_quote, mark | endpoints of different heights, threads, caches from other blocks, rounding | one block per quote; no flattering price |
| Status repository, `narrative/repository.py` | first observation per link | research | two threads, an author who edits | everyone is given the same receipt |
| Triggers, Grok, packages, `narrative/*trigger*.py`, `research_runtime.py`, `grok/` | the research in hand, the packages | verify, search, format, verify leads, conclude | posts change between fetches; any step may fail | evidence was really published, as fetched |
| Gate, readiness, entry, `narrative/gate.py` ... `entry.py` | none but what is passed along | dossier, gate, execution boundary, authorisation | late knowledge; a chain that moves on | no lookahead; commits rest on the chain |
| Replay and investigation, `causal_replay.py`, `investigation*.py` | none | verdict over a set of evidence | evidence in any order, denials, late items | later knowledge never helps |
| DEX audit, `dex_audit/` | its runs | refresh_once | three reads of a ledger that is written meanwhile | neither credit nor blame out of time |

Components interact through the queue (collectors enqueue, workers claim), the
package store (the worker writes, the dashboard reads) and the stop event (any
dead thread stops the process). The research of a
trigger calls X through the egress pool and Grok; the ledger is fed by the DeBot
pollers and read by the tracker, which asks BSC for quotes, and by the audit. The
ledger, valuation, market and entry packages are not wired into the running
narrative service (`src/README.md`). Two service
processes may run on the same files: nothing locks them out, and both use the
default worker name.

The full inventory, with the parts that are not modelled and why, is the list
"components" of `PROJECT.json`.

## 2. The modules

- `JobTable` is the table as constant-level operators: a row, and what each
  statement of each operation does to it given the time `now`. Two state machines
  share it. A payload is a record of its immutable `content` (what
  `encode_job_input` hashes) and its volatile `detail`.
- `JobLifecycle` is the abstract specification: phases and budgets only, no
  times, tokens, priorities or owners. Several leases may expire in the step that
  serves one caller, because that is when the code looks for expired leases.
- `NarrativeJobQueue` is the queue under any number of collectors and workers.
  Every operation is two steps, `ReadClock` and a transaction, because the code
  calls `self._now()` before it waits for its lock and for `BEGIN IMMEDIATE`
  (5 s busy timeout). `held` is the job a worker has in memory; `Abandon` is a
  crash or an error that makes it forget.
- `NarrativeWorker` puts processes over the queue and the package store: the loop
  of `run_worker`, the two commits of one cycle, and the end of a process (stop
  event, bounded join, store closed, queue closed, exit, or a crash at any
  moment). Time is relative here, which makes the state space finite without a
  bound on the clock, as liveness needs.
- `SocialMonitor` is the cycle of the two polling monitors for one target each:
  poll, select, accept item by item, save. The checkpoint file and the copy the
  store keeps in memory are separate variables, since `_write` can fail before or
  after `os.replace`. Authors publish, edit and delete at any time.
- `TelegramCollection` extends it by the realtime session: its connection, its
  sequential inbox, three attempts per message, and its health status, over the
  same queue.
- `CommitClock` is the stamp of the ledger's commits: the next number, and the
  wall clock or one microsecond after the previous commit (`LedgerCore._write`).
  The wall clock may be set back. `Ledger` and `LedgerOutcome` share it.
- `Ledger` is everything up to a simulated BUY. The seven tables are one set of
  rows that only grows; a row is what its caller gave and the stamp of its commit.
  `Record` is a public method that is a transaction by itself; `Begin`, `Nested`,
  `Commit`, `Abort` are a bundle (`record_candidate_with_signal`,
  `commit_simulated_buy`), whose writes are nested in one outer `_write` and may
  end after any of them.
- `LedgerOutcome` is the hour after the BUY: block observations, head sightings
  and `finalize_one_hour` with its walk along the canonical chain. The node's
  blocks are constants: forks of any shape, seen in any order.
- `PositionTracker` puts the tracker's tick over `LedgerOutcome`.
- `DebotFeed`, `MarketMonitor`, `DebotPoller`, `RankPoller`, `RepostCanary` are
  five sources that remember what they have seen, each with its provider, its memory
  and, where it has one, the file that keeps it. A write may fail before or after
  `os.replace`, and a process may be started again at any moment. The first two feed
  the queue, the next two the ledger; the canary feeds neither.
- `EgressPool` is a call to X in steps, for any number of threads: the route, and
  attempt after attempt over its nodes with their counters. `chosen` counts, for the
  property, how often a node came first.
- `MarketQuote` is a quote in steps. Every endpoint has a height of its own, a
  request for a block beyond it fails there and goes to the next one, and the place
  in the list is shared by the threads. Decimals and routes are cached for ever.
- `PaperTrade` is the arithmetic of a quote, a mark and the three gates of
  `strategy.py`, with every division and truncation of the code on small integers.
- `NarrativeGate` is the way from a status, a DeBot signal, historical buys and
  observed propagation to a dossier, its readiness, the wave and the gate. A moment
  stands for each time stamp the code compares; a text is one of six kinds of text.
- `EntryWindow` is the quote's boundary, the head, the execution decision and the
  authorisation over a chain that grows and reorganises; `seenAt` remembers, for the
  property, every chain there was at each moment.
- `CausalReplay` and `Investigation` are the two decision procedures, each run anew
  whenever one more item of evidence, or one more status, is known: the question is
  what further knowledge may do to a verdict.
- `StatusRepository` is the lookup of a status by threads over one cache.
- `TriggerResearch` is one research after another, from the trigger to its package,
  for all four kinds of trigger. Before every step an author may edit or delete a
  post. The links of a passive trigger are URLs, a status with one of the ways to write
  it (`Urls`): the code drops a link only when its text is there already, so that a
  status linked twice is fetched twice. What was read is a sequence (`seeds`), and of
  two events of one status and one kind the later stands (`SeedEvents`). Grok's
  answer is any answer, the formatter's output any output, and what the code checks of
  them is applied to it.
- `DexAudit` is an audit in steps, each SELECT of the coverage by itself, while the
  ledger (with the commit clock's rule) goes on writing.
- `DebotLogin` is DeBot's client with its lock, and the file of its cookies, which
  may be renewed, spoilt or lost before any step.
- `MCParts` runs one of these sixteen at a time (the sources by way of `MCSources`):
  they share no variable, so the product of all would show nothing more.
- Eight modules hold the theorems: `JobTableProofs` and `NarrativeJobQueueProofs` (the
  queue and its refinement), `NarrativeWorkerProofs`, `LedgerProofs`,
  `LedgerOutcomeProofs`, `MonitorProofs` (`SocialMonitor`, `TelegramCollection`),
  `SourcesProofs` (the five sources) and `PartsProofs` (the eleven other parts). In the
  last two each part has a section, a specification and an invariant of its own.
- `MC...` modules and the `.cfg` files hold the small instances.

Operators named `Slip...` are slips a programmer might make in the definition
below them. They are not part of the model; each property of a passing run is
shown to fail with one of them.

## 3. What the runs check

| Run | Instance | What it shows |
|---|---|---|
| `QueueLeases` | 2 jobs whose items may be edited, 2 workers with one name, 1 collector, clock to 3, lease of 1, up to 2 attempts | one current holder; held content stands; times causal; only a live lease completes; a lease is kept until it expires |
| `QueueLifecycle` | 2 jobs of 2 priorities with fresher readings, 1 worker that may forget its job, 1 collector, clock to 3 | CHECK constraints; no stranded job; refinement of `JobLifecycle` |
| `QueueOldest` | 2 jobs of one priority | finding: newest first, the docstring says oldest |
| `Workers` | 2 processes, 1 job, up to 2 attempts, lease of 2 | a done job is stored; packages never outnumber attempts; every queued job ends (liveness) |
| `XMonitor` | 3 posts, pages of 2, one edit each | what the checkpoint passed is queued; the past stays out |
| `MonitorEnds` | a Telegram channel, 3 posts, pages of 2, deletions | what the checkpoint has passed is queued and the past stays out, though the checkpoint may go back; every post is queued or lost in a named way (liveness) |
| `TelegramBoth` | 2 channels, 1 post each, read differently by the two ways | the session does not make the public monitor lose anything; "live" misses nothing |
| `TelegramTwice` | 1 channel, 1 post | finding: an unedited message is refused as a conflict |
| `Parts` | one part at a time: a feed of 3 signals on pages of 2, remembering 2; a board of 2 tokens, 1 selected, over 2 days; 5 DeBot signals on pages of 2, queue of 1; ranks of 2 tokens, 1 kept, 3 pages; 3 reposts on pages of 2, remembering 2; 4 calls by 2 threads over 2 egress nodes; quotes of 2 threads over 2 endpoints and 2 blocks; pools of 1 to 100 units; a gate 1 moment after its cutoff; 2 lookups of a status edited twice; a window of 4 moments and 3 blocks; cases of 4 items; 11 statuses of an investigation; a trigger over 2 statuses, each linked under up to 2 URLs, and a message, one of them edited to and fro between 2 texts; an audit of 2 tokens; 3 calls by 2 threads of a login renewed twice | nothing is remembered before it is queued; an anomaly is emitted once; signals are handed on once and in order; rises do not overlap; a repost is reported again only after the memory's length; even load and exact counters; one block per quote; no lookahead; one receipt per link; no flattering price; commits rest on the chain; hindsight, late and denying evidence never help; evidence is verified, and of two texts of a post only when it is linked twice; audits keep time; a renewed login is used |
| `LedgerDecisions` | 2 signals of a candidate, 1 piece of evidence, 1 decision, 2 BUYs that want it, clock to 3, 4 commits | a decision stands whatever is recorded later; evidence came before its signal; commit order; the past is fixed; a BUY is whole or absent |
| `LedgerResults` | 1 BUY, 1 block of one fork and 2 of another above its entry block, clock to 4, set back once, 4 commits | a complete result is one chain from the entry block without a gap; no fact contradicts a sealed result |
| `TrackerSettles` | 1 BUY, 2 blocks | finding: the tracker never settles a BUY |

The sources. `SeenIsQueued` excepts the signals marked when there was no reason to
research them: DeBot goes on changing what it shows of a signal, and a KOL who joins
later makes no candidate of it, because its id is already in the checkpoint.
`HandedInOrder` compares a page with the pages read to the end before it. After an
error the rest of a page is read again together with what has appeared since, so
that a later signal may go before an earlier one. Two signals share each moment, so
that the comparison with the watermark is checked at equality. `EmittedOnce` assumes
what `MarketAssumption` says, a retention of a day at least; `MarketAnomalyMonitor`
uses three days.

The parts. `SameBlock` is about heights: blocks are named by number, and the code
does not notice that the chain was reorganised between two calls. `CommitsOnChain`
says what the comparison of hashes gives, which is done at equal height only.
`EvidenceIsVerified` allows what the code allows: a denial that carries the token's
address makes a passive package EVIDENCE_FOUND, as `item.token_address == exact_ca`
asks for no more (`narrative/passive_trigger.py:261`). It also allows two texts of one
post in a package, in the one case where the code does: the trigger links the post
under two URLs (`narrative/passive_hints.py:47` drops a link only for its own text), its
author edits it between the two fetches, and the two texts give events of different
kinds, so that `narrative/passive_evidence.py:60` keeps both. In every other way in, by
the trigger itself, by Grok, or by both, a post is read once. `HindsightHelpsNothing` and
`LateOrDenyingNeverHelps` compare a verdict with the one before one more item was
known, in every order of the items.

Why the bounds are enough. A lease conflict needs one job and two workers; the
clock bound lets a lease expire, be given out again and expire again with a
caller stuck on an old reading. Two processes and one job are enough for
`Workers`, because a process has one job in hand and packages and attempts are
counted per job; jobs that are recovered together are in `QueueLifecycle`.
A transaction that recovers another job's lease needs two jobs. A monitor needs one
post more than a page holds to lose one, and one more to see the checkpoint move on afterwards; targets of a monitor share
nothing but the file, so one is enough except for partial resolution of
channels, which `TelegramBoth` checks with two. A late row that could upset a
decision needs the decision's own three rows and one commit after them; a path that
could jump forks needs a block above the fork on one side and a block of the same
number on the other, and four commits to buy, see two blocks and settle; a fact that
could contradict a result needs a wall clock set back after the result, so that it is
committed before the result's cutoff. Posts are never more than
`MaxPosts`, edits never more than `MaxEdits` each, the clock never beyond
`MaxTime`, the ledger's commits never more than `MaxCommits`, its wall clock set
back at most `MaxBack` times; the sources have `MaxSignals`, `MaxChanges`, `MaxMoment`,
`Events`, `MaxKols` and `MaxPages` for what their providers do. The
parts have `MaxCalls`, `MaxQuotes`, `MaxBlock`, `MaxEdits`, `MaxLookups`, `LastSecond`,
`MaxMined`, `MaxItems`, `MaxRewrites`, `MaxResearch`, `MaxRuns`, `MaxSaves` and
`MaxFetches`. A race needs two threads, a failover two nodes, and a cache that is out
of date one change and one reader on each side of it; the four items of a case are
one of each role it asks for, and the one that upsets it; two readings of a post need
one edit and either two URLs of it or a lead that was read before, which needs one
trigger. Every other variable is bounded by the program.

Symmetry is used for jobs and workers, channels, signals and the threads of `Parts`,
and only in runs of safety properties; the liveness runs have none. The runs of the
ledger and of the parts do not check deadlock: with the clock, the commits and the
calls bounded, they stop.

The wall clock is set back in `LedgerResults` only. The clocks of `NarrativeJobQueue`,
`NarrativeWorker` and `DexAudit` never go back, so that their properties, and the
theorems about them, say nothing of a machine whose clock does: the queue could then
store times out of order, and an audit take a row for earlier than it is. What the
queue's clock does do is grow old between its reading and the transaction.
In `LedgerDecisions` the wall clock is never set back, to keep the run short. With
`MaxBack = 1` and `Buys = {}` its properties hold as well (6.4 million states), and
all five are proved for any `MaxBack`.

### How the ledger is modelled

- Methods that are their own transaction check their caller's moments against a
  clock read before the lock; the nested writes of a bundle, against the time of
  the commit. The model therefore accepts in `Record` any moment not later than
  `latest`, the furthest the wall clock has ever been: that is the most any earlier
  reading can have been.
- The clock does not move inside a bundle, because nothing there reads it: every
  nested write uses the time taken when the outer `_write` began, under the
  process's lock and the database's.
- Consequently a moment may lie after the commit that records it, when the wall
  clock was set back between the two. `DecisionStands` says nothing of such
  decisions: rows committed between the commit and that moment may still be visible
  as of it.
- All candidates are of one token: rows of other tokens are never looked at
  together. Prices, market values and what is computed from them are left out; so
  is the coverage watermark, for which the caller may claim any moment between the
  end of the window and the cutoff.
- The blocks form whatever forks a run gives; a hash has one number, one parent and
  one time, which is what a block hash means.

### Losses that are part of the properties

`CheckpointIsHonest` is `PassedIsQueued` and `PastStaysOut`. `PassedIsQueued` excepts
three kinds of posts, each an observable limit of the code: those the first-start rule skips on purpose, those deleted by their author,
and those pushed off the page by newer posts before they were read.
`EveryPostQueued` is checked without edits: a post edited between a failed cycle
and its repetition conflicts with its first reading and keeps the checkpoint back
until it leaves the page, and nothing in the code promises otherwise.

## 4. Fairness

`Workers` assumes: time passes (WF of `Tick`); a process that is down is
started again, as a supervisor does; closing and exiting go on once begun (the
join is bounded); research ends, because every HTTP call has a timeout; ack or
fail ends in success or in an error (the busy timeout). Strong fairness of the
loop and of the claim says that the process is not always stopped before it has
claimed, and the database not always busy. Nothing is assumed about ack
succeeding or about the process staying up during research: those losses are paid
from the budget of attempts.

`MonitorEnds` assumes that the source's thread polls (WF) and that a request, the
enqueueing of a post and a checkpoint write that are tried again and again succeed
again and again (SF); between successes they may fail any number of times.

## 5. What is proved

Every safety invariant and every action property of the passing runs is also a
theorem, for every value of the constants that their assumptions allow. Each proof has
the same shape: an inductive invariant with `Init => Inv` and
`Inv /\ [Next]_vars => Inv'`, one step per action, and `Inv => property`; an action
property is shown of a step that begins in `Inv`.

The assumptions are the named `ASSUME`s of the modules, one per module
(`TableAssumption`, `QueueAssumption`, `WorkerAssumption`, `MonitorAssumption`,
`CollectionAssumption`, `ClockAssumption`, `LedgerAssumption`, `OutcomeAssumption`, and
one each of the sixteen sources and parts, from `FeedAssumption` to `AuditAssumption`).
They say that limits are natural numbers, positive where the code's validation asks for
it, that times are natural numbers, and that the marks for "none" are not one of the
things they stand beside. The ones that say more: a marked day is kept for at least a
day (`MarketAssumption`), a call makes at most as many attempts as there are nodes
(`EgressAssumption`), a status is fetched no earlier than it was published
(`InvestigationAssumption`), taxes are percentages and reserves positive
(`TradeAssumption`). TLC evaluates them on every run of the modules they belong to.

### The queue

- `QueueInvariant`: `Spec => []IInv`, and from it `TypeCorrect`, `ChecksPass`,
  `PendingClaimable`, `OneHolder`, `ContentStands`, `CausalTimes`: the types and the
  five invariants of the queue runs;
- `LiveLeaseCompletes` and `LeaseKept`, the two action properties of the runs, and
  `TerminalStays`: no step changes a done or failed row;
- `QueueImplementsLifecycle`: the queue implements `JobLifecycle` under the
  mapping of a row to its status and to `max - attempts`.

`OneCurrentHolder` is not inductive by itself: a claim
gives out `nextLease`, and nothing in the property says that no worker already
holds that number. `IInv` therefore adds to the types

- `ClockInv`: no reading is ahead of the clock, and rows are created no later than
  the present, so that an expiry computed from a reading is known to be later
  than the row's creation;
- `TicketInv`: tickets hold only numbers below `nextLease`, two workers never hold
  the same number, the job of a ticket is stored with the ticket's content, and a
  worker that has read the clock since has read a time after its job's creation;
- `RowInv` of every row (in `JobTableProofs`): the CHECK constraints, attempts
  within the budget, with one left while the row is pending, and the order of its
  times.

`JobTableProofs` proves once, per operator of `JobTable`, that it preserves
`RowInv`; `NarrativeJobQueueProofs` then has one step lemma per action. The action
properties and the refinement rest on a lemma about the shape of a step
(`StepShape`): every step leaves each row alone, recovers it, or does exactly one
of submitting, refreshing, repricing, leasing or settling to one row. That
no two tickets share a number is also why a late ack is harmless: the row of a job
recovered and leased again carries the number of another ticket.

### The worker

`DoneStored` and `StoredWithinAttempts`, for any number of processes and jobs. The
budget alone does not count packages: a process that has claimed a job may still store
one. `AttemptsCover` counts both, the packages of a job and the processes that are at
research on it, and says that together they are at most its attempts. `StoredFirst`
says that a thread about to ack has stored its package, which is what makes
`DoneIsStored` inductive whichever of the two databases a dying process closes first.
A step that touches neither attempts nor packages is dealt with once (`Quiet`).

### The monitors

`MonitorPassedIsQueued`, `MonitorPastStaysOut` and their conjunction
`MonitorCheckpointIsHonest`, for either source. The checkpoint is
saved at the end of a cycle, of a page that was read at its beginning. `Safe` therefore
says of each stage of a cycle (idle, polled, accepting) what has become of the
posts up to those of its page, and of both copies of the checkpoint; `Past` says where
the posts are that were too old for the first start: behind every checkpoint that can
still be read, or deleted, and never among those to be accepted. That a Telegram
checkpoint may go back is why `Past` has to know that the page still holds something
as late as the post.

`CollectionPassedIsQueued` needs little more, as the invariant bears that others queue
posts in between. `CollectionLiveMissesNothing` relates the health, the connection and
the messages that were given up on.

### The ledger

`SpecCommitOrder`, `SpecViewFixed`, `SpecDecisionStands`, `SpecBuyIsWhole` and
`SpecEvidenceFirst`, for any candidates, signals, evidence, decisions and BUYs and a
wall clock set back any number of times; `SpecResultStands`, `SpecNoForkStitching` and
`SpecHourIsCovered`, for any blocks and forks, any hour, gap and lateness.

`CommitOrder` needs to know of the rows of an open bundle as well:
`RowsInv` says that every committed row has a stamp up to the last one and that
equal numbers mean equal times, `TxnInv` that an open bundle has the next number, a
time after the last one, and only rows with that stamp. `ViewFixed` then follows
from the shape of a step: what it adds carries a time after `last.at`.

`DecisionStands` and `EvidenceFirst` are stated of what is committed, but a nested write
is checked against `View`, the committed rows and those of the open bundle, and its
bundle may still be aborted. `TablesInv` therefore says of both that each id has one
row, that what a row refers to is there and was committed no later, and that decisions
stand. That a BUY is whole follows from the plan of the bundle (`BundleInv`): what is
still to be written and what has been written make up the whole.

For `ResultStands` the tables must have their shape and a BUY must be whole, with its
entry block observed and sighted: only then is a repeated bundle, which comes after
the result, sure to add nothing. The judgement is a constant operator of the tables
and the cutoff, so the argument never looks into the walk: all tables it reads are
frozen from the moment a result exists.

`NoForkStitching` and `HourIsCovered` do look into it. The walk along the canonical
chain is a recursive function over heights; induction over it is out of reach, but to
show that all of a path is good it is enough to take the least height at which it is
not (`WFMin`), and to unfold the function there once.

### The sources

- `FeedSeenIsQueued`: beside the property, what is on the way to the memory, or to its
  file, is remembered with a job or a reason, at each point of a poll.
- `MarketEmittedOnce`: what was emitted is guarded by a mark, in memory and in the file,
  for as long as a poll could find it again; a mark is dropped only when its anomaly is
  of a day no poll will ask for (this is where the retention is used).
- `PollerHandedInOrder`: what was handed on is no later than the watermark, up to the
  page in hand; what was handed on since is in the set of seen ids; and the page in
  hand, which was the newest, has nothing after it.
- `RankRisesApart`: the rises in hand begin no earlier than all recorded ones end,
  since the snapshots, those of memory and those of the file, are behind neither.
- `CanaryReportsLate`: of a tweet that is remembered, all that stand after it in the
  order count as remembered after it; of one that was dropped, they were as many as the
  memory holds. The rest is counting.

### The parts

- `EgressEvenAndExact`: the nodes before the cursor have been first once more than the
  others; the counters of a node differ by the calls that wait for it. The counting is
  of a set that gains or loses one thread.
- `QuoteSameBlock`: by step of a quote, what it has read so far shows the block of its
  head only. The cache of routes is shared, and says nothing of a block.
- `LoginRenewed`: of the client, of the file and of every thread between its steps,
  whose login is no older than whose.
- `RepositorySameReceipt`: what a thread is about to be given is what the cache holds,
  once it holds anything, and the cache never changes it.
- `ResearchEvidence`: at each step of the research in hand, its seeds and leads were
  shown and are marked as verified. Each seed of a passive trigger is of a URL that is
  no longer among those left, so that two seeds of one status are of two URLs of the
  trigger; of two events of a status and a kind the later seed's took the other's
  place; and a lead is followed only when its status is not among the seeds.
- `InvestigationUnhelped`, `ReplayHindsight`: the verdict is that of the evidence there
  is; the rest is about the decision procedures themselves: a late status is not among
  the usable ones, a denial only adds to what speaks against a token, an item that is
  not prior leaves the prior ones as they were.
- `GateNoLookahead`: for any cutoff, last moment and age, of the statuses, signals, facts
  and reports that `BuildDossier` lists, which have one fact of earlier activity at most
  and one report of each of two groups. A PASS implies that status and signal were in
  time, and then the dossier is the same, finding by finding, when all late material is
  left out.
- `WindowCommitsOnChain`: blocks of a height seen at the same moment as the quote's, or
  later, were on one of the chains there were at that moment.
- `TradeNeverFlatters`: the arithmetic of a constant product with integer division. The
  output of a swap is bounded by two inequalities without a division (`SwapFor`), the
  rest is products of those, one step each, since the prover decides nonlinear goals
  only when they are that small.
- `AuditKeepsTimes`: what a SELECT has read of a fact lies between what was committed
  when the board was taken and what is committed now, and what came after the board
  carries a later time, by the rule of the commit clock.

## 6. Only model-checked

- `EveryJobEnds` and `EveryPostQueued`: liveness under fairness is beyond the prover.
- `ClaimsOldestReady`, `ObservedIdempotently` and `EveryBuyIsSettled`, the properties of
  the findings: they do not hold.

In three modules one definition has the form the prover can reason about: the ids the
canary adds are listed by a rising enumeration of their places (`Added`), not by
`SelectSeq`; what the market policy selects is any subset of the right size
(`Selections`); the active triggers are a
filtered set of records.

## 7. Findings

1. `claim` leases the newest ready job of a priority, its docstring says the
   oldest (`QueueOldest`).
2. A Telegram message with runs of white space or empty lines has one content
   through the session and another through the page, so the collector is not
   idempotent as its docstring says (`TelegramTwice`). For the public monitor the
   conflict ends the cycle before the checkpoint is saved, and repeats for as long
   as the message is on the page.
3. The tracker calls `finalize_one_hour` without `coverage_complete_through`, which
   the ledger requires, and `record_block_observation` without `parent_hash`: every
   tick with a due BUY ends in a caught `TypeError`, and no BUY is ever settled,
   although the module promises an "immutable 1h settlement" (`TrackerSettles`).
   With both keywords passed, `EveryBuyIsSettled` holds in the same model. It needs
   only the fairness of the thread's loop and of time.

One more remark of the same kind, which no run of its own shows: `ack` may complete
a lease that expired while it waited for the database, though its docstring says an
unexpired one. What holds, and is proved (`LiveLeaseCompletes`), is that the lease
outlasts the reading of the clock that `ack` compares it with.

Other remarks, of code whose behaviour no document contradicts. The verifier of a
status asks `ActorRegistry.permits` with an empty narrative key
(`narrative/trusted_ingest.py:74`), so a creator who is registered for one narrative
is never verified. A lead whose fetch raises `FxTwitterError` ends an active or
Telegram research (`narrative/active_trigger.py:123`), while a passive one notes it. A
status that a token links under two URLs is fetched twice, counts twice towards
`max_statuses`, and may be in a package both as verified and as failed, or with two
texts (`narrative/passive_hints.py:47`). An
answer of DEX providers without the expected shape raises out of `run_forever`
(`dex_audit/providers.py:133`).

## 8. What is left out, and the plan

Not modelled: dashboards, status pages and the command line, which only read;
settings and the static catalogs of actors; deployment files. Of the modelled parts:
the encoding of requests and documents (DeBot's parser, ABI words, canonical JSON),
hashing and signatures, which are taken to tell different things apart; prompts and
wording; how words are found in a text, for which a text is one of a few kinds; the
thresholds of `market_signal.py` and of `narrative_job_priority`; the history seed of
the DeBot client. They keep no state, and no property here depends on how they do what
they do.

Done: the queue with its proofs and refinement, the worker, the monitors, the
sources, the ledger with its clock and its results, the tracker, and the eleven other
parts of `Parts`.

Proved: every safety property of the passing runs, and the refinement of `JobLifecycle`.

Left, in this order:

1. `NarrativeWorker` over `JobLifecycle`: the same refinement as the queue's, under
   relative time and with the ends of processes.
2. The append-only log as an abstract specification of the ledger: a sequence of
   commits, of which the tables are a view.
3. The service's threads as a module of their own, with the stop event and the bounded
   join of each.
