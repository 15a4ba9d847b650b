\* One part at a time.  In order: a feed of 3 signals on pages of 2, remembering 2; a
\* board of 2 tokens, of which one is selected; 5 signals of DeBot on pages of 2; ranks
\* of 2 tokens, of which one is kept; 3 reposts on pages of 2, remembering 2; four
\* calls over two nodes; quotes of two threads over two endpoints and two blocks; a
\* gate one moment after its cutoff; lookups of an edited status; pools of 1 to 100
\* units; a window of four moments and three blocks; four items of a case; eleven
\* statuses of an investigation; a trigger over two statuses, each linked under up to two
\* URLs, and a message, one of them edited, with one lead of Grok's that is followed; an
\* audit of two tokens; two threads that share a login renewed twice.
SPECIFICATION Spec
CONSTANTS
  NoJob = NoJob
  a = a
  b = b
  x1 = x1
  x2 = x2
  x3 = x3
  FeedPage = 2
  FeedLimit = 2
  MaxSignals = 3
  MaxChanges = 1
  Movers = {a, b}
  Stages = 1
  MaxAnomalies = 1
  DayLength = 2
  Retention = 2
  MaxMoment = 5
  Events = 5
  KolBuys = {2, 3}
  SignalPage = 2
  BootstrapPages = 2
  QueueSize = 1
  Ranked = {a, b}
  MaxKols = 2
  MaxTokens = 1
  MaxPages = 3
  Tweets = {x1, x2, x3}
  RepostPage = 2
  SeenLimit = 2
  p1 = p1
  p2 = p2
  m1 = m1
  r1 = r1
  r2 = r2
  Callers = {r1, r2}
  Nodes = 2
  MaxAttempts = 2
  MaxCalls = 4
  Quoters = {r1, r2}
  Endpoints = 2
  BlockRows <- SmallRows
  MaxBlock = 2
  MaxQuotes = 2
  AsOf = 3
  LastMoment = 4
  MaxWaveAge = 2
  AllowProxy = TRUE
  Readers = {r1, r2}
  Links = {"k"}
  MaxEdits = 2
  MaxLookups = 3
  Reserves = {1, 9, 10, 100}
  Notionals = {1, 7, 20, 299}
  QuotePrice = 3
  Taxes = {0, 10, 50}
  MaxTax = 50
  MaxLoss = 9000
  MaxAge = 2
  MaxQuoteAge = 2
  MaxHeadAge = 1
  MaxLag = 1
  LastSecond = 4
  MaxMined = 3
  TriggerAt = 2
  BuyAt = 3
  ReplayItems <- SmallItems
  MaxItems = 4
  Actors = {"official", "expert", "kol", "other"}
  Tier <- SmallTier
  Can <- SmallCan
  Scoped = {}
  Posted <- SmallPosts
  Cutoff = 3
  MaxCatalyst = 1
  MaxKolAge = 2
  MinGroups = 2
  ExpansionGroups = 3
  XPosts = {p1, p2}
  Spellings = {plain, query}
  Messages = {m1}
  Binders = {p1, m1}
  Attempts = 2
  MaxHints = 2
  MaxLeads = 1
  MaxRewrites = 1
  MaxResearch = 1
  Tokens = {p1, p2}
  Limit = 1
  MaxTime = 2
  MaxRuns = 1
  Fetchers = {r1, r2}
  MaxSaves = 3
  MaxFetches = 3
SYMMETRY Threads
CHECK_DEADLOCK FALSE
INVARIANTS SeenIsQueued EmittedOnce HandedInOrder RisesApart ReportedAgainLate
INVARIANTS EvenAndExact SameBlock NoLookahead SameReceipt NeverFlatters CommitsOnChain  AuditKeepsTime RenewedLoginIsUsed
PROPERTIES HindsightHelpsNothing LateOrDenyingNeverHelps
