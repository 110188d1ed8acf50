SPECIFICATION HubSpec
CONSTANTS
  people = people
  products = products
  contacts = contacts
  contacts2 = contacts2
  titles = titles
  all = all
  one = one
  Mappings = {people, products}
  Tables = {contacts, contacts2, titles}
  Published <- MCPublished
  Configured <- MCConfigured
  Incremental = {people}
  Jobs = {all, one}
  Target <- MCTarget
  Erased <- MCErased
  Kind <- MCKind
  None = None
  MaxTime <- MCMaxTime
  Budgets <- MCBudgets
  Uploads = {u1, u2}
  MaxBatches = 2
  a = a
  b = b
  ra = ra
  rb = rb
  Audience = {a, b}
  AudBudgets <- MCAudBudgets
  Builds = {a, b}
  MaxGeneration = 3
  MaxAsked = 3
  Profile = {a, b}
  Record = {ra, rb}
  Home <- MCHome
  Authoritative = {ra}
  Channel = {"email", "sms"}
  Said <- MCSaid
  MaxSaid = 3
  MaxProfiles = 5
  MaxRecords = 3
  MaxImports = 4
  Identifier = {"email", "phone"}
  Row = {"r1", "r2", "w1"}
  Carries <- MCCarries
  ApiRow = {"w1"}
  Admin = {a, b}
  MaxDeletions = 1
  MaxContact = 2
  Settle = 1
  Overlap = 2
  MaxDelay = 3
  MaxClock = 5
  MaxChanges = 2
  MaxMessage = 3
  Identifies = {1}
  SuppressedIds = {3}
  BatchLimit = 2
  QueueLimit = 2
  MaxSends = 2
  MaxRequests = 2
  Donor = {a, b}
  Writer = {ra, rb}
  NoDonor = NoDonor
  MaxFacts = 2
  Export = {a}
  MaxVersion = 2
  Chunks <- MCChunks
  MaxTrouble = 1
  NoExport = NoExport
  DayLength = 4
  MaxMinute = 6
  Zones <- MCZones
  Expressions <- MCExpressions
  NumRecords = 3
  MaxProfile = 4
  Similar <- MCSimilar
  Alike <- MCAlike
  Keyed = {1, 3}
  Batch = {r1, r2}
  MaxJobAttempts = 2
  MaxMishaps = 1
  MetaLead = {1}
  MaxConfig = 2
  MaxCalls = 4
  MaxLosses = 1
  LastDay = 2
  NoTime = NoTime
  Spans = {1,2}
  MaxObserved = 3
  Paired <- MCPaired
  Giver = {1,2,3}
  Year = 1
  MonthLength = 2
  Tiles = 2
  Ledgers <- MCLedgers
  MaxToday = 4
  MaxGifts = 4
  NoDay = NoDay
  ContactKey = {"e1", "e2"}
  LoginKinds = {{"l1", "l2"}, {"m1"}}
  SourceKey = {"x1"}
  MaxRecord = 3
  KeySets <- MCKeySets
  HighCardinality = 2
  MaxArrivals = 4
  BatchSize = 2
  Reader = {1,2}
  ListName = {"A","B"}
  ListBatch = 1
  MaxRuns = 3
  MaxEvents = 2
INVARIANT HistoryIsTrue
INVARIANT LeadsAreFollowed
INVARIANT RulesMeanWhatTheySay
INVARIANT PeopleAreComponents
INVARIANT ListIsClean
INVARIANT StoredOnce
INVARIANT NothingUnseen
INVARIANT StaleIsMarked
INVARIANT NothingPassedOver
INVARIANT ReferencesHold
INVARIANT RefreshKept
INVARIANT OptOutStands
INVARIANT MastersResolve
INVARIANT ErasedRowsStayGone
INVARIANT NothingSkipped
INVARIANT SessionIsWhole
INVARIANT ShownIsKept
CHECK_DEADLOCK FALSE
PROPERTY WholePulls
PROPERTY Delivered
PROPERTY WindowTraits
PROPERTY UnmergeRestores
PROPERTY AnswersWhole
PROPERTY TraitsHold
