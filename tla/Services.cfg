SPECIFICATION Spec_All
CONSTANTS
  Parts = {"rates", "domains", "accounts", "gate", "paging", "scan", "stats", "answer", "probe", "codecs"}
  \* RateLimiter
  Callers       = {r1, r2}
  Visitors      = {"v1", "v2"}
  Paths         = {"x"}
  Proxy         = "proxy"
  LimitOf       <- Quotas
  ByIPAndCode   = {"stats"}
  Window        = 3
  Second        = 2
  MaxRateTime   = 4
  MaxRateFaults = 1
  \* DomainSnapshot
  Lookups        = {r1, r2}
  Domains        = {d1}
  NameOf         <- OneName
  Hosts          = {"a"}
  Links          = {l1}
  Default        = Default
  NoSnap         = NoSnap
  SnapshotTTL    = 1
  ResolveTimeout = 1
  MaxSnapTime    = 2
  MaxChanges     = 2
  \* Accounts
  Addresses   = {"x"}
  Spellings   = {"lower", "Upper"}
  Passwords   = {"p", "q"}
  Sessions    = {r1, r2}
  Servers     = {s1, s2}
  Skews       = {0, 1}
  Leeway      = 1
  Expiry      = 1
  MaxAuthTime = 2
  NoUser      = NoUser
  \* PasswordGate
  Processes     = {p1}
  TTL           = 1
  NegTTLs       = {0}
  Fetch         = 1
  MaxVersion    = 2
  MaxFaults     = 1
  LinkPasswords = {a, b}
  NoPassword    = NoPassword
  UnlockTTL     = 4
  \* Paging
  RowIds         = {1, 2, 3, 4}
  Stamps         = {0, 1}
  Asked          = {0, 1, 5}
  DefaultPage    = 2
  MaxPage        = 3
  MaxListChanges = 2
  \* DeadLetterScan
  StreamIDs     <- IDs
  ReapLimit     = 2
  MaxRetries    = 2
  MaxDeliveries = 2
  \* LinkStats
  ClickIds    = {e1, e2}
  Visits      <- VisitorKinds
  Times       = {1, 2, 3, 4, 5, 6}
  DaysAsked   = {0, 9}
  DefaultDays = 1
  MaxDays     = 2
  TopN        = 2
  FirstHalf   = 4
  MaxHalves   = 2
  \* HttpAnswer
  Attempts = 2
  MaxCalls = 3
  \* HealthProbe
  ProbeTimeout = 15
  RedisTimeout = 1
  CheckLimit   = 20
  MaxTurns     = 2
  \* Codecs
  Radix        = 3
  Word         = 32
  MaxText      = 5
  ByteSize     = 2
  Radixes      <- Bases
  NumberTexts  <- Numbers
  NonPublic    <- Ranges
  TagTexts     <- Tags
  MaxTags      = 2
  MaxTagLength = 3
INVARIANTS
  RateInv SnapInv AuthInv GateInv PagingInv ScanInv StatsInv AnswerInv ProbeInv CodecInv
PROPERTY
  SnapSteps
CHECK_DEADLOCK FALSE
