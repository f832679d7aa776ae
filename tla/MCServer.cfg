SPECIFICATION ServerSpec
CONSTANTS
  Rank <- MCRank
  VersionLen = 3
  RangeEvents <- MCRangeEvents
  Unset = Unset
  Runs = {"r1", "r2"}
  Program <- MCProgram
  Hosts = {"h1"}
  Conditions = {"clean", "flawed", "attacked"}
  Host <- MCHost
  Overrides <- MCOverrides
  Reported = {"CIS"}
  Osv <- MCOsv
  Nvd <- MCNvd
  EpssLines <- MCEpssLines
  Kev = {"CVE-C"}
  Invocations <- MCInvocations
  MaxDecisions = 1
  TlsFiles <- MCTlsFiles
  TrustFiles <- MCTrustFiles
  Contents <- MCContents
  Loaders = {"t1", "t2"}
  Clients <- MCClients
  MaxWrites = 2
  MaxLoads = 2
  Missing = Missing
  Oversized = Oversized
  Bad = Bad
  Err = Err
  Nothing = Nothing
  Releases <- MCReleases
  TrustedKeys = {"feed"}
  MaxEntries = 4
  PlainNames = {"osv", "nvd", "epss", "kev"}
  Tokens <- MCTokens
  Issuer = "iss"
  i1 = i1
  i2 = i2
  Installers = {i1, i2}
  MaxPublished = 1
  MaxInstalls = 3
  MaxStoreFaults = 1
  Garbled = Garbled
  Empty = Empty
  Base = 3
  MaxFrame = 5
  Payloads <- MCPayloads
  Noise <- MCNoise
  MaxSends = 3
SYMMETRY MCSymmetry
INVARIANTS
  VersionsOrdered
  StoreKept
  RiskRanked
  TrustKept
  FeedKept
  StreamWhole
PROPERTIES
  HistoryKept
CHECK_DEADLOCK FALSE
