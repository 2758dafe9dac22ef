SPECIFICATION ServerStateSpec
CONSTANTS
  c1 = c1
  c2 = c2
  s1 = s1
  s2 = s2
  s3 = s3
  t1 = t1
  t2 = t2
  Nobody = nobody
  Client <- Clients
  Session <- Sessions
  Tunnel <- Tunnels
  MaxStreams = 2
  Users = {u1}
  Sizes = {1, 2}
  Limits <- SomeLimits
  Globals <- SomeGlobals
  MaxTicks = 2
  MaxSteps = 2
  Absent = absent
  Requests <- SomeRequests
  Responses <- Honest
  TTLs = {0, 1}
  MaxSize = 2
  MaxFetching = 2
  MaxTime = 2
  Peers = {p1}
  Amounts = {1}
  Minutes = 2
  Retention = 1
  MaxCarried = 2
  Keys <- SomeKeys
  Rows <- SomeRows
  NoRow = norow
  NotOpen = notopen
  Missing = missing
  Fields <- SomeFields
  Setting = {1, 2}
  Base <- Defaults
  Given <- PartlyGiven
  MaxChanges = 2
  BufferSize = 2
  MaxBuffered = 3
  MaxFileSize = 1
  MaxFiles = 2
  MaxEntries = 5
  MaxFailures = 2
  UserNames = {"root", "other"}
  WebUser = "root"
  LoginIps = {"ip1", "ip2"}
  LoginFailures = 2
  LoginWindow = 2
  LoginLock = 2
  LoginRecords = 1
  EnabledValues = {"true", "false"}
  MaxVersion = 1
  LastMoment = 2
  Passwords = {"config", "n1", "p1", "p2"}
  ConfigPassword = "config"
  NodeIds = {"n1"}
  RouteTags = {"t1"}
  MaxCreated = 2
  RuleSet <- SomeRules
  DomainRuleSet <- SomeDomainRules
  Accesses <- SomeAccesses
  Names = {1, 2}
  NodeTags = {"vip"}
  AddressBits = 2
  VerdictTTL = 2
  HourLength = 2
  MaxAdded = 2
  LastTick = 3
INVARIANTS ServerStateTypeOK RegistrationsSound WithinLimit ServedRight Durable Authority
PROPERTIES StaleCloseHarmless RestartRestores AdminRemains
SYMMETRY Symmetry
CHECK_DEADLOCK FALSE
