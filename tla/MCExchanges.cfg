SPECIFICATION ExchangesSpec
CONSTANTS
  Dialogues <- SomeDialogues
  MaxTail = 2
  MaxChunks = 2
  IdleTimeout = TRUE
  Association = {a1, a2}
  Source = {p1}
  Destination = {d1}
  Relays = {k1}
  None = none
  MaxDatagrams = 2
  MaxSockets = 2
  MaxAnswers = 1
  MaxPending = 1
  Calls = {r1, r2}
  Caps = {1, 2}
  FirstCap = 2
  NodeCap = 1
  MaxPushes = 2
  n1 = n1
  n2 = n2
  Here = here
  TestNodes <- SomeNodes
  Orders <- SomeOrders
  Targets = 2
  MaxDeaths = 1
  Count = 3
  MaxHops = 5
  Distance = 3
  Redirects = 2
  Limit = 2
  RecordTypes = 3
  Versions = {1, 2, 3}
  Offers <- SomeOffers
INVARIANTS ExchangesTypeOK CleanRelays BooksAgree ReportsTrue
PROPERTIES RelaysEnd JobsEnd
CHECK_DEADLOCK FALSE
