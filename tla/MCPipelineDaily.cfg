\* Three invoices of 2 under a daily cap of 3, two proposals at a time.
CONSTANTS
  h1 = h1  h2 = h2  h3 = h3  p1 = p1  p2 = p2  api = api  null = null  inf = inf
  Proposers = {p1, p2}
  Connections = {p1, p2}
  Conn <- OwnConnection
  Hashes = {h1, h2, h3}
  Readings <- DailyReadings
  Configs <- DailyConfigs
  CapPerTx = 2
  CapDaily = 3
  Numbers <- MCNumbers
  Parts = 2
  Ulp <- MCUlp
  Infinite = inf
  NoAmount = null
  MaxIds = 3
  MaxDays = 1
SPECIFICATION PipelineSpec
SYMMETRY DailySymmetry
INVARIANTS DailyOverrunBounded
