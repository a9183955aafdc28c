\* Two proposing processes over one database.
CONSTANTS
  h1 = h1  h2 = h2  h3 = h3  p1 = p1  p2 = p2  api = api  null = null  inf = inf
  Proposers = {p1, p2}
  Connections = {p1, p2}
  Conn <- OwnConnection
  Hashes = {h1, h2, h3}
  Readings <- MCReadings
  Configs <- MCConfigs
  CapPerTx = 2
  CapDaily = 3
  Numbers <- MCNumbers
  Parts = 2
  Ulp <- MCUlp
  Infinite = inf
  NoAmount = null
  MaxIds = 2
  MaxDays = 0
SPECIFICATION PipelineSpec
SYMMETRY Symmetry
INVARIANTS PipelineTypeOK OneIntentPerRequest Audited AnswerStored PublishedIsCommitted OnlyCleanIntents PaysWhatIsDue
