\* Start-up and webhooks: two threads, another process, a crash anywhere.
CONSTANTS
  t1 = t1  t2 = t2  cli = cli  hook = hook  u1 = u1  null = null
  r1 = r1  r2 = r2  fixture = fixture
  Openers = {t1, t2, cli}
  Threads = {t1, t2}
  Rows = {r1, r2}
  Old = {r1}
  Fixture = fixture
  Urls = {u1}
  ConfigUrls <- MCConfigUrls
  None = null
  ATTEMPTS = 3
  Scenarios <- MCScenarios
SPECIFICATION ServerSpec
INVARIANTS ServerTypeOK RowsKept OpenIsUpToDate DeliveryComplete
PROPERTIES EveryRequestAnswered
