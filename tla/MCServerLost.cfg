\* One thread: a registration answered with 200 against the docs.
CONSTANTS
  t1 = t1  t2 = t2  cli = cli  hook = hook  u1 = u1  null = null
  r1 = r1  r2 = r2  fixture = fixture
  Openers = {t1}
  Threads = {t1}
  Rows = {r1, r2}
  Old = {r1}
  Fixture = fixture
  Urls = {u1}
  ConfigUrls <- MCConfigUrls
  None = null
  ATTEMPTS = 3
  Scenarios <- MCOneServer
SPECIFICATION ServerSpec
PROPERTIES RegisteredIsNotified
