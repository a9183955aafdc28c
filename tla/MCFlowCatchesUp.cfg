\* sync is run again and again.
CONSTANTS
  sme = sme  sup = sup  esc = esc  o1 = o1   usdc = usdc  j1 = j1
  p1 = p1  p2 = p2  p3 = p3  null = null
  Accounts = {sme, sup}
  Contract = esc
  Oracles = {o1}
  Tokens = {usdc}
  Amounts = {1}
  Hashes = {j1}
  Deadlines = {1}
  InitialBalance = 2
  Unsteady = {}
  MaxIntents = 1
  MaxTime = 1
  Procs = {p1, p2}
  Jobs = {j1}
  Terms <- MCTerms
  Sme = sme
  Signers = {o1}
  Local = TRUE
  K = 1
  Clients = {"smart_account"}
  Lossy = TRUE
  NoId = null
  MaxSent = 1
SPECIFICATION FairFlowSpec
PROPERTIES LocalCatchesUp
