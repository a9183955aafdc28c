\* Three processes, either client, errors that may hide a landing.  A refund
\* is possible at once: what the deadline forbids for a while need not happen.
CONSTANTS
  sme = sme  sup = sup  esc = esc  o1 = o1  s1 = s1  s2 = s2  usdc = usdc  j1 = j1
  p1 = p1  p2 = p2  p3 = p3  null = null
  Accounts = {sme, sup}
  Contract = esc
  Oracles = {o1}
  Tokens = {usdc}
  Amounts = {1}
  Hashes = {j1}
  Deadlines = {0}
  InitialBalance = 2
  Unsteady = {}
  MaxIntents = 2
  MaxTime = 0
  Procs = {p1, p2, p3}
  Jobs = {j1}
  Terms <- MCTerms
  Sme = sme
  Signers = {s1, s2}
  Local = TRUE
  K = 2
  Clients = {"smart_account", "cli"}
  Lossy = TRUE
  NoId = null
  MaxSent = 2
SPECIFICATION FlowSpec
SYMMETRY FlowSymmetry
INVARIANTS FlowTypeOK OneEscrowUnlessMisled ProposedIsClean EscrowIsTraceable RecordedFirst LocalBehindChain PayoutBacked PaidOnQuorum
PROPERTIES ChainIdWrittenOnce
