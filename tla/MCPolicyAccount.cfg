\* A signed request may wait while the policy under it changes.
CONSTANTS
  acct = acct  sup = sup  esc = esc  o1 = o1  usdc = usdc  h = h
  owner = owner  key = key  none = none
  Accounts = {acct, sup}
  Contract = esc
  Oracles = {o1}
  Tokens = {usdc}
  Amounts = {1, 2}
  Hashes = {h}
  Deadlines = {1}
  InitialBalance = 2
  Unsteady = {}
  MaxIntents = 2
  MaxTime = 1
  Self = acct
  Keys = {owner, key}
  Owner = owner
  Caps = {1, 2}
  NoEscrow = none
  Signable <- MCSignable
  MaxCalls = 2
  MaxSigned = 1
SPECIFICATION AccountSpec
INVARIANTS AccountTypeOK Contained
PROPERTIES SpendsWithinPolicy
