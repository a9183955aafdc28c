\* Two tokens: money of one intent must never pay another.  Fairness of the
\* ledger and of whoever is owed the money.  The test double in lockstep.
CONSTANTS
  sme = sme  sup = sup  esc = esc  o1 = o1  xlm = xlm  usdc = usdc  h = h
  Accounts = {sme, sup}
  Contract = esc
  Oracles = {o1}
  Tokens = {xlm, usdc}
  Amounts <- MCAmounts
  Hashes = {h}
  Deadlines = {1}
  InitialBalance = 1
  Unsteady <- MCUnsteady
  MaxIntents = 2
  MaxTime = 1
SPECIFICATION FairLockstepSpec
INVARIANTS EscrowTypeOK Solvent OutcomeJustified FundsRecoverable MockAgrees AnswersAgree
PROPERTIES WriteOnce ImplementsSettlement EveryIntentSettles
