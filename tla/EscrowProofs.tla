---------------------------- MODULE EscrowProofs ----------------------------
(***************************************************************************)
(* The escrow contract is correct for every set of accounts, oracles,      *)
(* tokens, amounts and deadlines.                                          *)
(***************************************************************************)
EXTENDS Escrow, PrefixSumProofs

(* What the funds a token owes are summed over.                            *)
Shares(token) == [id \in 1..counter |-> Locked(id, token)]

LEMMA SharesType ==
  ASSUME EscrowTypeOK, NEW token \in Tokens
  PROVE  /\ counter \in Nat
         /\ Shares(token) \in [1..counter -> Nat]
         /\ Owed(token) = SumTo(Shares(token), counter)
         /\ Owed(token) \in Nat
<1>1. counter \in Nat /\ Shares(token) \in [1..counter -> Nat]
  BY EscrowAssumption DEF EscrowTypeOK, Intent, Shares, Locked
<1>2. Owed(token) = SumTo(Shares(token), counter)
  BY DEF Owed, Shares
<1> QED
  BY <1>1, <1>2, SumToNat

(* No single Funded intent is over more than the contract owes in all.     *)
LEMMA FundedAtMostOwed ==
  ASSUME EscrowTypeOK, NEW id \in 1..counter, intents[id].status = "Funded"
  PROVE  /\ intents[id].token \in Tokens
         /\ intents[id].amount \in Nat
         /\ intents[id].amount <= Owed(intents[id].token)
<1>1. intents[id].token \in Tokens /\ intents[id].amount \in Nat
  BY DEF EscrowTypeOK, Intent
<1> DEFINE w == Shares(intents[id].token)
<1>2. w[id] = intents[id].amount
  BY DEF Shares, Locked
<1>3. w[id] <= SumTo(w, counter)
  <2> counter \in 0..counter
    BY <1>1, SharesType
  <2> QED
    BY <1>1, SharesType, SumToNat
<1> QED
  BY <1>1, <1>2, <1>3, SharesType

(* A transfer the token accepts moves the amount and nothing else.         *)
LEMMA TransferMoves ==
  ASSUME EscrowTypeOK, NEW token \in Tokens,
         NEW from \in Holders, NEW to \in Holders, from # to,
         NEW amount \in Int, CanTransfer(token, from, to, amount)
  PROVE  LET b == Transferred(token, from, to, amount) IN
         /\ b \in [Tokens -> [Holders -> Nat]]
         /\ b[token][from] = balance[token][from] - amount
         /\ b[token][to] = balance[token][to] + amount
         /\ \A t \in Tokens, h \in Holders :
              t # token \/ h \notin {from, to} => b[t][h] = balance[t][h]
<1> DEFINE b == Transferred(token, from, to, amount)
<1>1. balance[token] \in [Holders -> Nat] /\ amount \in Nat
  BY DEF EscrowTypeOK, CanTransfer
<1> DEFINE row == [balance[token] EXCEPT ![from] = @ - amount, ![to] = @ + amount]
<1>2. b = [balance EXCEPT ![token] = row]
  BY DEF Transferred, EscrowTypeOK
<1>3. /\ row[from] = balance[token][from] - amount
      /\ row[to] = balance[token][to] + amount
      /\ row \in [Holders -> Nat]
      /\ \A h \in Holders \ {from, to} : row[h] = balance[token][h]
  BY <1>1 DEF CanTransfer
<1> HIDE DEF row
<1> QED
  BY <1>2, <1>3 DEF EscrowTypeOK

-----------------------------------------------------------------------------
(***************************************************************************)
(* Type correctness: every call and every environment step preserves it.   *)
(***************************************************************************)

LEMMA DeployedTyped ==
  ASSUME NEW registered \in SUBSET Oracles, Deployed(registered)
  PROVE  EscrowTypeOK
<1>1. counter \in 0..MaxIntents /\ now \in 0..MaxTime /\ oracles \subseteq Oracles
  BY EscrowAssumption DEF Deployed
<1>2. intents \in [1..counter -> Intent]
  BY DEF Deployed
<1>3. balance \in [Tokens -> [Holders -> Nat]]
  BY EscrowAssumption DEF Deployed
<1>4. lines \subseteq Tokens \X Holders
  BY DEF Deployed
<1> QED
  BY <1>1, <1>2, <1>3, <1>4 DEF EscrowTypeOK

LEMMA InitTyped == EscrowInit => EscrowTypeOK
BY DeployedTyped DEF EscrowInit

LEMMA CreateTyped ==
  ASSUME EscrowTypeOK,
         NEW sme \in Accounts, NEW supplier \in Accounts, NEW token \in Tokens,
         NEW amount \in Amounts, NEW request_hash \in Hashes,
         NEW deadline \in Deadlines,
         create_intent(sme, supplier, token, amount, request_hash, deadline)
  PROVE  EscrowTypeOK'
<1> USE DEF create_intent
<1>1. counter' = counter + 1 /\ counter' \in 0..MaxIntents
  BY EscrowAssumption DEF EscrowTypeOK
<1>2. amount \in Amounts \cap Nat
  BY EscrowAssumption DEF CanTransfer
<1>3. intents' \in [1..counter' -> Intent]
  <2> DEFINE new == [sme |-> sme, supplier |-> supplier, token |-> token,
                     amount |-> amount, request_hash |-> request_hash,
                     deadline |-> deadline, status |-> "Funded",
                     attestation |-> "None"]
  <2>1. new \in Intent
    BY <1>2 DEF Intent, Status, Attestation
  <2>2. intents' = [id \in 1..counter + 1 |->
                      IF id \in 1..counter THEN intents[id] ELSE new]
    OBVIOUS
  <2> HIDE DEF new
  <2> QED
    BY <1>1, <2>1, <2>2 DEF EscrowTypeOK
<1>4. balance' \in [Tokens -> [Holders -> Nat]]
  <2>1. sme \in Holders /\ Contract \in Holders /\ sme # Contract /\ amount \in Int
    BY EscrowAssumption DEF Holders
  <2> QED
    BY <2>1, TransferMoves
<1> QED
  BY <1>1, <1>3, <1>4 DEF EscrowTypeOK

(* The payment leg shared by release and refund.                           *)
LEMMA PayoutMoves ==
  ASSUME EscrowTypeOK, NEW id \in 1..counter, NEW to \in Accounts,
         CanTransfer(intents[id].token, Contract, to, intents[id].amount)
  PROVE  LET token == intents[id].token
             b == Transferred(token, Contract, to, intents[id].amount)
         IN  /\ token \in Tokens /\ intents[id].amount \in Nat
             /\ b \in [Tokens -> [Holders -> Nat]]
             /\ b[token][Contract] = balance[token][Contract] - intents[id].amount
             /\ b[token][to] = balance[token][to] + intents[id].amount
             /\ \A t \in Tokens, h \in Holders :
                  t # token \/ h \notin {Contract, to} => b[t][h] = balance[t][h]
<1>1. intents[id].token \in Tokens /\ intents[id].amount \in Nat
  BY DEF EscrowTypeOK, Intent
<1>2. to \in Holders /\ Contract \in Holders /\ to # Contract
  BY EscrowAssumption DEF Holders
<1> QED
  BY <1>1, <1>2, TransferMoves

LEMMA IntentStepTyped ==
  ASSUME EscrowTypeOK, NEW id \in 1..counter,
         \/ \E o \in Oracles, kind \in AttestKind : attest(id, o, kind)
         \/ release(id)
         \/ refund(id)
  PROVE  EscrowTypeOK'
<1>1. ASSUME NEW o \in Oracles, NEW kind \in AttestKind, attest(id, o, kind)
      PROVE  EscrowTypeOK'
  <2>1. [intents[id] EXCEPT !.attestation = kind] \in Intent
    BY DEF EscrowTypeOK, Intent, Attestation
  <2> QED
    BY <1>1, <2>1 DEF attest, EscrowTypeOK
<1>2. ASSUME NEW to \in Accounts, NEW status \in Status,
             CanTransfer(intents[id].token, Contract, to, intents[id].amount),
             balance' = Transferred(intents[id].token, Contract, to,
                                    intents[id].amount),
             intents' = [intents EXCEPT ![id].status = status],
             UNCHANGED <<counter, oracles, lines, now>>
      PROVE  EscrowTypeOK'
  <2>1. [intents[id] EXCEPT !.status = status] \in Intent
    BY DEF EscrowTypeOK, Intent
  <2>2. intents' \in [1..counter -> Intent]
    BY <1>2, <2>1 DEF EscrowTypeOK
  <2>3. balance' \in [Tokens -> [Holders -> Nat]]
    BY <1>2, PayoutMoves
  <2> QED
    BY <1>2, <2>2, <2>3 DEF EscrowTypeOK
<1>3. intents[id].sme \in Accounts /\ intents[id].supplier \in Accounts
  BY DEF EscrowTypeOK, Intent
<1>4. CASE release(id)
  BY <1>2, <1>3, <1>4 DEF release, Releasable, Status
<1>5. CASE refund(id)
  BY <1>2, <1>3, <1>5 DEF refund, Refundable, Status
<1> QED
  BY <1>1, <1>4, <1>5

LEMMA StrayTyped ==
  ASSUME EscrowTypeOK, NEW token \in Tokens, NEW from \in Accounts,
         NEW amount \in Amounts, StrayTransfer(token, from, amount)
  PROVE  EscrowTypeOK'
<1>1. from \in Holders /\ Contract \in Holders /\ from # Contract /\ amount \in Int
  BY EscrowAssumption DEF Holders
<1>2. balance' \in [Tokens -> [Holders -> Nat]]
  BY <1>1, TransferMoves DEF StrayTransfer
<1> QED
  BY <1>2 DEF StrayTransfer, EscrowTypeOK

LEMMA NextTyped == EscrowTypeOK /\ [EscrowNext]_escrowVars => EscrowTypeOK'
<1> SUFFICES ASSUME EscrowTypeOK, [EscrowNext]_escrowVars
             PROVE  EscrowTypeOK'
  OBVIOUS
<1>1. CASE Create
  BY <1>1, CreateTyped DEF Create
<1>2. CASE \E id \in 1..counter :
             \/ \E o \in Oracles, kind \in AttestKind : attest(id, o, kind)
             \/ release(id)
             \/ refund(id)
  BY <1>2, IntentStepTyped
<1>3. CASE \E o \in Oracles : add_oracle(o) \/ remove_oracle(o)
  BY <1>3 DEF add_oracle, remove_oracle, EscrowTypeOK
<1>4. CASE \E token \in Tokens, from \in Accounts, amount \in Amounts :
             StrayTransfer(token, from, amount)
  BY <1>4, StrayTyped
<1>5. CASE Ledger
  BY <1>5, EscrowAssumption DEF Ledger, Tick, ChangeLine, EscrowTypeOK
<1>6. CASE UNCHANGED escrowVars
  BY <1>6 DEF escrowVars, EscrowTypeOK
<1> QED
  BY <1>1, <1>2, <1>3, <1>4, <1>5, <1>6 DEF EscrowNext

(* The contract's storage and the token balances stay well formed: ids are *)
(* dense, no balance is ever negative.                                     *)
THEOREM EscrowTyped == EscrowSpec => []EscrowTypeOK
BY InitTyped, NextTyped, PTL DEF EscrowSpec

-----------------------------------------------------------------------------
(***************************************************************************)
(* Solvency.  The inductive invariant is type correctness with Solvent:    *)
(* each step changes the vault and what is owed by the same amount.        *)
(***************************************************************************)

LEMMA DeployedSolvent ==
  ASSUME NEW registered, Deployed(registered)
  PROVE  Solvent
<1> SUFFICES ASSUME NEW t \in Tokens PROVE Owed(t) <= balance[t][Contract]
  BY DEF Solvent
<1>1. Owed(t) = 0
  BY SumToRecurrence DEF Deployed, Owed
<1>2. balance[t][Contract] = 0
  BY DEF Deployed, Holders
<1> QED
  BY <1>1, <1>2

LEMMA InitSolvent == EscrowInit => Solvent
BY DeployedSolvent DEF EscrowInit

(* What is owed depends on what each intent locks, and on nothing else.    *)
LEMMA OwedUnchanged ==
  ASSUME EscrowTypeOK, EscrowTypeOK', NEW t \in Tokens, counter' = counter,
         \A id \in 1..counter : Locked(id, t)' = Locked(id, t)
  PROVE  Owed(t)' = Owed(t)
<1>1. [id \in 1..counter' |-> Locked(id, t)'] = [id \in 1..counter |-> Locked(id, t)]
  OBVIOUS
<1> QED
  BY <1>1, Zenon DEF Owed

(* Settling an intent is no longer owing it.                               *)
LEMMA OwedAfterSettling ==
  ASSUME EscrowTypeOK, EscrowTypeOK', NEW t \in Tokens, NEW id \in 1..counter,
         NEW status \in Status \ {"Funded"}, counter' = counter,
         intents' = [intents EXCEPT ![id].status = status]
  PROVE  Owed(t)' = Owed(t) - Locked(id, t)
<1> DEFINE w == Shares(t)
           v == [i \in 1..counter |-> Locked(i, t)']
<1>1. counter \in Nat /\ w \in [1..counter -> Nat] /\ Owed(t) = SumTo(w, counter)
      /\ Owed(t) \in Nat
  BY SharesType
<1>2. Owed(t)' = SumTo(v, counter)
  BY DEF Owed
<1>3. \A i \in 1..counter : v[i] = IF i = id THEN 0 ELSE w[i]
  <2>1. intents'[id].status = status
    BY DEF EscrowTypeOK
  <2>2. \A i \in 1..counter : i # id => intents'[i] = intents[i]
    BY DEF EscrowTypeOK
  <2> QED
    BY <2>1, <2>2 DEF Locked, Shares
<1>4. v \in [1..counter -> Nat] /\ v[id] = 0
  BY <1>1, <1>3
<1>5. SumTo(v, counter) = (SumTo(w, counter) - w[id]) + v[id]
  <2> HIDE DEF v, w
  <2>1. \A i \in 1..counter : i # id => v[i] = w[i]
    BY <1>3, Zenon
  <2> QED
    BY <1>1, <1>4, <2>1, SumToChange, Zenon
<1>6. w[id] = Locked(id, t) /\ w[id] \in Nat
  BY <1>1 DEF Shares
<1> QED
  BY <1>1, <1>2, <1>4, <1>5, <1>6

(* A new intent adds its amount to what its token owes.                    *)
LEMMA OwedAfterCreating ==
  ASSUME EscrowTypeOK, NEW t \in Tokens,
         NEW sme, NEW supplier, NEW token, NEW amount \in Int,
         NEW request_hash, NEW deadline,
         create_intent(sme, supplier, token, amount, request_hash, deadline)
  PROVE  Owed(t)' = Owed(t) + (IF t = token THEN amount ELSE 0)
<1> DEFINE w == Shares(t)
           v == [i \in 1..counter + 1 |-> Locked(i, t)']
<1>1. counter \in Nat /\ Owed(t) = SumTo(w, counter) /\ counter' = counter + 1
  BY SharesType DEF create_intent
<1>2. Owed(t)' = SumTo(v, counter + 1)
  BY <1>1 DEF Owed
<1>3. \A i \in 1..counter : intents'[i] = intents[i]
  BY <1>1 DEF create_intent
<1>4. \A i \in 1..counter : v[i] = w[i]
  BY <1>1, <1>3 DEF Locked, Shares
<1>5. v[counter + 1] = IF t = token THEN amount ELSE 0
  <2>1. counter + 1 \in 1..counter + 1 /\ counter + 1 \notin 1..counter
    BY <1>1
  <2>2. /\ intents'[counter + 1].status = "Funded"
        /\ intents'[counter + 1].token = token
        /\ intents'[counter + 1].amount = amount
    BY <2>1 DEF create_intent
  <2> QED
    BY <2>1, <2>2 DEF Locked
<1> HIDE DEF v, w
<1>6. SumTo(v, counter + 1) = SumTo(v, counter) + v[counter + 1]
  BY <1>1, SumToRecurrence
<1>7. SumTo(v, counter) = SumTo(w, counter)
  BY <1>1, <1>4, SumToSame
<1> QED
  BY <1>1, <1>2, <1>5, <1>6, <1>7

LEMMA NextSolvent ==
  ASSUME EscrowTypeOK, EscrowTypeOK', Solvent, [EscrowNext]_escrowVars
  PROVE  Solvent'
<1> SUFFICES ASSUME NEW t \in Tokens
             PROVE  Owed(t)' <= balance'[t][Contract]
  BY DEF Solvent
<1>0. /\ Owed(t) <= balance[t][Contract]
      /\ Owed(t) \in Nat /\ balance[t][Contract] \in Nat
  BY SharesType DEF Solvent, EscrowTypeOK, Holders
<1>1. CASE Create
  <2>1. PICK sme \in Accounts, supplier \in Accounts, token \in Tokens,
             amount \in Amounts, request_hash \in Hashes, deadline \in Deadlines :
               create_intent(sme, supplier, token, amount, request_hash, deadline)
    BY <1>1 DEF Create
  <2>2. amount \in Int /\ sme \in Holders /\ Contract \in Holders /\ sme # Contract
    BY EscrowAssumption DEF Holders
  <2>3. Owed(t)' = Owed(t) + (IF t = token THEN amount ELSE 0)
    BY <2>1, <2>2, OwedAfterCreating
  <2>4. balance'[t][Contract] =
          IF t = token THEN balance[t][Contract] + amount ELSE balance[t][Contract]
    BY <2>1, <2>2, TransferMoves DEF create_intent
  <2> QED
    BY <1>0, <2>2, <2>3, <2>4
<1>2. ASSUME NEW id \in 1..counter, NEW o, NEW kind, attest(id, o, kind)
      PROVE  Owed(t)' <= balance'[t][Contract]
  <2>1. \A i \in 1..counter : Locked(i, t)' = Locked(i, t)
    BY <1>2 DEF attest, Locked, EscrowTypeOK
  <2>2. Owed(t)' = Owed(t)
    BY <1>2, <2>1, OwedUnchanged DEF attest
  <2> QED
    BY <1>0, <1>2, <2>2 DEF attest
<1>3. ASSUME NEW id \in 1..counter, NEW to \in Accounts,
             NEW status \in Status \ {"Funded"},
             intents[id].status = "Funded",
             CanTransfer(intents[id].token, Contract, to, intents[id].amount),
             balance' = Transferred(intents[id].token, Contract, to,
                                    intents[id].amount),
             intents' = [intents EXCEPT ![id].status = status],
             counter' = counter
      PROVE  Owed(t)' <= balance'[t][Contract]
  <2>1. Owed(t)' = Owed(t) - Locked(id, t)
    BY <1>3, OwedAfterSettling
  <2>2. /\ intents[id].amount \in Nat
        /\ balance'[t][Contract] =
             IF t = intents[id].token THEN balance[t][Contract] - intents[id].amount
                                      ELSE balance[t][Contract]
    BY <1>3, PayoutMoves DEF Holders
  <2>3. Locked(id, t) = IF t = intents[id].token THEN intents[id].amount ELSE 0
    BY <1>3 DEF Locked
  <2> QED
    BY <1>0, <2>1, <2>2, <2>3
<1>4. ASSUME NEW id \in 1..counter, release(id) \/ refund(id)
      PROVE  Owed(t)' <= balance'[t][Contract]
  <2>1. intents[id].sme \in Accounts /\ intents[id].supplier \in Accounts
    BY DEF EscrowTypeOK, Intent
  <2>2. "Released" \in Status \ {"Funded"} /\ "Refunded" \in Status \ {"Funded"}
    BY DEF Status
  <2>3. CASE release(id)
    BY <1>3, <2>1, <2>2, <2>3 DEF release, Releasable
  <2>4. CASE refund(id)
    BY <1>3, <2>1, <2>2, <2>4 DEF refund, Refundable
  <2> QED
    BY <1>4, <2>3, <2>4
<1>5. CASE \E token \in Tokens, from \in Accounts, amount \in Amounts :
             StrayTransfer(token, from, amount)
  <2>1. PICK token \in Tokens, from \in Accounts, amount \in Amounts :
               StrayTransfer(token, from, amount)
    BY <1>5
  <2>2. amount \in Int /\ from \in Holders /\ Contract \in Holders /\ from # Contract
    BY EscrowAssumption DEF Holders
  <2>3. balance'[t][Contract] =
          IF t = token THEN balance[t][Contract] + amount ELSE balance[t][Contract]
    BY <2>1, <2>2, TransferMoves DEF StrayTransfer
  <2>4. Owed(t)' = Owed(t)
    BY <2>1, OwedUnchanged DEF StrayTransfer, Locked
  <2>5. amount >= 0
    BY <2>1 DEF StrayTransfer, CanTransfer
  <2> QED
    BY <1>0, <2>2, <2>3, <2>4, <2>5
<1>6. CASE UNCHANGED <<counter, intents, balance>>
  <2>1. Owed(t)' = Owed(t)
    BY <1>6, OwedUnchanged DEF Locked
  <2> QED
    BY <1>0, <1>6, <2>1
<1>7. (\E o \in Oracles : add_oracle(o) \/ remove_oracle(o)) \/ Ledger
      \/ UNCHANGED escrowVars
        => UNCHANGED <<counter, intents, balance>>
  BY DEF add_oracle, remove_oracle, Ledger, Tick, ChangeLine, escrowVars
<1> QED
  BY <1>1, <1>2, <1>4, <1>5, <1>6, <1>7 DEF EscrowNext

(* Vault solvency: in every token the contract can always pay every Funded *)
(* intent in full, whatever strays it also received.                       *)
THEOREM EscrowSolvent == EscrowSpec => []Solvent
<1>1. EscrowInit => EscrowTypeOK /\ Solvent
  BY InitTyped, InitSolvent
<1>2. (EscrowTypeOK /\ Solvent) /\ [EscrowNext]_escrowVars
        => (EscrowTypeOK /\ Solvent)'
  BY NextTyped, NextSolvent
<1> QED
  BY <1>1, <1>2, PTL DEF EscrowSpec

(* A contract that can pay what it owes can settle every intent the asset  *)
(* contract lets through, and what it does not let through nobody settles. *)
LEMMA SolventRecoverable ==
  ASSUME EscrowTypeOK, Solvent
  PROVE  FundsRecoverable
<1> SUFFICES ASSUME NEW id \in 1..counter, intents[id].status = "Funded",
                    intents[id].attestation # "None" \/ now >= intents[id].deadline
             PROVE  Releasable(id) \/ Refundable(id) <=> Deliverable(id)
  BY DEF FundsRecoverable
<1>1. /\ intents[id].token \in Tokens
      /\ intents[id].amount \in Nat
      /\ intents[id].amount <= Owed(intents[id].token)
      /\ Owed(intents[id].token) \in Nat
  BY FundedAtMostOwed, SharesType
<1>2. /\ Owed(intents[id].token) <= balance[intents[id].token][Contract]
      /\ balance[intents[id].token][Contract] \in Nat
  BY <1>1 DEF Solvent, EscrowTypeOK, Holders
<1>3. \A to : CanTransfer(intents[id].token, Contract, to, intents[id].amount)
               <=> LinesOpen(intents[id].token, Contract, to)
  BY <1>1, <1>2 DEF CanTransfer
<1>4. intents[id].attestation \in {"None", "Shipped", "Failed"}
  BY DEF EscrowTypeOK, Intent, Attestation, AttestKind
<1>5. CASE intents[id].attestation = "Shipped"
  BY <1>3, <1>5 DEF Releasable, Refundable, Deliverable, Beneficiary
<1>6. CASE intents[id].attestation # "Shipped"
  BY <1>3, <1>4, <1>6 DEF Releasable, Refundable, Deliverable, Beneficiary
<1> QED
  BY <1>5, <1>6

(* Only the asset contract can hold back a Funded intent that is attested  *)
(* or past its deadline: one call settles it, transfer included, exactly   *)
(* when the lines of the vault and of the one it is for are open.          *)
THEOREM EscrowFundsRecoverable == EscrowSpec => []FundsRecoverable
BY SolventRecoverable, EscrowTyped, EscrowSolvent, PTL

-----------------------------------------------------------------------------
(***************************************************************************)
(* Outcomes.                                                               *)
(***************************************************************************)

(* How a step may change an intent already in storage.                     *)
IntentStep(id) ==
  \/ intents'[id] = intents[id]
  \/ /\ intents[id].status = "Funded" /\ intents[id].attestation = "None"
     /\ \E kind \in AttestKind :
          intents'[id] = [intents[id] EXCEPT !.attestation = kind]
  \/ Releasable(id) /\ intents'[id] = [intents[id] EXCEPT !.status = "Released"]
  \/ Refundable(id) /\ intents'[id] = [intents[id] EXCEPT !.status = "Refunded"]

LEMMA IntentSteps ==
  ASSUME EscrowTypeOK, [EscrowNext]_escrowVars, NEW id \in 1..counter
  PROVE  IntentStep(id) /\ id \in 1..counter' /\ now' >= now
<1>0. counter \in Nat /\ now \in Nat
  BY EscrowAssumption DEF EscrowTypeOK
<1> DEFINE Goal == IntentStep(id) /\ id \in 1..counter' /\ now' >= now
<1>1. CASE Create
  BY <1>0, <1>1 DEF Create, create_intent, IntentStep
<1>2. ASSUME NEW i \in 1..counter, NEW o, NEW kind \in AttestKind, attest(i, o, kind)
      PROVE  Goal
  <2>1. CASE i = id
    BY <1>0, <1>2, <2>1 DEF attest, EscrowTypeOK, IntentStep
  <2>2. CASE i # id
    BY <1>0, <1>2, <2>2 DEF attest, EscrowTypeOK, IntentStep
  <2> QED
    BY <2>1, <2>2
<1>3. ASSUME NEW i \in 1..counter, release(i)
      PROVE  Goal
  <2>1. CASE i = id
    BY <1>0, <1>3, <2>1 DEF release, EscrowTypeOK, IntentStep
  <2>2. CASE i # id
    BY <1>0, <1>3, <2>2 DEF release, EscrowTypeOK, IntentStep
  <2> QED
    BY <2>1, <2>2
<1>4. ASSUME NEW i \in 1..counter, refund(i)
      PROVE  Goal
  <2>1. CASE i = id
    BY <1>0, <1>4, <2>1 DEF refund, EscrowTypeOK, IntentStep
  <2>2. CASE i # id
    BY <1>0, <1>4, <2>2 DEF refund, EscrowTypeOK, IntentStep
  <2> QED
    BY <2>1, <2>2
<1>5. CASE UNCHANGED <<counter, intents>> /\ now' \in {now, now + 1}
  BY <1>0, <1>5 DEF IntentStep
<1>6. ASSUME \/ \E o \in Oracles : add_oracle(o) \/ remove_oracle(o)
             \/ \E token \in Tokens, from \in Accounts, amount \in Amounts :
                  StrayTransfer(token, from, amount)
             \/ Ledger
             \/ UNCHANGED escrowVars
      PROVE  UNCHANGED <<counter, intents>> /\ now' \in {now, now + 1}
  BY <1>6 DEF add_oracle, remove_oracle, StrayTransfer, Ledger, Tick, ChangeLine,
              escrowVars
<1> HIDE DEF Goal
<1>7. Goal
  BY <1>1, <1>2, <1>3, <1>4, <1>5, <1>6 DEF EscrowNext, Goal
<1> QED
  BY <1>7 DEF Goal

LEMMA NextJustified ==
  ASSUME EscrowTypeOK, EscrowTypeOK', OutcomeJustified, [EscrowNext]_escrowVars
  PROVE  OutcomeJustified'
<1> DEFINE Justified(r, clock) ==
      /\ r.status = "Released" => r.attestation = "Shipped"
      /\ r.status = "Refunded" => \/ r.attestation = "Failed"
                                  \/ r.attestation = "None" /\ clock >= r.deadline
<1>1. ASSUME NEW id \in 1..counter PROVE Justified(intents'[id], now')
  <2>1. intents[id] \in Intent /\ now \in Nat /\ now' \in Nat
    BY <1>1, EscrowAssumption DEF EscrowTypeOK
  <2>2. intents[id].deadline \in Nat
    BY <2>1, EscrowAssumption DEF Intent
  <2>3. Justified(intents[id], now)
    BY <1>1 DEF OutcomeJustified
  <2>4. IntentStep(id) /\ now' >= now
    BY <1>1, IntentSteps
  <2>5. CASE intents'[id] = intents[id]
    BY <2>1, <2>2, <2>3, <2>4, <2>5
  <2>6. ASSUME NEW kind \in AttestKind, intents[id].status = "Funded",
               intents'[id] = [intents[id] EXCEPT !.attestation = kind]
        PROVE  Justified(intents'[id], now')
    BY <2>1, <2>6 DEF Intent
  <2>7. CASE /\ Releasable(id)
             /\ intents'[id] = [intents[id] EXCEPT !.status = "Released"]
    BY <2>1, <2>7 DEF Releasable, Intent
  <2>8. CASE /\ Refundable(id)
             /\ intents'[id] = [intents[id] EXCEPT !.status = "Refunded"]
    BY <2>1, <2>2, <2>4, <2>8 DEF Refundable, Intent
  <2> HIDE DEF Justified
  <2> QED
    BY <2>4, <2>5, <2>6, <2>7, <2>8 DEF IntentStep
<1>2. ASSUME NEW id \in 1..counter', id \notin 1..counter
      PROVE  intents'[id].status = "Funded"
  <2>1. counter' # counter
    BY <1>2
  <2>2. Create
    BY <2>1 DEF EscrowNext, attest, release, refund, add_oracle,
                remove_oracle, StrayTransfer, Ledger, Tick, ChangeLine, escrowVars
  <2> QED
    BY <1>2, <2>2 DEF Create, create_intent
<1> QED
  BY <1>1, <1>2 DEF OutcomeJustified

(* Released means shipped; refunded means failed, or never attested and    *)
(* past the deadline.                                                      *)
THEOREM EscrowOutcomeJustified == EscrowSpec => []OutcomeJustified
<1>1. EscrowInit => OutcomeJustified
  BY DEF EscrowInit, Deployed, OutcomeJustified
<1> QED
  BY <1>1, NextJustified, EscrowTyped, PTL DEF EscrowSpec

(* Terms never change, an attestation stands, a final status is final.     *)
THEOREM EscrowWriteOnce == EscrowSpec => WriteOnce
<1>1. ASSUME EscrowTypeOK, [EscrowNext]_escrowVars PROVE IntentWriteOnce
  <2> SUFFICES ASSUME NEW id \in 1..counter
               PROVE  /\ intents'[id] =
                           [intents[id] EXCEPT
                              !.status = intents'[id].status,
                              !.attestation = intents'[id].attestation]
                      /\ intents[id].attestation # "None" =>
                           intents'[id].attestation = intents[id].attestation
                      /\ intents[id].status # "Funded" => intents'[id] = intents[id]
    BY DEF IntentWriteOnce
  <2>1. intents[id] \in Intent
    BY <1>1 DEF EscrowTypeOK
  <2> QED
    BY <1>1, <2>1, IntentSteps DEF IntentStep, Releasable, Refundable, Intent
<1> QED
  BY <1>1, EscrowTyped, PTL DEF EscrowSpec, WriteOnce

-----------------------------------------------------------------------------
(***************************************************************************)
(* The refinement of Settlement.                                           *)
(***************************************************************************)

LEMMA DeployedSettlement ==
  ASSUME NEW registered, Deployed(registered)
  PROVE  Promise!SettlementInit
<1>1. DealsOf = << >>
  BY DEF Deployed, DealsOf
<1>2. WalletsOf \in [Tokens -> [Accounts -> Nat]]
  BY EscrowAssumption DEF Deployed, WalletsOf, Holders
<1> QED
  BY <1>1, <1>2 DEF Deployed, Promise!SettlementInit

LEMMA InitSettlement == EscrowInit => Promise!SettlementInit
BY DeployedSettlement DEF EscrowInit

(* A transfer between an account and the vault, seen from the wallets.     *)
LEMMA WalletsAfterTransfer ==
  ASSUME EscrowTypeOK, NEW token \in Tokens, NEW a \in Accounts, NEW amount \in Int
  PROVE  /\ CanTransfer(token, a, Contract, amount)
            /\ balance' = Transferred(token, a, Contract, amount)
              => WalletsOf' = Promise!Debited(token, a, amount)
         /\ CanTransfer(token, Contract, a, amount)
            /\ balance' = Transferred(token, Contract, a, amount)
              => WalletsOf' = Promise!Credited(token, a, amount)
<1>0. a \in Holders /\ Contract \in Holders /\ a # Contract
      /\ Accounts = Holders \ {Contract}
  BY EscrowAssumption DEF Holders
<1>1. WalletsOf \in [Tokens -> [Accounts -> Nat]]
      /\ \A t \in Tokens, h \in Accounts : WalletsOf[t][h] = balance[t][h]
  BY <1>0 DEF WalletsOf, EscrowTypeOK
<1>2. ASSUME NEW r, balance'[token][a] = r,
             \A t \in Tokens, h \in Holders :
               t # token \/ h \notin {a, Contract} => balance'[t][h] = balance[t][h]
      PROVE  WalletsOf' = [WalletsOf EXCEPT ![token][a] = r]
  <2> DEFINE row == [WalletsOf[token] EXCEPT ![a] = r]
  <2>1. [WalletsOf EXCEPT ![token][a] = r] = [WalletsOf EXCEPT ![token] = row]
    BY <1>1
  <2>2. row = [h \in Accounts |-> balance'[token][h]]
    BY <1>0, <1>1, <1>2
  <2> HIDE DEF row
  <2>3. \A t \in Tokens : t # token =>
          WalletsOf[t] = [h \in Accounts |-> balance'[t][h]]
    BY <1>0, <1>2 DEF WalletsOf
  <2>4. [WalletsOf EXCEPT ![token] = row]
          = [t \in Tokens |-> [h \in Accounts |-> balance'[t][h]]]
    BY <1>1, <2>2, <2>3
  <2> QED
    BY <2>1, <2>4 DEF WalletsOf
<1>3. ASSUME CanTransfer(token, a, Contract, amount),
             balance' = Transferred(token, a, Contract, amount)
      PROVE  WalletsOf' = Promise!Debited(token, a, amount)
  <2>1. /\ balance'[token][a] = balance[token][a] - amount
        /\ \A t \in Tokens, h \in Holders :
             t # token \/ h \notin {a, Contract} => balance'[t][h] = balance[t][h]
    BY <1>0, <1>3, TransferMoves
  <2>2. WalletsOf' = [WalletsOf EXCEPT ![token][a] = balance[token][a] - amount]
    BY <1>2, <2>1
  <2> QED
    BY <1>1, <2>2 DEF Promise!Debited
<1>4. ASSUME CanTransfer(token, Contract, a, amount),
             balance' = Transferred(token, Contract, a, amount)
      PROVE  WalletsOf' = Promise!Credited(token, a, amount)
  <2>1. /\ balance'[token][a] = balance[token][a] + amount
        /\ \A t \in Tokens, h \in Holders :
             t # token \/ h \notin {a, Contract} => balance'[t][h] = balance[t][h]
    BY <1>0, <1>4, TransferMoves
  <2>2. WalletsOf' = [WalletsOf EXCEPT ![token][a] = balance[token][a] + amount]
    BY <1>2, <2>1
  <2> QED
    BY <1>1, <2>2 DEF Promise!Credited
<1> QED
  BY <1>3, <1>4

LEMMA DealsType ==
  ASSUME EscrowTypeOK
  PROVE  \A id \in 1..counter : /\ intents[id] \in Intent
                                /\ DealsOf[id] = DealOf(intents[id])
BY DEF EscrowTypeOK, DealsOf

LEMMA CreateLocks ==
  ASSUME EscrowTypeOK,
         NEW sme \in Accounts, NEW supplier \in Accounts, NEW token \in Tokens,
         NEW amount \in Amounts, NEW request_hash \in Hashes,
         NEW deadline \in Deadlines,
         create_intent(sme, supplier, token, amount, request_hash, deadline)
  PROVE  Promise!Lock
<1> DEFINE d == [payer |-> sme, payee |-> supplier, currency |-> token,
                 sum |-> amount, evidence |-> "none", state |-> "locked"]
<1>1. counter \in Nat /\ counter' = counter + 1 /\ counter < MaxIntents
  BY DEF EscrowTypeOK, create_intent
<1>2. amount \in Int /\ amount \in Amounts \cap Nat
      /\ CanTransfer(token, sme, Contract, amount)
  BY EscrowAssumption DEF create_intent, CanTransfer
<1>3. d \in Promise!Deal
  BY <1>2 DEF Promise!Deal
<1>4. d.sum <= WalletsOf[d.currency][d.payer]
  BY <1>2 DEF CanTransfer, WalletsOf
<1>5. WalletsOf' = Promise!Debited(d.currency, d.payer, d.sum)
  BY <1>2, WalletsAfterTransfer DEF create_intent
<1>6. DealsOf' = [i \in 1..counter + 1 |-> IF i \in 1..counter THEN DealsOf[i] ELSE d]
  <2>1. ASSUME NEW i \in 1..counter PROVE DealOf(intents'[i]) = DealsOf[i]
    BY <1>1, <2>1, DealsType DEF create_intent
  <2>2. ASSUME NEW i \in 1..counter + 1, i \notin 1..counter
        PROVE  DealOf(intents'[i]) = d
    BY <1>1, <2>2 DEF create_intent, DealOf, EvidenceOf, StateOf
  <2>3. DealsOf' = [i \in 1..counter + 1 |-> DealOf(intents'[i])]
    BY <1>1 DEF DealsOf, DealOf, EvidenceOf, StateOf
  <2> HIDE DEF d
  <2> QED
    BY <2>1, <2>2, <2>3
<1>7. d.evidence = "none" /\ d.state = "locked"
  OBVIOUS
<1> HIDE DEF d
<1> QED
  BY <1>1, <1>3, <1>4, <1>5, <1>6, <1>7 DEF Promise!Lock

(* An intent that changes is a deal that changes the same way.             *)
LEMMA DealChanges ==
  ASSUME EscrowTypeOK, NEW id \in 1..counter, counter' = counter, NEW r,
         intents' = [intents EXCEPT ![id] = r]
  PROVE  DealsOf' = [DealsOf EXCEPT ![id] = DealOf(r)]
<1>1. \A i \in 1..counter : intents'[i] = IF i = id THEN r ELSE intents[i]
  BY DEF EscrowTypeOK
<1>2. DealsOf' = [i \in 1..counter |-> DealOf(intents'[i])]
  BY DEF DealsOf, DealOf, EvidenceOf, StateOf
<1>3. DealsOf = [i \in 1..counter |-> DealOf(intents[i])]
  BY DEF DealsOf
<1>4. ASSUME NEW i \in 1..counter
      PROVE  DealOf(intents'[i]) = IF i = id THEN DealOf(r) ELSE DealOf(intents[i])
  BY <1>1
<1> HIDE DEF DealOf
<1>5. [DealsOf EXCEPT ![id] = DealOf(r)]
        = [i \in 1..counter |-> IF i = id THEN DealOf(r) ELSE DealOf(intents[i])]
  BY <1>3
<1> QED
  BY <1>2, <1>4, <1>5

LEMMA IntentStepSettles ==
  ASSUME EscrowTypeOK, NEW id \in 1..counter,
         \/ \E o \in Oracles, kind \in AttestKind : attest(id, o, kind)
         \/ release(id)
         \/ refund(id)
  PROVE  Promise!Evidence(id) \/ Promise!Settle(id)
<1>1. /\ intents[id] \in Intent
      /\ DealsOf[id] = DealOf(intents[id])
      /\ DealsOf \in [1..counter -> {DealOf(r) : r \in Intent}]
  BY DealsType DEF DealsOf, EscrowTypeOK
<1>2. intents[id].token \in Tokens /\ intents[id].amount \in Int
      /\ intents[id].sme \in Accounts /\ intents[id].supplier \in Accounts
  BY <1>1, EscrowAssumption DEF Intent
<1>3. ASSUME NEW o, NEW kind \in AttestKind, attest(id, o, kind)
      PROVE  Promise!Evidence(id)
  <2> DEFINE r == [intents[id] EXCEPT !.attestation = kind]
             e == EvidenceOf(kind)
  <2>1. DealsOf' = [DealsOf EXCEPT ![id] = DealOf(r)]
    BY <1>3, DealChanges DEF attest
  <2>2. e \in {"delivered", "failed"}
    BY DEF EvidenceOf, AttestKind
  <2>3. DealOf(r) = [DealsOf[id] EXCEPT !.evidence = e]
    BY <1>1 DEF DealOf, Intent
  <2>4. DealsOf[id].state = "locked" /\ DealsOf[id].evidence = "none"
    BY <1>1, <1>3 DEF attest, DealOf, EvidenceOf, StateOf
  <2>5. WalletsOf' = WalletsOf
    BY <1>3 DEF attest, WalletsOf
  <2> HIDE DEF r, e
  <2>6. DealsOf' = [DealsOf EXCEPT ![id].evidence = e]
    BY <2>1, <2>3
  <2> QED
    BY <1>3, <2>2, <2>4, <2>5, <2>6 DEF attest, Promise!Evidence
<1>4. ASSUME release(id) PROVE Promise!Pay(id)
  <2> DEFINE r == [intents[id] EXCEPT !.status = "Released"]
  <2>1. DealsOf' = [DealsOf EXCEPT ![id] = DealOf(r)]
    BY <1>4, DealChanges DEF release
  <2>2. DealOf(r) = [DealsOf[id] EXCEPT !.state = "paid"]
    BY <1>1 DEF DealOf, StateOf, Intent
  <2>3. DealsOf[id].state = "locked" /\ DealsOf[id].evidence = "delivered"
    BY <1>1, <1>4 DEF release, Releasable, DealOf, EvidenceOf, StateOf
  <2>4. /\ DealsOf[id].currency = intents[id].token
        /\ DealsOf[id].payee = intents[id].supplier
        /\ DealsOf[id].sum = intents[id].amount
    BY <1>1 DEF DealOf
  <2>5. WalletsOf' = Promise!Credited(intents[id].token, intents[id].supplier,
                                      intents[id].amount)
    BY <1>2, <1>4, WalletsAfterTransfer DEF release, Releasable
  <2> HIDE DEF r
  <2>6. DealsOf' = [DealsOf EXCEPT ![id].state = "paid"]
    BY <2>1, <2>2
  <2> QED
    BY <1>4, <2>3, <2>4, <2>5, <2>6 DEF release, Promise!Pay
<1>5. ASSUME refund(id) PROVE Promise!Return(id)
  <2> DEFINE r == [intents[id] EXCEPT !.status = "Refunded"]
  <2>1. DealsOf' = [DealsOf EXCEPT ![id] = DealOf(r)]
    BY <1>5, DealChanges DEF refund
  <2>2. DealOf(r) = [DealsOf[id] EXCEPT !.state = "returned"]
    BY <1>1 DEF DealOf, StateOf, Intent
  <2>3. DealsOf[id].state = "locked" /\ DealsOf[id].evidence # "delivered"
    BY <1>1, <1>5 DEF refund, Refundable, DealOf, EvidenceOf, StateOf
  <2>4. /\ DealsOf[id].currency = intents[id].token
        /\ DealsOf[id].payer = intents[id].sme
        /\ DealsOf[id].sum = intents[id].amount
    BY <1>1 DEF DealOf
  <2>5. WalletsOf' = Promise!Credited(intents[id].token, intents[id].sme,
                                      intents[id].amount)
    BY <1>2, <1>5, WalletsAfterTransfer DEF refund, Refundable
  <2> HIDE DEF r
  <2>6. DealsOf' = [DealsOf EXCEPT ![id].state = "returned"]
    BY <2>1, <2>2
  <2> QED
    BY <1>5, <2>3, <2>4, <2>5, <2>6 DEF refund, Promise!Return
<1> QED
  BY <1>3, <1>4, <1>5 DEF Promise!Settle

LEMMA NextSettlement ==
  ASSUME EscrowTypeOK, [EscrowNext]_escrowVars
  PROVE  [Promise!SettlementNext]_(Promise!settlementVars)
<1>1. CASE Create
  BY <1>1, CreateLocks DEF Create, Promise!SettlementNext
<1>2. CASE \E id \in 1..counter :
             \/ \E o \in Oracles, kind \in AttestKind : attest(id, o, kind)
             \/ release(id)
             \/ refund(id)
  BY <1>2, IntentStepSettles DEF Promise!SettlementNext
<1>3. CASE \E token \in Tokens, from \in Accounts, amount \in Amounts :
             StrayTransfer(token, from, amount)
  <2>1. PICK token \in Tokens, from \in Accounts, amount \in Amounts :
               StrayTransfer(token, from, amount)
    BY <1>3
  <2>2. amount \in Int /\ amount \in Amounts \cap Nat /\ amount <= WalletsOf[token][from]
    BY <2>1, EscrowAssumption DEF StrayTransfer, CanTransfer, WalletsOf
  <2>3. WalletsOf' = Promise!Debited(token, from, amount)
    BY <2>1, <2>2, WalletsAfterTransfer DEF StrayTransfer
  <2>4. counter' = counter /\ DealsOf' = DealsOf
    BY <2>1 DEF StrayTransfer, DealsOf, DealOf, EvidenceOf, StateOf
  <2> QED
    BY <2>2, <2>3, <2>4 DEF Promise!Stray, Promise!SettlementNext
<1>4. CASE UNCHANGED <<counter, intents, balance>>
  BY <1>4 DEF Promise!settlementVars, DealsOf, DealOf, EvidenceOf, StateOf, WalletsOf
<1>5. (\E o \in Oracles : add_oracle(o) \/ remove_oracle(o)) \/ Ledger
      \/ UNCHANGED escrowVars
        => UNCHANGED <<counter, intents, balance>>
  BY DEF add_oracle, remove_oracle, Ledger, Tick, ChangeLine, escrowVars
<1> QED
  BY <1>1, <1>2, <1>3, <1>4, <1>5 DEF EscrowNext

(* The contract implements the settlement it promises: each deal is locked *)
(* out of its payer's wallet and settled once, to the right party.         *)
THEOREM EscrowImplementsSettlement == EscrowSpec => ImplementsSettlement
BY InitSettlement, NextSettlement, EscrowTyped, PTL
   DEF EscrowSpec, ImplementsSettlement, Promise!SettlementSpec

=============================================================================
