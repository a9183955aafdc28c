------------------------ MODULE PolicyAccountProofs ------------------------
(***************************************************************************)
(* The smart account keeps its promises for every set of keys, accounts,   *)
(* tokens, amounts and caps, and for requests signed at any time.          *)
(*                                                                         *)
(* Contained is not inductive: a release or a refund moves money out of    *)
(* the vault to whoever an old intent names.  AccountInv adds that every   *)
(* intent was funded by the account and names a supplier it once trusted,  *)
(* and that the policy in force names nobody it never trusted.             *)
(***************************************************************************)
EXTENDS PolicyAccount, EscrowProofs, FiniteSetTheorems

(* The policy in force and the intents it let through name nobody else.    *)
PolicyTrusted ==
  /\ suppliers \subseteq trusted
  /\ escrow \in trusted \cup {NoEscrow}
  /\ \A id \in 1..counter : intents[id].sme = Self /\ intents[id].supplier \in trusted

AccountInv == AccountTypeOK /\ PolicyTrusted /\ Contained

-----------------------------------------------------------------------------
(***************************************************************************)
(* What __check_auth lets through.                                         *)
(***************************************************************************)

LEMMA Parties ==
  /\ Self \in Holders /\ Contract \in Holders /\ Contract # Self /\ Accounts \subseteq Holders
  /\ NoEscrow \notin Holders
BY EscrowAssumption, AccountAssumption DEF Holders

(* What each call of an authorised request may do.                         *)
LEMMA AuthorisedRequest ==
  ASSUME AccountTypeOK, NEW req \in signed, Authorised(req)
  PROVE  /\ req.funds \in CallsOf(FundCall) /\ req.pays \in CallsOf(PayCall)
         /\ \A i \in DOMAIN req.funds :
              /\ req.funds[i].amount <= cap
              /\ req.funds[i].supplier \in suppliers /\ escrow = Contract
         /\ \A i \in DOMAIN req.pays :
              /\ req.pays[i].amount <= cap
              /\ req.pays[i].to = escrow
<1>1. req \in Request
  BY SignableAssumption DEF AccountTypeOK
<1>2. req.funds \in CallsOf(FundCall) /\ req.pays \in CallsOf(PayCall)
  BY <1>1 DEF Request
<1>3. \A c \in Contexts(req) : check_context(c)
  BY DEF Authorised, check_auth
<1>4. \A call, to : check_context(Transfer(call, to)) => to = escrow /\ call.amount <= cap
  BY DEF check_context, Transfer, AdminFns, cap_ok
<1>5. ASSUME NEW i \in DOMAIN req.funds
      PROVE  /\ req.funds[i].amount <= cap
             /\ req.funds[i].supplier \in suppliers /\ escrow = Contract
  <2> DEFINE call == req.funds[i]
             creating == [contract |-> Contract, fn |-> "create_intent",
                          supplier |-> call.supplier, amount |-> call.amount]
  <2>1. Transfer(call, Contract) \in Funding(call, Contract)
         /\ creating \in Funding(call, Contract)
    BY DEF Funding
  <2>2. Funding(call, Contract) \subseteq Contexts(req)
    BY DEF Contexts
  <2>3. check_context(creating) /\ check_context(Transfer(call, Contract))
    BY <1>3, <2>1, <2>2
  <2>4. call.supplier \in suppliers
    BY <2>3, Parties DEF check_context
  <2> QED
    BY <1>4, <2>3, <2>4
<1>6. ASSUME NEW i \in DOMAIN req.pays
      PROVE  req.pays[i].amount <= cap /\ req.pays[i].to = escrow
  <2> DEFINE call == req.pays[i]
  <2>1. Transfer(call, call.to) \in Paying(call)
    BY DEF Paying, Funding
  <2>2. Paying(call) \subseteq Contexts(req)
    BY DEF Contexts
  <2>3. check_context(Transfer(call, call.to))
    BY <1>3, <2>1, <2>2
  <2> QED
    BY <1>4, <2>3
<1> QED
  BY <1>2, <1>5, <1>6

(* The sum of calls within the cap, in one token.                          *)
LEMMA SumOfCalls ==
  ASSUME NEW S, NEW calls \in CallsOf(S), NEW c \in Int, NEW t,
         \A i \in DOMAIN calls : calls[i].amount \in Nat /\ calls[i].amount <= c
  PROVE  /\ Count(calls) \in Nat /\ DOMAIN calls = 1..Count(calls)
         /\ Sum(calls, t) \in Nat
         /\ Sum(calls, t) <= Count(calls) * c
<1>1. PICK m \in 0..MaxCalls : calls \in [1..m -> S]
  BY DEF CallsOf
<1>2. m \in Nat /\ DOMAIN calls = 1..m
  BY <1>1, AccountAssumption
<1>3. Count(calls) = m
  BY <1>2, FS_Interval DEF Count
<1> DEFINE w == [i \in DOMAIN calls |-> IF calls[i].token = t THEN calls[i].amount ELSE 0]
<1>4. w \in [1..m -> Nat] /\ \A i \in 1..m : w[i] <= c
  BY <1>2
<1>5. Sum(calls, t) = SumTo(w, m)
  BY <1>3 DEF Sum
<1>6. m \in 0..m
  BY <1>2
<1> HIDE DEF w
<1> QED
  BY <1>2, <1>3, <1>4, <1>5, <1>6, SumToNat, SumToBounded

(* A transaction moves, token by token, at most the cap for each of its    *)
(* calls from the account to the escrow of the policy, and touches no      *)
(* other balance.                                                          *)
LEMMA ApplyMoves ==
  ASSUME AccountTypeOK, NEW req \in signed, Apply(req), NEW t \in Tokens
  PROVE  /\ Taken(req, t) \in Nat
         /\ Taken(req, t) <= (Count(req.funds) + Count(req.pays)) * cap
         /\ Taken(req, t) > 0 => escrow \in Holders \ {Self}
         /\ balance'[t] \in [Holders -> Nat]
         /\ balance'[t][Self] = balance[t][Self] - Taken(req, t)
         /\ escrow \in Holders \ {Self} =>
              balance'[t][escrow] = balance[t][escrow] + Taken(req, t)
         /\ \A h \in Holders : h \notin {Self, escrow} => balance'[t][h] = balance[t][h]
<1>1. /\ Authorised(req) /\ CanApply(req) /\ cap \in Int
      /\ balance[t] \in [Holders -> Nat]
  BY AccountAssumption DEF AccountTypeOK, EscrowTypeOK, Apply
<1>2. /\ req.funds \in CallsOf(FundCall) /\ req.pays \in CallsOf(PayCall)
      /\ \A i \in DOMAIN req.funds : req.funds[i].amount <= cap /\ escrow = Contract
      /\ \A i \in DOMAIN req.pays : req.pays[i].amount <= cap /\ req.pays[i].to = escrow
  BY <1>1, AuthorisedRequest
<1>3. /\ \A i \in DOMAIN req.funds : req.funds[i] \in FundCall
      /\ \A i \in DOMAIN req.pays : req.pays[i] \in PayCall
  BY <1>2 DEF CallsOf
<1>4. /\ \A i \in DOMAIN req.funds : req.funds[i].amount \in Nat
      /\ \A i \in DOMAIN req.pays : req.pays[i].amount \in Nat
  <2>1. /\ \A i \in DOMAIN req.funds : req.funds[i].amount \in Int
        /\ \A i \in DOMAIN req.pays : req.pays[i].amount \in Int
    BY <1>3, EscrowAssumption DEF FundCall, PayCall
  <2> QED
    BY <1>1, <2>1 DEF CanApply, CanTransfer
<1> DEFINE f == Sum(req.funds, t)
           p == Sum(req.pays, t)
           n == Count(req.funds)
           k == Count(req.pays)
<1>5. /\ n \in Nat /\ f \in Nat /\ f <= n * cap /\ DOMAIN req.funds = 1..n
      /\ k \in Nat /\ p \in Nat /\ p <= k * cap /\ DOMAIN req.pays = 1..k
  BY <1>1, <1>2, <1>4, SumOfCalls
<1>6. Taken(req, t) = f + p
  BY DEF Taken
<1> HIDE DEF f, p, n, k
<1>7. f + p <= (n + k) * cap
  <2>1. (n + k) * cap = n * cap + k * cap
    BY <1>1, <1>5
  <2>2. n * cap \in Int /\ k * cap \in Int
    BY <1>1, <1>5
  <2> QED
    BY <1>5, <2>1, <2>2
<1>8. f + p > 0 => escrow \in Holders \ {Self}
  <2> SUFFICES ASSUME f + p > 0 PROVE escrow \in Holders \ {Self}
    OBVIOUS
  <2>1. n # 0 \/ k # 0
    <3> SUFFICES ASSUME n = 0, k = 0 PROVE FALSE
      OBVIOUS
    <3>1. n * cap = 0 /\ k * cap = 0
      BY <1>1
    <3> QED
      BY <1>5, <3>1
  <2>2. CASE n # 0
    <3>1. 1 \in DOMAIN req.funds
      BY <1>5, <2>2
    <3> QED
      BY <1>2, <3>1, Parties
  <2>3. CASE k # 0
    <3>1. 1 \in DOMAIN req.pays
      BY <1>5, <2>3
    <3>2. req.pays[1].to \in Holders \ {Self}
      BY <1>3, <3>1 DEF PayCall
    <3> QED
      BY <1>2, <3>1, <3>2
  <2> QED
    BY <2>1, <2>2, <2>3
<1>9. f + p <= balance[t][Self]
  BY <1>1, <1>6 DEF CanApply
<1>10. balance'[t] = [h \in Holders |->
                       IF h = Self THEN balance[t][h] - (f + p)
                       ELSE IF h = escrow THEN balance[t][h] + (f + p)
                       ELSE balance[t][h]]
  BY <1>6 DEF Apply
<1>11. balance[t][Self] \in Nat
  BY <1>1, Parties
<1>12. /\ balance'[t] \in [Holders -> Nat]
       /\ balance'[t][Self] = balance[t][Self] - (f + p)
       /\ escrow \in Holders \ {Self} =>
            balance'[t][escrow] = balance[t][escrow] + (f + p)
       /\ \A h \in Holders : h \notin {Self, escrow} => balance'[t][h] = balance[t][h]
  BY <1>1, <1>5, <1>9, <1>10, <1>11, Parties
<1>13. f + p \in Nat
  BY <1>5
<1>14. /\ Taken(req, t) \in Nat
       /\ Taken(req, t) <= (Count(req.funds) + Count(req.pays)) * cap
       /\ Taken(req, t) > 0 => escrow \in Holders \ {Self}
  BY <1>6, <1>7, <1>8, <1>13 DEF n, k
<1> QED
  BY <1>6, <1>12, <1>14

(* Every intent a transaction creates is the account's own, within the cap *)
(* and for a supplier the policy approves.                                 *)
LEMMA ApplyCreates ==
  ASSUME AccountTypeOK, NEW req \in signed, Apply(req)
  PROVE  /\ counter' \in 0..MaxIntents /\ counter <= counter'
         /\ intents' \in [1..counter' -> Intent]
         /\ \A id \in 1..counter : intents'[id] = intents[id]
         /\ \A id \in 1..counter' : id \notin 1..counter =>
              /\ intents'[id].sme = Self /\ intents'[id].supplier \in suppliers
              /\ intents'[id].amount <= cap
<1>1. /\ Authorised(req) /\ CanApply(req) /\ cap \in Int
      /\ counter \in Nat /\ intents \in [1..counter -> Intent] /\ suppliers \subseteq Accounts
  BY AccountAssumption DEF AccountTypeOK, EscrowTypeOK, Apply
<1> DEFINE calls == req.funds
           n == Count(calls)
<1>2. /\ calls \in CallsOf(FundCall)
      /\ \A i \in DOMAIN calls : calls[i].amount <= cap /\ calls[i].supplier \in suppliers
  BY <1>1, AuthorisedRequest
<1>3. \A i \in DOMAIN calls : calls[i] \in FundCall
  BY <1>2 DEF CallsOf
<1>4. ASSUME NEW i \in DOMAIN calls
      PROVE  calls[i].amount \in Amounts \cap Nat
  <2>1. calls[i].amount \in Amounts /\ calls[i].amount \in Int
    BY <1>3, EscrowAssumption DEF FundCall
  <2> QED
    BY <1>1, <2>1 DEF CanApply, CanTransfer
<1>5. n \in Nat /\ DOMAIN calls = 1..n
  BY <1>1, <1>2, <1>4, SumOfCalls
<1>6. counter' = counter + n /\ counter + n <= MaxIntents
  BY <1>1 DEF Apply, CanApply
<1> DEFINE new(i) == [sme |-> Self, supplier |-> calls[i].supplier,
                      token |-> calls[i].token, amount |-> calls[i].amount,
                      request_hash |-> calls[i].request_hash,
                      deadline |-> calls[i].deadline, status |-> "Funded",
                      attestation |-> "None"]
<1>7. intents' = [id \in 1..counter + n |->
                    IF id \in 1..counter THEN intents[id] ELSE new(id - counter)]
  BY DEF Apply
<1>8. ASSUME NEW i \in DOMAIN calls
      PROVE  /\ new(i) \in Intent /\ new(i).sme = Self
             /\ new(i).supplier \in suppliers /\ new(i).amount <= cap
  BY <1>1, <1>2, <1>3, <1>4, AccountAssumption DEF FundCall, Intent, Status, Attestation
<1>9. \A id \in 1..counter + n : id \notin 1..counter => id - counter \in DOMAIN calls
  BY <1>1, <1>5
<1> HIDE DEF new, n, calls
<1>10. 1..counter \subseteq 1..counter + n
  BY <1>1, <1>5
<1>11. intents' \in [1..counter + n -> Intent]
  BY <1>1, <1>7, <1>8, <1>9
<1>12. \A id \in 1..counter + n : id \notin 1..counter =>
         /\ intents'[id].sme = Self /\ intents'[id].supplier \in suppliers
         /\ intents'[id].amount <= cap
  BY <1>7, <1>8, <1>9
<1>13. counter' \in 0..MaxIntents /\ counter <= counter'
  BY <1>1, <1>5, <1>6, EscrowAssumption
<1>14. \A id \in 1..counter : intents'[id] = intents[id]
  BY <1>7, <1>10
<1> QED
  BY <1>6, <1>11, <1>12, <1>13, <1>14

(* The escrow's own steps pay the parties of an intent out of the vault.   *)
LEMMA SettleMoves ==
  ASSUME AccountTypeOK, EscrowSettles
  PROVE  /\ [EscrowNext]_escrowVars /\ counter' = counter
         /\ \A t \in Tokens, h \in Holders :
              \/ balance'[t][h] = balance[t][h]
              \/ h = Contract /\ balance'[t][h] <= balance[t][h]
              \/ /\ \E id \in 1..counter : h \in {intents[id].sme, intents[id].supplier}
                 /\ balance'[t][h] >= balance[t][h]
<1>0. EscrowTypeOK /\ balance \in [Tokens -> [Holders -> Nat]]
  BY DEF AccountTypeOK, EscrowTypeOK
<1>1. [EscrowNext]_escrowVars
  BY DEF EscrowSettles, EscrowNext
<1>2. counter' = counter
  BY DEF EscrowSettles, attest, release, refund, add_oracle, remove_oracle, Ledger,
         Tick, ChangeLine
<1> DEFINE Moved(t, h) ==
      \/ balance'[t][h] = balance[t][h]
      \/ h = Contract /\ balance'[t][h] <= balance[t][h]
      \/ /\ \E id \in 1..counter : h \in {intents[id].sme, intents[id].supplier}
         /\ balance'[t][h] >= balance[t][h]
<1>3. ASSUME NEW id \in 1..counter, NEW to \in {intents[id].sme, intents[id].supplier},
             CanTransfer(intents[id].token, Contract, to, intents[id].amount),
             balance' = Transferred(intents[id].token, Contract, to, intents[id].amount),
             NEW t \in Tokens, NEW h \in Holders
      PROVE  Moved(t, h)
  <2>1. to \in Accounts
    BY <1>0, <1>3 DEF EscrowTypeOK, Intent
  <2> DEFINE token == intents[id].token
             amount == intents[id].amount
  <2>2. /\ token \in Tokens /\ amount \in Nat
        /\ balance'[token][Contract] = balance[token][Contract] - amount
        /\ balance'[token][to] = balance[token][to] + amount
        /\ t # token \/ h \notin {Contract, to} => balance'[t][h] = balance[t][h]
    BY <1>0, <1>3, <2>1, PayoutMoves
  <2>3. balance[token][Contract] \in Nat /\ balance[token][to] \in Nat
    BY <1>0, <2>1, <2>2 DEF Holders
  <2> HIDE DEF token, amount
  <2>4. balance'[token][Contract] <= balance[token][Contract]
        /\ balance'[token][to] >= balance[token][to]
    BY <2>2, <2>3
  <2> QED
    BY <1>3, <2>2, <2>4
<1>4. ASSUME NEW t \in Tokens, NEW h \in Holders PROVE Moved(t, h)
  <2>1. CASE UNCHANGED balance
    BY <2>1
  <2>2. CASE \E id \in 1..counter : release(id) \/ refund(id)
    <3> HIDE DEF Moved
    <3> QED
      BY <1>3, <2>2 DEF release, refund, Releasable, Refundable
  <2> QED
    BY <2>1, <2>2 DEF EscrowSettles, attest, add_oracle, remove_oracle, Ledger, Tick,
                      ChangeLine
<1> QED
  BY <1>1, <1>2, <1>4

-----------------------------------------------------------------------------
(***************************************************************************)
(* The inductive invariant.                                                *)
(***************************************************************************)

(* Neither the account's functions nor signing touch the escrow.           *)
LEMMA AccountSteps ==
  ASSUME [AccountNext]_accountVars
  PROVE  \/ \E req \in signed : Apply(req)
         \/ EscrowSettles
         \/ UNCHANGED escrowVars
BY DEF AccountNext, Sign, Drop, add_supplier, remove_supplier, set_cap, set_escrow,
       accountVars

LEMMA AccountTypedNext ==
  ASSUME AccountTypeOK, [AccountNext]_accountVars
  PROVE  AccountTypeOK'
<1>1. EscrowTypeOK'
  <2>1. ASSUME NEW req \in signed, Apply(req) PROVE EscrowTypeOK'
    <3>1. \A t \in Tokens : balance'[t] \in [Holders -> Nat]
      BY <2>1, ApplyMoves
    <3>2. balance' \in [Tokens -> [Holders -> Nat]]
      BY <2>1, <3>1 DEF Apply
    <3>3. counter' \in 0..MaxIntents /\ intents' \in [1..counter' -> Intent]
      BY <2>1, ApplyCreates
    <3>4. UNCHANGED <<oracles, lines, now>>
      BY <2>1 DEF Apply
    <3> QED
      BY <3>2, <3>3, <3>4 DEF AccountTypeOK, EscrowTypeOK
  <2>2. [EscrowNext]_escrowVars => EscrowTypeOK'
    BY NextTyped DEF AccountTypeOK
  <2> QED
    BY <2>1, <2>2, AccountSteps, SettleMoves
<1>2. /\ cap' \in Caps /\ escrow' \in Holders \cup {NoEscrow} /\ suppliers' \subseteq Accounts
      /\ signed' \subseteq Signable /\ trusted' \subseteq Holders
  BY Parties DEF AccountTypeOK, AccountNext, Sign, Apply, Drop,
     add_supplier, remove_supplier, set_cap, set_escrow, EscrowSettles, policyVars,
     accountVars
<1> QED
  BY <1>1, <1>2 DEF AccountTypeOK

LEMMA PolicyTrustedNext ==
  ASSUME AccountTypeOK, PolicyTrusted, [AccountNext]_accountVars
  PROVE  PolicyTrusted' /\ trusted \subseteq trusted'
<1>0. EscrowTypeOK
  BY DEF AccountTypeOK
<1>1. /\ suppliers' \subseteq trusted' /\ escrow' \in trusted' \cup {NoEscrow}
      /\ trusted \subseteq trusted'
  BY DEF PolicyTrusted, AccountNext, Sign, Apply, Drop, add_supplier,
     remove_supplier, set_cap, set_escrow, EscrowSettles, policyVars, accountVars
<1>2. ASSUME NEW id \in 1..counter'
      PROVE  intents'[id].sme = Self /\ intents'[id].supplier \in trusted
  <2>1. ASSUME NEW req \in signed, Apply(req)
        PROVE  intents'[id].sme = Self /\ intents'[id].supplier \in trusted
    <3>1. CASE id \in 1..counter
      BY <2>1, <3>1, ApplyCreates DEF PolicyTrusted
    <3>2. CASE id \notin 1..counter
      BY <1>2, <2>1, <3>2, ApplyCreates DEF PolicyTrusted
    <3> QED
      BY <3>1, <3>2
  <2>2. CASE EscrowSettles
    <3>1. /\ intents \in [1..counter -> Intent] /\ id \in 1..counter
          /\ [EscrowNext]_escrowVars
      BY <1>0, <1>2, <2>2, SettleMoves DEF EscrowTypeOK
    <3>2. intents[id] \in Intent /\ IntentStep(id)
      BY <1>0, <3>1, IntentSteps
    <3>3. intents'[id].sme = intents[id].sme /\ intents'[id].supplier = intents[id].supplier
      BY <3>2 DEF IntentStep, Intent
    <3> QED
      BY <3>1, <3>3 DEF PolicyTrusted
  <2>3. CASE UNCHANGED <<counter, intents>>
    BY <1>2, <2>3 DEF PolicyTrusted
  <2> QED
    BY <2>1, <2>2, <2>3, AccountSteps DEF escrowVars
<1> QED
  BY <1>1, <1>2 DEF PolicyTrusted

LEMMA ContainedNext ==
  ASSUME AccountInv, [AccountNext]_accountVars
  PROVE  Contained'
<1>0. /\ AccountTypeOK /\ AccountTypeOK' /\ PolicyTrusted /\ Contained
      /\ trusted \subseteq trusted'
  BY AccountTypedNext, PolicyTrustedNext DEF AccountInv
<1> SUFFICES ASSUME NEW t \in Tokens, NEW h \in Holders \ (trusted \cup {Self})
             PROVE  balance'[t][h] = balance[t][h]
  BY <1>0 DEF Contained
<1>1. ASSUME NEW req \in signed, Apply(req)
      PROVE  balance'[t][h] = balance[t][h]
  <2>1. h \notin {Self, escrow}
    BY <1>0, Parties DEF PolicyTrusted
  <2> QED
    BY <1>0, <1>1, <2>1, ApplyMoves
<1>2. CASE EscrowSettles
  <2>1. \A id \in 1..counter : h \notin {intents[id].sme, intents[id].supplier}
    BY <1>0 DEF PolicyTrusted
  <2>2. h = Contract => balance[t][h] = 0 /\ balance'[t][h] \in Nat
    BY <1>0 DEF Contained, AccountTypeOK, EscrowTypeOK
  <2> QED
    BY <1>0, <1>2, <2>1, <2>2, SettleMoves
<1>3. CASE UNCHANGED escrowVars
  BY <1>3 DEF escrowVars
<1> QED
  BY <1>1, <1>2, <1>3, AccountSteps

(* AccountInv holds from the account's deployment on: every address money  *)
(* can go to, that of an intent already funded included, was once trusted  *)
(* by the owner (policy-account/src/lib.rs).                               *)
THEOREM AccountInvariant == AccountSpec => []AccountInv
<1>1. ASSUME AccountInit PROVE AccountInv
  <2>1. AccountTypeOK
    BY <1>1, InitTyped DEF AccountInit, AccountTypeOK
  <2>2. PolicyTrusted
    BY <1>1 DEF AccountInit, EscrowInit, Deployed, PolicyTrusted
  <2>3. Contained
    BY <1>1 DEF AccountInit, EscrowInit, Deployed, Contained
  <2> QED
    BY <2>1, <2>2, <2>3 DEF AccountInv
<1>2. AccountInv /\ [AccountNext]_accountVars => AccountInv'
  BY AccountTypedNext, PolicyTrustedNext, ContainedNext DEF AccountInv
<1> QED
  BY <1>1, <1>2, PTL DEF AccountSpec

-----------------------------------------------------------------------------
(***************************************************************************)
(* The theorems.                                                           *)
(***************************************************************************)

(* The policy keys, the escrow and the balances keep their types.          *)
THEOREM AccountTyped == AccountSpec => []AccountTypeOK
BY AccountInvariant, PTL DEF AccountInv

(* The account's tokens reach only addresses its owner once approved as a  *)
(* supplier or set as the escrow, whoever signs what and whenever it is    *)
(* applied.                                                                *)
THEOREM AccountContained == AccountSpec => []Contained
BY AccountInvariant, PTL DEF AccountInv

(* One transaction takes at most the cap for each call it makes, gives it  *)
(* to the escrow in force, and funds intents within the cap and only for   *)
(* suppliers approved when it is applied.                                  *)
THEOREM AccountSpends == AccountSpec => SpendsWithinPolicy
<1> DEFINE Spends(t) ==
             balance'[t][Self] < balance[t][Self] =>
               /\ escrow \in Holders
               /\ \E req \in signed \ signed' :
                    balance[t][Self] - balance'[t][Self]
                      <= (Count(req.funds) + Count(req.pays)) * cap
               /\ balance'[t][escrow] - balance[t][escrow]
                    = balance[t][Self] - balance'[t][Self]
           Funds == \A id \in counter + 1..counter' :
             intents'[id].amount <= cap /\ intents'[id].supplier \in suppliers
<1>1. ASSUME AccountInv, [AccountNext]_accountVars PROVE (\A t \in Tokens : Spends(t)) /\ Funds
  <2>0. /\ AccountTypeOK /\ AccountTypeOK' /\ counter \in Nat /\ cap \in Int
        /\ balance \in [Tokens -> [Holders -> Nat]]
        /\ balance' \in [Tokens -> [Holders -> Nat]]
    BY <1>1, AccountTypedNext, EscrowAssumption, AccountAssumption
       DEF AccountInv, AccountTypeOK, EscrowTypeOK
  <2>1. ASSUME NEW t \in Tokens, balance'[t][Self] < balance[t][Self]
        PROVE  /\ escrow \in Holders
               /\ \E req \in signed \ signed' :
                    balance[t][Self] - balance'[t][Self]
                      <= (Count(req.funds) + Count(req.pays)) * cap
               /\ balance'[t][escrow] - balance[t][escrow]
                    = balance[t][Self] - balance'[t][Self]
    <3>1. balance[t][Self] \in Nat /\ balance'[t][Self] \in Nat
      BY <2>0, Parties
    <3>2. ~EscrowSettles
      BY <2>0, <2>1, <3>1, SettleMoves, Parties
    <3>3. PICK req \in signed : Apply(req)
      BY <1>1, <2>1, <3>1, <3>2, AccountSteps DEF escrowVars
    <3>4. req \in signed \ signed'
      BY <3>3 DEF Apply
    <3>5. /\ Taken(req, t) \in Nat
          /\ Taken(req, t) <= (Count(req.funds) + Count(req.pays)) * cap
          /\ Taken(req, t) > 0 => escrow \in Holders \ {Self}
          /\ balance'[t][Self] = balance[t][Self] - Taken(req, t)
          /\ escrow \in Holders \ {Self} =>
               balance'[t][escrow] = balance[t][escrow] + Taken(req, t)
      BY <2>0, <3>3, ApplyMoves
    <3>6. escrow \in Holders \ {Self}
      BY <2>1, <3>1, <3>5
    <3>7. balance[t][escrow] \in Nat
      BY <2>0, <3>6
    <3>8. balance[t][Self] - balance'[t][Self] = Taken(req, t)
          /\ balance'[t][escrow] - balance[t][escrow] = Taken(req, t)
      BY <3>1, <3>5, <3>6, <3>7
    <3> QED
      BY <3>4, <3>5, <3>6, <3>8
  <2>2. Funds
    <3> SUFFICES ASSUME NEW id \in counter + 1..counter'
                 PROVE  intents'[id].amount <= cap /\ intents'[id].supplier \in suppliers
      OBVIOUS
    <3>1. counter' \in Nat /\ id \in 1..counter' /\ id \notin 1..counter
      BY <2>0, EscrowAssumption DEF AccountTypeOK, EscrowTypeOK
    <3>2. ~EscrowSettles
      BY <2>0, <3>1, SettleMoves
    <3>3. PICK req \in signed : Apply(req)
      BY <1>1, <3>1, <3>2, AccountSteps DEF escrowVars
    <3> QED
      BY <2>0, <3>1, <3>3, ApplyCreates
  <2> QED
    BY <2>1, <2>2
<1>2. ASSUME AccountInv, [AccountNext]_accountVars
      PROVE  [(\A t \in Tokens : Spends(t)) /\ Funds]_accountVars
  BY <1>1, <1>2
<1> QED
  BY <1>2, AccountInvariant, PTL DEF AccountSpec, SpendsWithinPolicy
=============================================================================
