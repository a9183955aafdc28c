---------------------------- MODULE PolicyAccount ---------------------------
(***************************************************************************)
(* The SME's smart account, contracts/policy-account/src/lib.rs, and the   *)
(* escrow it funds.  Nothing leaves the account unless __check_auth agrees *)
(* to every invocation the transaction makes in the account's name.        *)
(*                                                                         *)
(* lumo/chain/smart_account.py signs a create_intent first and submits it  *)
(* later: a signed request waits in `signed' and __check_auth runs when    *)
(* the ledger applies it, against the policy of that moment.  A request    *)
(* may carry several calls, made by whatever contract the transaction      *)
(* invokes: __check_auth looks at each by itself, the ledger applies all   *)
(* of them or none.  The other smes of the escrow are left out; the        *)
(* vault's money is the account's.                                         *)
(***************************************************************************)
EXTENDS Escrow, FiniteSets

CONSTANTS Self,       \* the account's own address
          Keys,       \* ed25519 keys somebody can sign with
          Owner,      \* Key::Owner, the one key the account accepts
          Caps,       \* values of set_cap
          NoEscrow,   \* Key::Escrow while set_escrow was never called
          Signable,   \* the requests somebody may sign
          MaxCalls,   \* bound on the calls of a request
          MaxSigned   \* bound on the signed requests waiting

ASSUME AccountAssumption ==
  /\ Self \in Accounts
  /\ Owner \in Keys
  /\ Caps \subseteq Int
  /\ NoEscrow \notin Accounts \cup {Contract}
  /\ MaxCalls \in Nat
  /\ MaxSigned \in Nat

VARIABLES cap,        \* Key::Cap
          escrow,     \* Key::Escrow
          suppliers,  \* the addresses with a Key::Supplier entry
          signed,     \* signed requests not yet applied
          trusted     \* history: who was ever a supplier or the escrow

policyVars == <<cap, escrow, suppliers>>
accountVars == <<policyVars, signed, trusted, escrowVars>>

(* What the account can be asked to do with its tokens: to fund an intent, *)
(* at this escrow or at a contract that has its interface, or to pay.  The *)
(* order of the two kinds makes no difference, so a request lists them     *)
(* apart.                                                                  *)
FundCall == [supplier : Accounts, token : Tokens, amount : Amounts,
             request_hash : Hashes, deadline : Deadlines]
PayCall  == [fn : {"transfer"}, to : Holders \ {Self}, token : Tokens, amount : Amounts]
            \cup [fn : {"create_intent"}, to : Holders \ {Self, Contract},
                  supplier : Accounts, token : Tokens, amount : Amounts]

CallsOf(S) == UNION {[1..n -> S] : n \in 0..MaxCalls}

Request == [key : Keys, funds : CallsOf(FundCall), pays : CallsOf(PayCall)]

ASSUME SignableAssumption == Signable \subseteq Request

AccountTypeOK ==
  /\ EscrowTypeOK
  /\ cap \in Caps
  /\ escrow \in Holders \cup {NoEscrow}
  /\ suppliers \subseteq Accounts
  /\ signed \subseteq Signable
  /\ trusted \subseteq Holders

AccountInit ==
  /\ EscrowInit
  /\ cap \in Caps
  /\ escrow = NoEscrow
  /\ suppliers = {}
  /\ signed = {}
  /\ trusted = {}

(***************************************************************************)
(* __check_auth: the owner's key, and every context within the policy.     *)
(***************************************************************************)
cap_ok(amount) == 0 <= amount /\ amount <= cap

AdminFns == {"add_supplier", "remove_supplier", "set_cap", "set_escrow"}

(* Broken: any supplier will do.                                           *)
check_context_any_supplier(c) ==
  IF c.contract = Self
  THEN c.fn \in AdminFns
  ELSE \/ c.fn = "create_intent" /\ cap_ok(c.amount)
       \/ c.fn = "transfer" /\ c.to = escrow /\ cap_ok(c.amount)

(* Broken: only create_intent is held to the cap.                          *)
check_context_uncapped_transfer(c) ==
  IF c.contract = Self
  THEN c.fn \in AdminFns
  ELSE \/ c.fn = "create_intent" /\ c.supplier \in suppliers /\ cap_ok(c.amount)
       \/ c.fn = "transfer" /\ c.to = escrow

check_context(c) ==
  IF c.contract = Self
  THEN c.fn \in AdminFns
  ELSE \/ c.fn = "create_intent" /\ c.supplier \in suppliers /\ cap_ok(c.amount)
       \/ c.fn = "transfer" /\ c.to = escrow /\ cap_ok(c.amount)

check_auth(key, contexts) == key = Owner /\ \A c \in contexts : check_context(c)

(* The contexts a call puts before __check_auth: funding an intent also    *)
(* makes the token transfer that create_intent performs.                   *)
Transfer(call, to) ==
  [contract |-> call.token, fn |-> "transfer", to |-> to, amount |-> call.amount]

Funding(call, at) ==
  {[contract |-> at, fn |-> "create_intent",
    supplier |-> call.supplier, amount |-> call.amount],
   Transfer(call, at)}

Paying(call) ==
  IF call.fn = "transfer" THEN {Transfer(call, call.to)} ELSE Funding(call, call.to)

Contexts(req) ==
  UNION ({Funding(req.funds[i], Contract) : i \in DOMAIN req.funds}
         \cup {Paying(req.pays[i]) : i \in DOMAIN req.pays})

Authorised(req) == check_auth(req.key, Contexts(req))

(***************************************************************************)
(* Signing and submitting.  A request not (or no longer) authorised, or    *)
(* that the token refuses, or whose signature expired, is dropped.         *)
(***************************************************************************)
Sign(req) ==
  /\ Cardinality(signed) < MaxSigned
  /\ signed' = signed \cup {req}
  /\ UNCHANGED <<policyVars, trusted, escrowVars>>

Count(calls) == Cardinality(DOMAIN calls)

Sum(calls, t) ==
  SumTo([i \in DOMAIN calls |-> IF calls[i].token = t THEN calls[i].amount ELSE 0],
        Count(calls))

Taken(req, t) == Sum(req.funds, t) + Sum(req.pays, t)

(* Every transfer that was authorised goes to the escrow of the policy, so *)
(* the token refuses one of them if it refuses their sum.                  *)
CanApply(req) ==
  /\ counter + Count(req.funds) <= MaxIntents
  /\ \A i \in DOMAIN req.funds :
       CanTransfer(req.funds[i].token, Self, Contract, req.funds[i].amount)
  /\ \A i \in DOMAIN req.pays :
       CanTransfer(req.pays[i].token, Self, req.pays[i].to, req.pays[i].amount)
  /\ \A t \in Tokens : Taken(req, t) <= balance[t][Self]

Apply(req) ==
  /\ req \in signed
  /\ Authorised(req)
  /\ CanApply(req)
  /\ balance' = [t \in Tokens |-> [h \in Holders |->
                   IF h = Self THEN balance[t][h] - Taken(req, t)
                   ELSE IF h = escrow THEN balance[t][h] + Taken(req, t)
                   ELSE balance[t][h]]]
  /\ counter' = counter + Count(req.funds)
  /\ intents' =
       [id \in 1..counter + Count(req.funds) |->
          IF id \in 1..counter
          THEN intents[id]
          ELSE LET call == req.funds[id - counter] IN
               [sme |-> Self, supplier |-> call.supplier, token |-> call.token,
                amount |-> call.amount, request_hash |-> call.request_hash,
                deadline |-> call.deadline, status |-> "Funded",
                attestation |-> "None"]]
  /\ signed' = signed \ {req}
  /\ UNCHANGED <<policyVars, trusted, oracles, lines, now>>

Drop(req) ==
  /\ req \in signed
  /\ signed' = signed \ {req}
  /\ UNCHANGED <<policyVars, trusted, escrowVars>>

(***************************************************************************)
(* The account's own functions, each behind current_contract.require_auth. *)
(***************************************************************************)
AdminAuth(fn) == \E key \in Keys : check_auth(key, {[contract |-> Self, fn |-> fn]})

add_supplier(a) ==
  /\ AdminAuth("add_supplier")
  /\ suppliers' = suppliers \cup {a}
  /\ trusted' = trusted \cup {a}
  /\ UNCHANGED <<cap, escrow, signed, escrowVars>>

remove_supplier(a) ==
  /\ AdminAuth("remove_supplier")
  /\ suppliers' = suppliers \ {a}
  /\ UNCHANGED <<cap, escrow, signed, trusted, escrowVars>>

(* Broken: a new cap is added to the one in force.                         *)
set_cap_added(c) ==
  /\ AdminAuth("set_cap")
  /\ cap' = cap + c
  /\ UNCHANGED <<escrow, suppliers, signed, trusted, escrowVars>>

set_cap(c) ==
  /\ AdminAuth("set_cap")
  /\ cap' = c
  /\ UNCHANGED <<escrow, suppliers, signed, trusted, escrowVars>>

set_escrow(e) ==
  /\ AdminAuth("set_escrow")
  /\ escrow' = e
  /\ trusted' = trusted \cup {e}
  /\ UNCHANGED <<cap, suppliers, signed, escrowVars>>

EscrowSettles ==
  /\ \/ \E id \in 1..counter :
          \/ \E o \in Oracles, kind \in AttestKind : attest(id, o, kind)
          \/ release(id)
          \/ refund(id)
     \/ \E o \in Oracles : add_oracle(o) \/ remove_oracle(o)
     \/ Ledger
  /\ UNCHANGED <<policyVars, signed, trusted>>

AccountNext ==
  \/ \E req \in Signable : Sign(req)
  \/ \E req \in signed : Apply(req) \/ Drop(req)
  \/ \E a \in Accounts : add_supplier(a) \/ remove_supplier(a)
  \/ \E c \in Caps : set_cap(c)
  \/ \E e \in Holders \ {Self} : set_escrow(e)
  \/ EscrowSettles

AccountSpec == AccountInit /\ [][AccountNext]_accountVars

-----------------------------------------------------------------------------
(* Containment: through any number of transactions, signed at any time and *)
(* by anyone, the account's tokens reach only addresses that its owner     *)
(* once approved as a supplier or set as the escrow.                       *)
Contained ==
  \A t \in Tokens, h \in Holders \ (trusted \cup {Self}) :
    balance[t][h] = IF h = Contract THEN 0 ELSE InitialBalance

(* What one transaction takes from the account, however old its signature, *)
(* is at most the cap in force when it is applied for each call it makes   *)
(* (cap_per_tx is a cap per call: __check_auth adds nothing up), and goes  *)
(* to the escrow set at that moment; every intent it creates is within the *)
(* cap and names a supplier approved now.                                  *)
SpendsWithinPolicy ==
  [][/\ \A t \in Tokens :
          balance'[t][Self] < balance[t][Self] =>
            /\ escrow \in Holders
            /\ \E req \in signed \ signed' :
                 balance[t][Self] - balance'[t][Self]
                   <= (Count(req.funds) + Count(req.pays)) * cap
            /\ balance'[t][escrow] - balance[t][escrow]
                 = balance[t][Self] - balance'[t][Self]
     /\ \A id \in counter + 1..counter' :
          intents'[id].amount <= cap /\ intents'[id].supplier \in suppliers]_accountVars

(* policy-account/src/lib.rs:157 says the only transfer the account        *)
(* authorizes is the funding leg of create_intent: then the vault would    *)
(* hold exactly what its intents lock.                                     *)
OnlyFundingLeg ==
  \A t \in Tokens : balance[t][Contract] = Owed(t)

=============================================================================
