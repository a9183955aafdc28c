------------------------------- MODULE Escrow -------------------------------
(***************************************************************************)
(* The escrow contract, contracts/escrow/src/lib.rs.                       *)
(*                                                                         *)
(* A call either succeeds, and is one atomic step of the ledger, or is     *)
(* rolled back with an error and changes nothing: an action is a call that *)
(* succeeds, and its first conjuncts are the negations of the errors.      *)
(* `id' ranges over the intents in storage, so IntentNotFound is implicit. *)
(* Tokens are Stellar asset contracts, external to this code; only what    *)
(* their `transfer' refuses and moves is modelled: it refuses a negative   *)
(* amount, an overdraft, and either end whose line is closed (a trustline  *)
(* that does not exist, a balance the issuer has deauthorised).            *)
(***************************************************************************)
EXTENDS Integers, PrefixSum

CONSTANTS Accounts,        \* addresses that may be sme or supplier
          Contract,        \* env.current_contract_address()
          Oracles,         \* addresses the admin may register
          Tokens,          \* token contracts
          Amounts,         \* amounts callers ask for, the illegal ones included
          Hashes,          \* request hashes, opaque to the contract
          Deadlines,       \* deadlines callers ask for; nothing checks them
          InitialBalance,  \* what an account holds at the start, per token
          Unsteady,        \* <<token, holder>> lines that may close and open
          MaxIntents,      \* bound on the u64 counter
          MaxTime          \* bound on the ledger clock

Holders == Accounts \cup {Contract}

ASSUME EscrowAssumption ==
  /\ Contract \notin Accounts
  /\ Amounts \subseteq Int
  /\ Deadlines \subseteq Nat
  /\ InitialBalance \in Nat
  /\ Unsteady \subseteq Tokens \X Holders
  /\ MaxIntents \in Nat
  /\ MaxTime \in Nat

VARIABLES counter,  \* Key::Counter
          intents,  \* Key::Intent(id), id \in 1..counter
          oracles,  \* the addresses with a Key::Oracle entry
          balance,  \* balance[token][holder], kept by the token contracts
          lines,    \* the <<token, holder>> whose trustline is open: it is
                    \* there, and its issuer has not revoked it
          now       \* env.ledger().timestamp()

escrowVars == <<counter, intents, oracles, balance, lines, now>>

Status == {"Funded", "Released", "Refunded"}
AttestKind == {"Shipped", "Failed"}
Attestation == {"None"} \cup AttestKind

Intent == [sme : Accounts, supplier : Accounts, token : Tokens,
           amount : Amounts \cap Nat, request_hash : Hashes,
           deadline : Deadlines, status : Status, attestation : Attestation]

EscrowTypeOK ==
  /\ counter \in 0..MaxIntents
  /\ intents \in [1..counter -> Intent]
  /\ oracles \subseteq Oracles
  /\ balance \in [Tokens -> [Holders -> Nat]]
  /\ lines \subseteq Tokens \X Holders
  /\ now \in 0..MaxTime

(* The contract after __constructor and the admin's first add_oracle calls,*)
(* between accounts whose trustlines scripts/demo_seed.sh has opened.      *)
Deployed(registered) ==
  /\ counter = 0
  /\ intents = << >>
  /\ oracles = registered
  /\ balance = [t \in Tokens |->
                 [h \in Holders |-> IF h = Contract THEN 0 ELSE InitialBalance]]
  /\ lines = Tokens \X Holders
  /\ now = 0

EscrowInit == Deployed({})

(***************************************************************************)
(* token::Client::transfer, of an asset contract.                          *)
(***************************************************************************)
LinesOpen(token, from, to) == {<<token, from>>, <<token, to>>} \subseteq lines

CanTransfer(token, from, to, amount) ==
  /\ amount >= 0 /\ amount <= balance[token][from]
  /\ LinesOpen(token, from, to)

Transferred(token, from, to, amount) ==
  [balance EXCEPT ![token][from] = @ - amount, ![token][to] = @ + amount]

(***************************************************************************)
(* The admin's registry.  admin.require_auth() is the admin's choice to    *)
(* call; removing an address that is not registered is a no-op.            *)
(***************************************************************************)
add_oracle(o) ==
  /\ oracles' = oracles \cup {o}
  /\ UNCHANGED <<counter, intents, balance, lines, now>>

remove_oracle(o) ==
  /\ oracles' = oracles \ {o}
  /\ UNCHANGED <<counter, intents, balance, lines, now>>

(***************************************************************************)
(* create_intent: the funding leg, the next id, the record.  A deadline in *)
(* the past and a request hash already used are both accepted.             *)
(***************************************************************************)
(* Broken: next_id reads the counter and does not store it back.           *)
create_intent_no_next_id(sme, supplier, token, amount, request_hash, deadline) ==
  /\ counter < MaxIntents
  /\ CanTransfer(token, sme, Contract, amount)
  /\ balance' = Transferred(token, sme, Contract, amount)
  /\ intents' =
       [id \in 1..counter + 1 |->
          [sme |-> sme, supplier |-> supplier, token |-> token,
           amount |-> amount, request_hash |-> request_hash,
           deadline |-> deadline, status |-> "Funded", attestation |-> "None"]]
  /\ UNCHANGED <<counter, oracles, lines, now>>

create_intent(sme, supplier, token, amount, request_hash, deadline) ==
  /\ counter < MaxIntents
  /\ CanTransfer(token, sme, Contract, amount)
  /\ balance' = Transferred(token, sme, Contract, amount)
  /\ counter' = counter + 1
  /\ intents' =
       [id \in 1..counter + 1 |->
          IF id \in 1..counter
          THEN intents[id]
          ELSE [sme |-> sme, supplier |-> supplier, token |-> token,
                amount |-> amount, request_hash |-> request_hash,
                deadline |-> deadline, status |-> "Funded",
                attestation |-> "None"]]
  /\ UNCHANGED <<oracles, lines, now>>

(***************************************************************************)
(* attest: any registered oracle, once per intent, whatever the deadline.  *)
(***************************************************************************)
(* Broken: a second oracle may overwrite the first.                        *)
attest_again(id, oracle, kind) ==
  /\ oracle \in oracles
  /\ intents[id].status = "Funded"
  /\ intents' = [intents EXCEPT ![id].attestation = kind]
  /\ UNCHANGED <<counter, oracles, balance, lines, now>>

attest(id, oracle, kind) ==
  /\ oracle \in oracles
  /\ intents[id].status = "Funded"
  /\ intents[id].attestation = "None"
  /\ intents' = [intents EXCEPT ![id].attestation = kind]
  /\ UNCHANGED <<counter, oracles, balance, lines, now>>

(***************************************************************************)
(* release and refund take no auth: anyone may call them.                  *)
(***************************************************************************)
(* Broken: a shipment reported late can no longer be paid.                 *)
Releasable_in_time(id) ==
  /\ intents[id].status = "Funded"
  /\ intents[id].attestation = "Shipped"
  /\ now < intents[id].deadline

Releasable(id) ==
  /\ intents[id].status = "Funded"
  /\ intents[id].attestation = "Shipped"
  /\ CanTransfer(intents[id].token, Contract, intents[id].supplier, intents[id].amount)

(* Broken: pays without storing the new status.                            *)
release_unmarked(id) ==
  /\ Releasable(id)
  /\ balance' = Transferred(intents[id].token, Contract,
                            intents[id].supplier, intents[id].amount)
  /\ UNCHANGED <<counter, intents, oracles, lines, now>>

release(id) ==
  /\ Releasable(id)
  /\ balance' = Transferred(intents[id].token, Contract,
                            intents[id].supplier, intents[id].amount)
  /\ intents' = [intents EXCEPT ![id].status = "Released"]
  /\ UNCHANGED <<counter, oracles, lines, now>>

(* Broken: the deadline itself still counts as in time.                    *)
Refundable_after(id) ==
  /\ intents[id].status = "Funded"
  /\ \/ intents[id].attestation = "Failed"
     \/ intents[id].attestation = "None" /\ now > intents[id].deadline

(* Broken: past the deadline the attestation is not looked at.             *)
Refundable_shipped(id) ==
  /\ intents[id].status = "Funded"
  /\ intents[id].attestation = "Failed" \/ now >= intents[id].deadline

Refundable(id) ==
  /\ intents[id].status = "Funded"
  /\ \/ intents[id].attestation = "Failed"
     \/ intents[id].attestation = "None" /\ now >= intents[id].deadline
  /\ CanTransfer(intents[id].token, Contract, intents[id].sme, intents[id].amount)

(* Broken: copies release's recipient.                                     *)
refund_to_supplier(id) ==
  /\ Refundable(id)
  /\ balance' = Transferred(intents[id].token, Contract,
                            intents[id].supplier, intents[id].amount)
  /\ intents' = [intents EXCEPT ![id].status = "Refunded"]
  /\ UNCHANGED <<counter, oracles, lines, now>>

refund(id) ==
  /\ Refundable(id)
  /\ balance' = Transferred(intents[id].token, Contract,
                            intents[id].sme, intents[id].amount)
  /\ intents' = [intents EXCEPT ![id].status = "Refunded"]
  /\ UNCHANGED <<counter, oracles, lines, now>>

(***************************************************************************)
(* The environment: the ledger closes with a later timestamp, a holder may *)
(* send tokens to the contract without any create_intent, and a holder or  *)
(* an issuer may close a line and open it again.                           *)
(***************************************************************************)
Tick ==
  /\ now < MaxTime
  /\ now' = now + 1
  /\ UNCHANGED <<counter, intents, oracles, balance, lines>>

ChangeLine(line) ==
  /\ lines' = IF line \in lines THEN lines \ {line} ELSE lines \cup {line}
  /\ UNCHANGED <<counter, intents, oracles, balance, now>>

Ledger == Tick \/ \E line \in Unsteady : ChangeLine(line)

StrayTransfer(token, from, amount) ==
  /\ CanTransfer(token, from, Contract, amount)
  /\ balance' = Transferred(token, from, Contract, amount)
  /\ UNCHANGED <<counter, intents, oracles, lines, now>>

Create ==
  \E sme, supplier \in Accounts, token \in Tokens, amount \in Amounts,
     request_hash \in Hashes, deadline \in Deadlines :
    create_intent(sme, supplier, token, amount, request_hash, deadline)

EscrowNext ==
  \/ Create
  \/ \E id \in 1..counter :
       \/ \E o \in Oracles, kind \in AttestKind : attest(id, o, kind)
       \/ release(id)
       \/ refund(id)
  \/ \E o \in Oracles : add_oracle(o) \/ remove_oracle(o)
  \/ \E token \in Tokens, from \in Accounts, amount \in Amounts :
       StrayTransfer(token, from, amount)
  \/ Ledger

EscrowSpec == EscrowInit /\ [][EscrowNext]_escrowVars

-----------------------------------------------------------------------------
(***************************************************************************)
(* Properties.                                                             *)
(***************************************************************************)

(* What the contract owes in a token: the amounts of its Funded intents.   *)
Locked(id, token) ==
  IF intents[id].status = "Funded" /\ intents[id].token = token
  THEN intents[id].amount
  ELSE 0

Owed(token) == SumTo([id \in 1..counter |-> Locked(id, token)], counter)

(* Whatever calls were made, in whatever order, the contract holds in each *)
(* token at least what its Funded intents add up to: no intent is ever     *)
(* paid out of another one's money.                                        *)
Solvent == \A t \in Tokens : Owed(t) <= balance[t][Contract]

(* An intent that was paid out was shipped, one that went back was either  *)
(* reported failed or had nobody attest until its deadline, even though    *)
(* attest keeps being accepted after the deadline and anyone may call.     *)
OutcomeJustified ==
  \A id \in 1..counter :
    /\ intents[id].status = "Released" => intents[id].attestation = "Shipped"
    /\ intents[id].status = "Refunded" =>
         \/ intents[id].attestation = "Failed"
         \/ intents[id].attestation = "None" /\ now >= intents[id].deadline

(* Who an intent is for, as far as it is attested, and whether the asset   *)
(* contract would carry its money there.                                   *)
Beneficiary(id) ==
  IF intents[id].attestation = "Shipped" THEN intents[id].supplier ELSE intents[id].sme

Deliverable(id) == LinesOpen(intents[id].token, Contract, Beneficiary(id))

(* Only the asset contract can hold an intent back: once attested or past  *)
(* its deadline, one call settles it, the token transfer included, unless  *)
(* the line of the vault or of the one it is for is closed.  Then nothing  *)
(* settles it: a shipped intent is not refunded, whatever its deadline.    *)
FundsRecoverable ==
  \A id \in 1..counter :
    /\ intents[id].status = "Funded"
    /\ intents[id].attestation # "None" \/ now >= intents[id].deadline
    => (Releasable(id) \/ Refundable(id) <=> Deliverable(id))

(* The terms of an intent never change, an attestation is written once and *)
(* stands even if its oracle is removed, a final status is final.          *)
IntentWriteOnce ==
  \A id \in 1..counter :
    /\ intents'[id] = [intents[id] EXCEPT !.status = intents'[id].status,
                                          !.attestation = intents'[id].attestation]
    /\ intents[id].attestation # "None" =>
         intents'[id].attestation = intents[id].attestation
    /\ intents[id].status # "Funded" => intents'[id] = intents[id]

WriteOnce == [][IntentWriteOnce]_escrowVars

(***************************************************************************)
(* The contract implements Settlement: the vault, the registry and the     *)
(* clock are forgotten, a wallet is an account's balance.                  *)
(***************************************************************************)
EvidenceOf(attestation) ==
  IF attestation = "None" THEN "none"
  ELSE IF attestation = "Shipped" THEN "delivered" ELSE "failed"

StateOf(status) ==
  IF status = "Funded" THEN "locked"
  ELSE IF status = "Released" THEN "paid" ELSE "returned"

DealOf(intent) ==
  [payer |-> intent.sme, payee |-> intent.supplier,
   currency |-> intent.token, sum |-> intent.amount,
   evidence |-> EvidenceOf(intent.attestation), state |-> StateOf(intent.status)]

DealsOf == [id \in 1..counter |-> DealOf(intents[id])]

WalletsOf == [t \in Tokens |-> [a \in Accounts |-> balance[t][a]]]

Promise == INSTANCE Settlement WITH
  Parties <- Accounts, Currencies <- Tokens, Sums <- Amounts,
  MaxDeals <- MaxIntents,
  deals <- counter, deal <- DealsOf, wallet <- WalletsOf

(* Every behaviour of the contract is one of the settlement it promises.   *)
ImplementsSettlement == Promise!SettlementSpec

(***************************************************************************)
(* Liveness needs someone to call: release and refund are open to anyone,  *)
(* so whoever is owed the money is assumed to call once it can be had.     *)
(* The ledger keeps closing; every deadline lies within MaxTime.           *)
(***************************************************************************)
EscrowFairness ==
  /\ WF_escrowVars(Tick)
  /\ \A id \in 1..MaxIntents :
       /\ WF_escrowVars(id <= counter /\ release(id))
       /\ WF_escrowVars(id <= counter /\ refund(id))

FairEscrowSpec == EscrowSpec /\ EscrowFairness

(* Every intent ends Released or Refunded, though oracles come and go and  *)
(* may never attest, unless the asset contract keeps refusing the one it   *)
(* is for: it is enough that from some time on it no longer does.          *)
EveryIntentSettles ==
  \A id \in 1..MaxIntents :
    <>[](id <= counter /\ Deliverable(id))
      => <>(id <= counter /\ intents[id].status # "Funded")

=============================================================================
