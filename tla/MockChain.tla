------------------------------ MODULE MockChain ------------------------------
(***************************************************************************)
(* The test double of the escrow contract, lumo/chain/mock_chain.py, run   *)
(* in lockstep with the contract (module Escrow): the same calls go to     *)
(* both, those the contract refuses included, and the double's clock,      *)
(* which tests set, is the ledger's.                                       *)
(*                                                                         *)
(* The double knows no oracle registry, no sign of an amount and no lines, *)
(* and it takes a second attestation as calmly as a first: AnswersAgree    *)
(* names the calls the two answer differently.  The lockstep stops short   *)
(* of those the double would act upon, for there the two part.             *)
(***************************************************************************)
EXTENDS Escrow, FiniteSets

VARIABLE mock  \* MockChainAdapter: its intents and balances

mockVars == <<escrowVars, mock>>

(* Tests fund every account they use (a transfer of nothing out of one     *)
(* that never had an entry is a KeyError); ESCROW_VAULT is `Contract'.     *)
MockInit == mock = [intents |-> << >>, balances |-> balance]

CanMove(token, src, amount) == mock.balances[token][src] >= amount

Moved(token, src, dst, amount) ==
  [mock.balances EXCEPT ![token][src] = @ - amount, ![token][dst] = @ + amount]

(* Broken: an intent is looked up, its status is not.                      *)
Funded_any_status(id) == id \in DOMAIN mock.intents

Funded(id) == id \in DOMAIN mock.intents /\ mock.intents[id].status = "Funded"

(* A call that raises leaves the double as it was.                         *)
mock_create_intent(sme, supplier, token, amount, request_hash, deadline) ==
  IF ~CanMove(token, sme, amount) THEN mock
  ELSE [balances |-> Moved(token, sme, Contract, amount),
        intents |->
          [id \in 1..Cardinality(DOMAIN mock.intents) + 1 |->
             IF id \in DOMAIN mock.intents
             THEN mock.intents[id]
             ELSE [sme |-> sme, supplier |-> supplier, token |-> token,
                   amount |-> amount, request_hash |-> request_hash,
                   deadline |-> deadline, status |-> "Funded",
                   attestation |-> "None"]]]

(* Broken: the last attestation wins.                                      *)
mock_attest_overwriting(id, kind) ==
  IF Funded(id) THEN [mock EXCEPT !.intents[id].attestation = kind] ELSE mock

(* A second attestation is not refused, as the contract does, but ignored. *)
mock_attest(id, kind) ==
  IF Funded(id) /\ mock.intents[id].attestation = "None"
  THEN [mock EXCEPT !.intents[id].attestation = kind]
  ELSE mock

mock_Releasable(id) ==
  LET i == mock.intents[id] IN
  /\ Funded(id) /\ i.attestation = "Shipped"
  /\ CanMove(i.token, Contract, i.amount)

mock_release(id) ==
  LET i == mock.intents[id] IN
  IF mock_Releasable(id)
  THEN [intents |-> [mock.intents EXCEPT ![id].status = "Released"],
        balances |-> Moved(i.token, Contract, i.supplier, i.amount)]
  ELSE mock

mock_Refundable(id) ==
  LET i == mock.intents[id] IN
  /\ Funded(id) /\ i.attestation # "Shipped"
  /\ i.attestation = "Failed" \/ now >= i.deadline
  /\ CanMove(i.token, Contract, i.amount)

mock_refund(id) ==
  LET i == mock.intents[id] IN
  IF mock_Refundable(id)
  THEN [intents |-> [mock.intents EXCEPT ![id].status = "Refunded"],
        balances |-> Moved(i.token, Contract, i.sme, i.amount)]
  ELSE mock

-----------------------------------------------------------------------------
(***************************************************************************)
(* What the contract looks at and the double does not.                     *)
(***************************************************************************)
OddTransfer(token, from, to, amount) == amount < 0 \/ ~LinesOpen(token, from, to)

OddRelease(id) ==
  LET i == intents[id] IN OddTransfer(i.token, Contract, i.supplier, i.amount)

OddRefund(id) ==
  LET i == intents[id] IN OddTransfer(i.token, Contract, i.sme, i.amount)

Attestable(id, oracle) ==
  /\ oracle \in oracles
  /\ intents[id].status = "Funded" /\ intents[id].attestation = "None"

(* A refused call changes nothing at the contract.                         *)
Refused(succeeds) == ~succeeds /\ UNCHANGED escrowVars

CreateBoth ==
  \E sme, supplier \in Accounts, token \in Tokens, amount \in Amounts,
     request_hash \in Hashes, deadline \in Deadlines :
    /\ counter < MaxIntents
    /\ ~OddTransfer(token, sme, Contract, amount)
    /\ \/ create_intent(sme, supplier, token, amount, request_hash, deadline)
       \/ Refused(CanTransfer(token, sme, Contract, amount))
    /\ mock' = mock_create_intent(sme, supplier, token, amount, request_hash, deadline)

(* A second attestation, which both leave without effect, may be anyone's. *)
AttestBoth(id) ==
  \E o \in Oracles, kind \in AttestKind :
    /\ o \in oracles \/ intents[id].attestation # "None"
    /\ attest(id, o, kind) \/ Refused(Attestable(id, o))
    /\ mock' = mock_attest(id, kind)

ReleaseBoth(id) ==
  /\ ~OddRelease(id)
  /\ release(id) \/ Refused(Releasable(id))
  /\ mock' = mock_release(id)

RefundBoth(id) ==
  /\ ~OddRefund(id)
  /\ refund(id) \/ Refused(Refundable(id))
  /\ mock' = mock_refund(id)

Registry == \E o \in Oracles : add_oracle(o) \/ remove_oracle(o)

(* A test books a transfer past create_intent with two calls of            *)
(* MockChainAdapter.fund.                                                  *)
FundBoth ==
  \E token \in Tokens, from \in Accounts, amount \in Amounts :
    /\ StrayTransfer(token, from, amount)
    /\ mock' = [mock EXCEPT !.balances = Moved(token, from, Contract, amount)]

LockstepInit == EscrowInit /\ MockInit

LockstepNext ==
  \/ CreateBoth
  \/ \E id \in 1..counter : AttestBoth(id) \/ ReleaseBoth(id) \/ RefundBoth(id)
  \/ Registry /\ UNCHANGED mock
  \/ FundBoth
  \/ Ledger /\ UNCHANGED mock

LockstepSpec == LockstepInit /\ [][LockstepNext]_mockVars

FairLockstepSpec == LockstepSpec /\ EscrowFairness

(* A flow tested on the double leaves the state it would leave on the      *)
(* contract: after any calls, refused ones and second attestations         *)
(* included, that do not send a negative amount or through a closed line   *)
(* and whose first attestation is a registered oracle's, both hold the     *)
(* same intents and the same balances, token by token.                     *)
MockAgrees == mock = [intents |-> intents, balances |-> balance]

(* The double refuses nothing the contract would do, and where it accepts  *)
(* what the contract refuses, the caller either sent a negative amount or  *)
(* through a closed line, or attested without being registered or a second *)
(* time: in every state, for every call that can be made.                  *)
Answers(contract, double, odd) ==
  /\ contract => double
  /\ double => contract \/ odd

AnswersAgree ==
  /\ \A sme \in Accounts, token \in Tokens, amount \in Amounts :
       Answers(CanTransfer(token, sme, Contract, amount), CanMove(token, sme, amount),
               OddTransfer(token, sme, Contract, amount))
  /\ \A id \in 1..counter :
       /\ \A o \in Oracles :
            Answers(Attestable(id, o), Funded(id),
                    o \notin oracles \/ intents[id].attestation # "None")
       /\ Answers(Releasable(id), mock_Releasable(id), OddRelease(id))
       /\ Answers(Refundable(id), mock_Refundable(id), OddRefund(id))
=============================================================================
