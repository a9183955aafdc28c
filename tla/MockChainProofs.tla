-------------------------- MODULE MockChainProofs --------------------------
(***************************************************************************)
(* The test double leaves the contract's state and, but for the calls that *)
(* AnswersAgree names, gives the contract's answers, for every set of      *)
(* accounts, tokens, amounts and deadlines: MockAgrees is inductive once   *)
(* the contract's intents and balances have their types, and the answers   *)
(* follow from it.                                                         *)
(***************************************************************************)
EXTENDS MockChain, EscrowProofs, FiniteSetTheorems

LEMMA LockstepStepsEscrow ==
  ASSUME EscrowTypeOK, [LockstepNext]_mockVars
  PROVE  [EscrowNext]_escrowVars
<1>1. CASE CreateBoth
  BY <1>1 DEF CreateBoth, Refused, EscrowNext, Create
<1>2. ASSUME NEW id \in 1..counter, AttestBoth(id)
      PROVE  \/ \E o \in Oracles, kind \in AttestKind : attest(id, o, kind)
             \/ UNCHANGED escrowVars
  BY <1>2 DEF AttestBoth, Refused, EscrowTypeOK
<1>3. ASSUME NEW id \in 1..counter, ReleaseBoth(id) \/ RefundBoth(id)
      PROVE  release(id) \/ refund(id) \/ UNCHANGED escrowVars
  BY <1>3 DEF ReleaseBoth, RefundBoth, Refused
<1>4. CASE FundBoth \/ Registry \/ Ledger \/ UNCHANGED mockVars
  BY <1>4 DEF FundBoth, Registry, EscrowNext, mockVars
<1> QED
  BY <1>1, <1>2, <1>3, <1>4 DEF LockstepNext, EscrowNext

(* What the two see of an intent, and whether each would move its money.   *)
LEMMA SameView ==
  ASSUME EscrowTypeOK, MockAgrees
  PROVE  /\ mock.intents = intents /\ mock.balances = balance
         /\ DOMAIN mock.intents = 1..counter
         /\ \A id \in 1..counter :
              /\ Funded(id) <=> intents[id].status = "Funded"
              /\ intents[id].attestation \in {"None", "Shipped", "Failed"}
         /\ \A token, from, to, amount :
              /\ CanTransfer(token, from, to, amount) => CanMove(token, from, amount)
              /\ /\ CanMove(token, from, amount)
                 /\ balance[token][from] \in Nat /\ amount \in Int
                 => \/ CanTransfer(token, from, to, amount)
                    \/ OddTransfer(token, from, to, amount)
         /\ \A token, src, dst, amount :
              Moved(token, src, dst, amount) = Transferred(token, src, dst, amount)
<1>1. mock.intents = intents /\ mock.balances = balance /\ DOMAIN mock.intents = 1..counter
  BY DEF MockAgrees, EscrowTypeOK
<1>2. ASSUME NEW id \in 1..counter
      PROVE  /\ Funded(id) <=> intents[id].status = "Funded"
             /\ intents[id].attestation \in {"None", "Shipped", "Failed"}
  BY <1>1 DEF Funded, EscrowTypeOK, Intent, Attestation, AttestKind
<1>3. ASSUME NEW token, NEW from, NEW to, NEW amount, CanTransfer(token, from, to, amount)
      PROVE  CanMove(token, from, amount)
  BY <1>1, <1>3 DEF CanTransfer, CanMove
<1>4. ASSUME NEW token, NEW from, NEW to, NEW amount \in Int,
             balance[token][from] \in Nat, CanMove(token, from, amount),
             ~OddTransfer(token, from, to, amount)
      PROVE  CanTransfer(token, from, to, amount)
  BY <1>1, <1>4 DEF CanTransfer, CanMove, OddTransfer
<1>5. \A token, src, dst, amount :
        Moved(token, src, dst, amount) = Transferred(token, src, dst, amount)
  BY <1>1 DEF Moved, Transferred
<1> QED
  BY <1>1, <1>2, <1>3, <1>4, <1>5

(* The vault's transfers that release and refund make are of legal amounts.*)
LEMMA VaultMoves ==
  ASSUME EscrowTypeOK, MockAgrees, NEW id \in 1..counter, NEW to,
         ~OddTransfer(intents[id].token, Contract, to, intents[id].amount)
  PROVE  CanTransfer(intents[id].token, Contract, to, intents[id].amount)
           <=> CanMove(intents[id].token, Contract, intents[id].amount)
<1>1. intents[id].token \in Tokens /\ intents[id].amount \in Int
  BY EscrowAssumption DEF EscrowTypeOK, Intent
<1>2. balance[intents[id].token][Contract] \in Nat
  BY <1>1 DEF EscrowTypeOK, Holders
<1> QED
  BY <1>1, <1>2, SameView

LEMMA SameVerdicts ==
  ASSUME EscrowTypeOK, MockAgrees, NEW id \in 1..counter
  PROVE  /\ mock.intents[id] = intents[id]
         /\ Releasable(id) => mock_Releasable(id)
         /\ mock_Releasable(id) => Releasable(id) \/ OddRelease(id)
         /\ Refundable(id) => mock_Refundable(id)
         /\ mock_Refundable(id) => Refundable(id) \/ OddRefund(id)
<1>1. /\ mock.intents[id] = intents[id]
      /\ Funded(id) <=> intents[id].status = "Funded"
      /\ intents[id].attestation \in {"None", "Shipped", "Failed"}
  BY SameView
<1>2. \A to : CanTransfer(intents[id].token, Contract, to, intents[id].amount)
               => CanMove(intents[id].token, Contract, intents[id].amount)
  BY SameView
<1>3. Releasable(id) => mock_Releasable(id)
  BY <1>1, <1>2 DEF Releasable, mock_Releasable
<1>4. mock_Releasable(id) /\ ~OddRelease(id) => Releasable(id)
  BY <1>1, VaultMoves DEF OddRelease, Releasable, mock_Releasable
<1>5. Refundable(id) => mock_Refundable(id)
  BY <1>1, <1>2 DEF Refundable, mock_Refundable
<1>6. mock_Refundable(id) /\ ~OddRefund(id) => Refundable(id)
  BY <1>1, VaultMoves DEF OddRefund, Refundable, mock_Refundable
<1> QED
  BY <1>1, <1>3, <1>4, <1>5, <1>6

LEMMA AnswersFollow ==
  ASSUME EscrowTypeOK, MockAgrees
  PROVE  AnswersAgree
<1>1. ASSUME NEW sme \in Accounts, NEW token \in Tokens, NEW amount \in Amounts
      PROVE  Answers(CanTransfer(token, sme, Contract, amount),
                     CanMove(token, sme, amount),
                     OddTransfer(token, sme, Contract, amount))
  <2>1. balance[token][sme] \in Nat /\ amount \in Int
    BY EscrowAssumption DEF EscrowTypeOK, Holders
  <2> QED
    BY <2>1, SameView DEF Answers
<1>2. ASSUME NEW id \in 1..counter, NEW o \in Oracles
      PROVE  Answers(Attestable(id, o), Funded(id),
                     o \notin oracles \/ intents[id].attestation # "None")
  BY SameView DEF Answers, Attestable
<1>3. ASSUME NEW id \in 1..counter
      PROVE  /\ Answers(Releasable(id), mock_Releasable(id), OddRelease(id))
             /\ Answers(Refundable(id), mock_Refundable(id), OddRefund(id))
  BY SameVerdicts DEF Answers
<1> QED
  BY <1>1, <1>2, <1>3 DEF AnswersAgree

(* Every step of the lockstep leaves the two in agreement.                 *)
LEMMA AgreesNext ==
  ASSUME EscrowTypeOK, MockAgrees, [LockstepNext]_mockVars
  PROVE  MockAgrees'
<1>0. /\ counter \in Nat /\ intents \in [1..counter -> Intent]
      /\ balance \in [Tokens -> [Holders -> Nat]]
      /\ mock.intents = intents /\ mock.balances = balance
      /\ DOMAIN mock.intents = 1..counter
      /\ mock = [intents |-> intents, balances |-> balance]
  BY DEF EscrowTypeOK, MockAgrees
<1>1. CASE UNCHANGED <<intents, balance, mock>>
  BY <1>0, <1>1 DEF MockAgrees
<1>2. ASSUME NEW sme \in Accounts, NEW supplier \in Accounts, NEW token \in Tokens,
             NEW amount \in Amounts, NEW request_hash, NEW deadline,
             counter < MaxIntents, ~OddTransfer(token, sme, Contract, amount),
             \/ create_intent(sme, supplier, token, amount, request_hash, deadline)
             \/ Refused(CanTransfer(token, sme, Contract, amount)),
             mock' = mock_create_intent(sme, supplier, token, amount, request_hash, deadline)
      PROVE  MockAgrees'
  <2>1. balance[token][sme] \in Nat /\ amount \in Int
    BY <1>0, EscrowAssumption DEF Holders
  <2>2. CanMove(token, sme, amount) <=> CanTransfer(token, sme, Contract, amount)
    BY <1>2, <2>1, SameView
  <2>3. Cardinality(DOMAIN mock.intents) = counter
    BY <1>0, FS_Interval
  <2>4. Moved(token, sme, Contract, amount) = Transferred(token, sme, Contract, amount)
    BY SameView
  <2>5. CASE create_intent(sme, supplier, token, amount, request_hash, deadline)
    BY <1>0, <1>2, <2>2, <2>3, <2>4, <2>5 DEF create_intent, mock_create_intent, MockAgrees
  <2>6. CASE Refused(CanTransfer(token, sme, Contract, amount))
    <3>1. mock' = mock
      BY <1>2, <2>2, <2>6 DEF Refused, mock_create_intent
    <3> QED
      BY <1>1, <2>6, <3>1 DEF Refused, escrowVars
  <2> QED
    BY <1>2, <2>5, <2>6
<1>3. ASSUME NEW id \in 1..counter, AttestBoth(id) PROVE MockAgrees'
  <2>1. PICK o \in Oracles, kind \in AttestKind :
          /\ o \in oracles \/ intents[id].attestation # "None"
          /\ attest(id, o, kind) \/ Refused(Attestable(id, o))
          /\ mock' = mock_attest(id, kind)
    BY <1>3 DEF AttestBoth
  <2>2. Funded(id) <=> intents[id].status = "Funded"
    BY SameView
  <2>3. CASE attest(id, o, kind)
    BY <1>0, <2>1, <2>2, <2>3 DEF attest, mock_attest, MockAgrees
  <2>4. CASE Refused(Attestable(id, o))
    <3>1. mock' = mock
      BY <1>0, <2>1, <2>2, <2>4 DEF Refused, Attestable, mock_attest
    <3> QED
      BY <1>1, <2>4, <3>1 DEF Refused, escrowVars
  <2> QED
    BY <2>1, <2>3, <2>4
<1>4. ASSUME NEW id \in 1..counter, ReleaseBoth(id) PROVE MockAgrees'
  <2>1. mock_Releasable(id) <=> Releasable(id)
    BY <1>4, SameVerdicts DEF ReleaseBoth
  <2>2. CASE release(id)
    <3>1. Releasable(id)
      BY <2>2 DEF release
    <3>2. mock.intents[id] = intents[id]
      BY <1>0
    <3>3. Moved(intents[id].token, Contract, intents[id].supplier, intents[id].amount)
            = Transferred(intents[id].token, Contract, intents[id].supplier, intents[id].amount)
      BY SameView
    <3>4. mock' = [intents |-> [intents EXCEPT ![id].status = "Released"],
                   balances |-> Transferred(intents[id].token, Contract,
                                            intents[id].supplier, intents[id].amount)]
      BY <1>0, <1>4, <2>1, <3>1, <3>2, <3>3 DEF ReleaseBoth, mock_release
    <3> QED
      BY <2>2, <3>4 DEF release, MockAgrees
  <2>3. CASE Refused(Releasable(id))
    <3>1. mock' = mock
      BY <1>4, <2>1, <2>3 DEF ReleaseBoth, Refused, mock_release
    <3> QED
      BY <1>1, <2>3, <3>1 DEF Refused, escrowVars
  <2> QED
    BY <1>4, <2>2, <2>3 DEF ReleaseBoth
<1>5. ASSUME NEW id \in 1..counter, RefundBoth(id) PROVE MockAgrees'
  <2>1. mock_Refundable(id) <=> Refundable(id)
    BY <1>5, SameVerdicts DEF RefundBoth
  <2>2. CASE refund(id)
    <3>1. Refundable(id)
      BY <2>2 DEF refund
    <3>2. mock.intents[id] = intents[id]
      BY <1>0
    <3>3. Moved(intents[id].token, Contract, intents[id].sme, intents[id].amount)
            = Transferred(intents[id].token, Contract, intents[id].sme, intents[id].amount)
      BY SameView
    <3>4. mock' = [intents |-> [intents EXCEPT ![id].status = "Refunded"],
                   balances |-> Transferred(intents[id].token, Contract,
                                            intents[id].sme, intents[id].amount)]
      BY <1>0, <1>5, <2>1, <3>1, <3>2, <3>3 DEF RefundBoth, mock_refund
    <3> QED
      BY <2>2, <3>4 DEF refund, MockAgrees
  <2>3. CASE Refused(Refundable(id))
    <3>1. mock' = mock
      BY <1>5, <2>1, <2>3 DEF RefundBoth, Refused, mock_refund
    <3> QED
      BY <1>1, <2>3, <3>1 DEF Refused, escrowVars
  <2> QED
    BY <1>5, <2>2, <2>3 DEF RefundBoth
<1>6. CASE FundBoth
  <2>1. PICK token \in Tokens, from \in Accounts, amount \in Amounts :
          /\ StrayTransfer(token, from, amount)
          /\ mock' = [mock EXCEPT !.balances = Moved(token, from, Contract, amount)]
    BY <1>6 DEF FundBoth
  <2>2. Moved(token, from, Contract, amount) = Transferred(token, from, Contract, amount)
    BY SameView
  <2> QED
    BY <1>0, <2>1, <2>2 DEF StrayTransfer, MockAgrees
<1>7. CASE (Registry \/ Ledger) /\ UNCHANGED mock
  BY <1>1, <1>7 DEF Registry, add_oracle, remove_oracle, Ledger, Tick, ChangeLine
<1>8. CASE UNCHANGED mockVars
  BY <1>1, <1>8 DEF mockVars, escrowVars
<1>9. CASE CreateBoth
  BY <1>2, <1>9 DEF CreateBoth
<1> QED
  BY <1>3, <1>4, <1>5, <1>6, <1>7, <1>8, <1>9 DEF LockstepNext

(* A flow tested on the double leaves the state it would leave on the      *)
(* contract, refused calls and second attestations included.               *)
THEOREM LockstepAgrees == LockstepSpec => []MockAgrees
<1>1. LockstepInit => EscrowTypeOK /\ MockAgrees
  BY InitTyped DEF LockstepInit, MockInit, EscrowInit, Deployed, MockAgrees
<1>2. EscrowTypeOK /\ MockAgrees /\ [LockstepNext]_mockVars
        => (EscrowTypeOK /\ MockAgrees)'
  BY LockstepStepsEscrow, NextTyped, AgreesNext
<1> QED
  BY <1>1, <1>2, PTL DEF LockstepSpec

(* As long as they are in lockstep, the double refuses nothing that the    *)
(* contract would do, and what it accepts beyond that are negative         *)
(* amounts, closed lines, attestations by anyone and second attestations.  *)
THEOREM LockstepAnswers == LockstepSpec => []AnswersAgree
<1>1. LockstepInit => EscrowTypeOK
  BY InitTyped DEF LockstepInit
<1>2. EscrowTypeOK /\ [LockstepNext]_mockVars => EscrowTypeOK'
  BY LockstepStepsEscrow, NextTyped
<1> QED
  BY <1>1, <1>2, AnswersFollow, LockstepAgrees, PTL DEF LockstepSpec
=============================================================================
