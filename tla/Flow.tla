-------------------------------- MODULE Flow --------------------------------
(***************************************************************************)
(* How Lumo moves money: lumo/flow.py over the local database (lumo/db)    *)
(* and the escrow contract, with lumo/chain/mapper.py reconciling the two. *)
(*                                                                         *)
(* Each `lumo execute/attest/release/revert/sync' is an OS process of its  *)
(* own.  Every database statement is committed by itself and every chain   *)
(* call is a round trip, so a process is a sequence of steps, any process  *)
(* may step between two of them, and it may die between any two of them.   *)
(* A step that only reads the chain id joins the chain call after it: the  *)
(* id of a row never changes (ChainIdWrittenOnce).                         *)
(***************************************************************************)
EXTENDS Escrow, FiniteSets, Sequences

CONSTANTS Procs,     \* processes running at the same time
          Jobs,      \* local intents; a job is also its request_hash (UNIQUE)
          Terms,     \* Terms[j]: supplier, token, amount, deadline of the row
          Sme,       \* config.sme_smart_account or rules["sme_address"]
          Signers,   \* the local signers; sdk.attest falls back on one
          Local,     \* is config.oracle_adapter set to "local"?
          K,         \* distinct Shipped attestations a release needs
          Clients,   \* how create_intent is sent: "smart_account", "cli"
          Lossy,     \* may an error after the tx left look like one before?
          NoId,      \* chain_intent_id IS NULL
          MaxSent    \* bound on the transactions ever submitted

ASSUME FlowAssumption ==
  /\ Jobs \subseteq Hashes
  /\ Terms \in [Jobs -> [supplier : Accounts, token : Tokens,
                         amount : Amounts \cap Nat, deadline : Deadlines]]
  /\ Sme \in Accounts
  /\ Signers # {} /\ IsFiniteSet(Signers)
  /\ Local \in BOOLEAN
  /\ K \in Nat
  /\ Clients \subseteq {"smart_account", "cli"}
  /\ Lossy \in BOOLEAN
  /\ NoId \notin Nat
  /\ MaxSent \in Nat

VARIABLES row,        \* table intents: status and chain_intent_id of each job
          attested,   \* table attestations: <<job, oracle_address, kind>>
          decisions,  \* table decisions, as far as execute and sync write it
          payouts,    \* table anchor_payouts: how many rows a job has
          pointers,   \* table chain_txs: jobs with a create_intent tx_hash
          bare,       \* table chain_txs: jobs with a create_intent row whose
                      \* tx_hash is NULL
          sent,       \* create_intent transactions handed to the network
          proc,       \* what each process is about to do
          misled,     \* history: jobs told of a failure before their tx's end
          orphaned    \* history: jobs whose executor died with a transaction
                      \* that chain_txs does not have

dbVars == <<row, attested, decisions, payouts, pointers, bare>>
historyVars == <<misled, orphaned>>
flowVars == <<dbVars, sent, proc, historyVars, escrowVars>>

RowStatus == {"proposed", "escrowed", "released", "reverted"}

(* What becomes of a submitted transaction: it waits, it is applied with   *)
(* success or with failure, or it times out without entering the ledger.   *)
TxState == {"pending", "landed", "failed", "expired"}

Idle == [pc |-> "idle", job |-> NoId, tx |-> 0, copy |-> "", todo |-> {},
         after |-> "idle"]

(* Where execute knows of a transaction that neither chain_txs nor the row *)
(* need have yet.                                                          *)
HoldingTx == {"poll", "invoke", "unconfirmed", "record_tx", "record_bare", "set_chain"}

Steps == {"idle", "submit", "poll", "invoke", "unclaim", "unconfirmed",
          "record_tx", "record_bare", "set_chain", "confirm", "approve",
          "submit_attestations", "sync_read", "sync_chain", "sync_write", "cash_out"}

FlowTypeOK ==
  /\ EscrowTypeOK
  /\ row \in [Jobs -> [status : RowStatus, chain_intent_id : 1..MaxIntents \cup {NoId}]]
  /\ attested \subseteq Jobs \X Signers \X AttestKind
  /\ decisions \subseteq Jobs \X {"approved", "reverted"}
  /\ payouts \in [Jobs -> Nat]
  /\ pointers \subseteq Jobs /\ bare \subseteq Jobs
  /\ \E n \in 0..MaxSent :
       sent \in [1..n -> [job : Jobs, state : TxState, id : 0..MaxIntents]]
  /\ proc \in [Procs -> [pc : Steps, job : Jobs \cup {NoId}, tx : 0..MaxSent,
                         copy : RowStatus \cup AttestKind \cup {""},
                         todo : SUBSET Signers, after : {"idle", "cash_out"}]]
  /\ misled \subseteq Jobs /\ orphaned \subseteq Jobs

FlowInit ==
  /\ Deployed(Oracles)
  /\ row = [j \in Jobs |-> [status |-> "proposed", chain_intent_id |-> NoId]]
  /\ attested = {}
  /\ decisions = {}
  /\ payouts = [j \in Jobs |-> 0]
  /\ pointers = {} /\ bare = {}
  /\ sent = << >>
  /\ proc = [p \in Procs |-> Idle]
  /\ misled = {} /\ orphaned = {}

-----------------------------------------------------------------------------
(* The program counter of p, and its next step.                            *)
At(p, pc) == proc[p].pc = pc
Goto(p, pc) == proc' = [proc EXCEPT ![p].pc = pc]
Finish(p) == proc' = [proc EXCEPT ![p] = Idle]
Start(p, j, pc) ==
  /\ At(p, "idle")
  /\ proc' = [proc EXCEPT ![p] = [Idle EXCEPT !.pc = pc, !.job = j]]

Job(p) == proc[p].job
ChainId(j) == row[j].chain_intent_id
OnChain(j) == ChainId(j) # NoId

(* Broken: the two final statuses are swapped.                             *)
Mapped_swapped(status) ==
  CASE status = "Funded" -> "escrowed"
    [] status = "Released" -> "reverted"
    [] status = "Refunded" -> "released"

(* get_status, translated by mapper.CHAIN_TO_LOCAL.                        *)
Mapped(status) ==
  CASE status = "Funded" -> "escrowed"
    [] status = "Released" -> "released"
    [] status = "Refunded" -> "reverted"

(***************************************************************************)
(* flow.execute                                                            *)
(***************************************************************************)

(* Broken: the UPDATE of claim_escrow has lost its condition.              *)
execute_unclaimed(p, j) ==
  /\ Start(p, j, "submit")
  /\ row' = [row EXCEPT ![j].status = "escrowed"]
  /\ UNCHANGED <<attested, decisions, payouts, pointers, bare, sent, historyVars, escrowVars>>

(* repo.claim_escrow: the conditional UPDATE; a row that is not proposed   *)
(* makes execute return without doing anything.                            *)
execute(p, j) ==
  /\ Start(p, j, "submit")
  /\ row[j].status = "proposed"
  /\ row' = [row EXCEPT ![j].status = "escrowed"]
  /\ UNCHANGED <<attested, decisions, payouts, pointers, bare, sent, historyVars, escrowVars>>

(* SorobanAdapter.create_intent: through the smart account, which polls by *)
(* itself, or through the CLI, whose subprocess submits and waits.         *)
Awaiting(client) == IF client = "smart_account" THEN "poll" ELSE "invoke"

(* client.create_intent up to send_transaction.                            *)
Submit(p) ==
  /\ At(p, "submit")
  /\ Len(sent) < MaxSent
  /\ sent' = Append(sent, [job |-> Job(p), state |-> "pending", id |-> 0])
  /\ \E client \in Clients :
       proc' = [proc EXCEPT ![p].pc = Awaiting(client), ![p].tx = Len(sent) + 1]
  /\ UNCHANGED <<dbVars, historyVars, escrowVars>>

(* Key, simulation or submission refused: nothing was sent.                *)
SubmitFails(p) ==
  /\ At(p, "submit")
  /\ Goto(p, "unclaim")
  /\ UNCHANGED <<dbVars, sent, historyVars, escrowVars>>

(* send_transaction raises although the transaction is on its way.         *)
SendRaises(p) ==
  /\ At(p, "submit")
  /\ Lossy /\ "smart_account" \in Clients
  /\ Len(sent) < MaxSent
  /\ sent' = Append(sent, [job |-> Job(p), state |-> "pending", id |-> 0])
  /\ misled' = misled \cup {Job(p)}
  /\ Goto(p, "unclaim")
  /\ UNCHANGED <<dbVars, orphaned, escrowVars>>

(* SorobanClient.invoke: a value once the transaction landed; or one and   *)
(* the same exception for one that never will land, for a subprocess that  *)
(* timed out or exited non-zero in between, and for unreadable output.     *)
(* The value comes with the last hash in stderr, or with none.             *)
Invoke(p) ==
  LET state == sent[proc[p].tx].state IN
  /\ At(p, "invoke")
  /\ \/ /\ state = "landed"
        /\ Goto(p, "record_tx") \/ Goto(p, "record_bare")
        /\ UNCHANGED misled
     \/ /\ state \in {"failed", "expired"}
        /\ Goto(p, "unclaim")
        /\ UNCHANGED misled
     \/ /\ Lossy /\ state \in {"pending", "landed"}
        /\ Goto(p, "unclaim")
        /\ misled' = misled \cup {Job(p)}
  /\ UNCHANGED <<dbVars, sent, orphaned, escrowVars>>

(* Broken: NOT_FOUND is taken for a rejection.                             *)
Poll_not_found_is_failed(p) ==
  /\ At(p, "poll")
  /\ IF sent[proc[p].tx].state = "landed" THEN Goto(p, "record_tx") ELSE Goto(p, "unclaim")
  /\ UNCHANGED <<dbVars, sent, historyVars, escrowVars>>

(* Broken: an accepted submission is taken for a confirmed one.            *)
Poll_pending_is_landed(p) ==
  /\ At(p, "poll")
  /\ IF sent[proc[p].tx].state = "failed" THEN Goto(p, "unclaim") ELSE Goto(p, "record_tx")
  /\ UNCHANGED <<dbVars, sent, historyVars, escrowVars>>

(* Broken: the chain id is stored and the transaction hash forgotten.      *)
Poll_no_pointer(p) ==
  /\ At(p, "poll")
  /\ sent[proc[p].tx].state = "landed" /\ Goto(p, "set_chain")
  /\ UNCHANGED <<dbVars, sent, historyVars, escrowVars>>

(* poll_transaction: a definite answer, or none (the poll timed out or     *)
(* raised, the return value was unreadable) whatever the ledger did.       *)
Poll(p) ==
  /\ At(p, "poll")
  /\ \/ sent[proc[p].tx].state = "landed" /\ Goto(p, "record_tx")
     \/ sent[proc[p].tx].state = "failed" /\ Goto(p, "unclaim")
     \/ Goto(p, "unconfirmed")
  /\ UNCHANGED <<dbVars, sent, historyVars, escrowVars>>

(* Broken: an unconfirmed submission reopens the row.                      *)
Unconfirmed_reopened(p) ==
  /\ At(p, "unconfirmed")
  /\ pointers' = pointers \cup {Job(p)}
  /\ row' = [row EXCEPT ![Job(p)].status = "proposed"]
  /\ Finish(p)
  /\ UNCHANGED <<attested, decisions, payouts, bare, sent, historyVars, escrowVars>>

(* Broken: the claim is kept, the hash is not.                             *)
Unconfirmed_unrecorded(p) ==
  /\ At(p, "unconfirmed")
  /\ Finish(p)
  /\ UNCHANGED <<dbVars, sent, historyVars, escrowVars>>

(* except ChainSubmittedUnconfirmed: keep the claim, keep the hash.        *)
Unconfirmed(p) ==
  /\ At(p, "unconfirmed")
  /\ pointers' = pointers \cup {Job(p)}
  /\ Finish(p)
  /\ UNCHANGED <<row, attested, decisions, payouts, bare, sent, historyVars, escrowVars>>

(* except Exception: repo.release_escrow_claim, a conditional UPDATE too.  *)
ReleaseClaim(p) ==
  /\ At(p, "unclaim")
  /\ row' = IF row[Job(p)].status = "escrowed" /\ ~OnChain(Job(p))
            THEN [row EXCEPT ![Job(p)].status = "proposed"]
            ELSE row
  /\ Finish(p)
  /\ UNCHANGED <<attested, decisions, payouts, pointers, bare, sent, historyVars, escrowVars>>

RecordTx(p) ==
  /\ At(p, "record_tx")
  /\ pointers' = pointers \cup {Job(p)}
  /\ Goto(p, "set_chain")
  /\ UNCHANGED <<row, attested, decisions, payouts, bare, sent, historyVars, escrowVars>>

(* add_chain_tx without a hash: a row of chain_txs that points nowhere.    *)
RecordBare(p) ==
  /\ At(p, "record_bare")
  /\ bare' = bare \cup {Job(p)}
  /\ Goto(p, "set_chain")
  /\ UNCHANGED <<row, attested, decisions, payouts, pointers, sent, historyVars, escrowVars>>

SetChainIntent(p) ==
  /\ At(p, "set_chain")
  /\ row' = [row EXCEPT ![Job(p)].chain_intent_id = sent[proc[p].tx].id]
  /\ Goto(p, "confirm")
  /\ UNCHANGED <<attested, decisions, payouts, pointers, bare, sent, historyVars, escrowVars>>

(* The confirmation read: a status other than Funded raises ChainError.    *)
Confirm(p) ==
  /\ At(p, "confirm")
  /\ IF intents[sent[proc[p].tx].id].status = "Funded"
     THEN Goto(p, "approve")
     ELSE Finish(p)
  /\ UNCHANGED <<dbVars, sent, historyVars, escrowVars>>

(* repo.record_decision("approved"): an UPDATE without a condition.        *)
Approve(p) ==
  /\ At(p, "approve")
  /\ row' = [row EXCEPT ![Job(p)].status = "escrowed"]
  /\ decisions' = decisions \cup {<<Job(p), "approved">>}
  /\ Finish(p)
  /\ UNCHANGED <<attested, payouts, pointers, bare, sent, historyVars, escrowVars>>

(***************************************************************************)
(* flow.attest: the chain first, then the rows of the local signers, each  *)
(* committed by itself.  sdk.LumoClient.attest writes the rows only.       *)
(***************************************************************************)
Submission(p, j, kind, signers) ==
  /\ At(p, "idle")
  /\ proc' = IF signers = {} THEN proc
             ELSE [proc EXCEPT ![p] = [Idle EXCEPT !.pc = "submit_attestations",
                                       !.job = j, !.copy = kind, !.todo = signers]]

(* build_oracle, which returns None without an adapter.                    *)
build_oracle == IF Local THEN Signers ELSE {}

flow_attest(p, j, kind) ==
  /\ OnChain(j)
  /\ Submission(p, j, kind, build_oracle)
  /\ \E o \in Oracles : attest(ChainId(j), o, kind)
  /\ UNCHANGED <<dbVars, historyVars, sent>>

sdk_attest(p, j, kind) ==
  /\ Submission(p, j, kind, Signers)
  /\ UNCHANGED <<dbVars, sent, historyVars, escrowVars>>

SubmitAttestation(p) ==
  /\ At(p, "submit_attestations")
  /\ \E signer \in proc[p].todo :
       LET rest == proc[p].todo \ {signer} IN
       /\ attested' = attested \cup {<<Job(p), signer, proc[p].copy>>}
       /\ IF rest = {} THEN Finish(p) ELSE proc' = [proc EXCEPT ![p].todo = rest]
  /\ UNCHANGED <<row, decisions, payouts, pointers, bare, sent, historyVars, escrowVars>>

(***************************************************************************)
(* flow.release and flow.revert: the contract's call, then a sync; release *)
(* goes on to cash out if the sync says released.                          *)
(***************************************************************************)
(* Broken: attestations count, whatever they say.                          *)
Shipped_any_kind(j) ==
  {o \in Signers : \E kind \in AttestKind : <<j, o, kind>> \in attested}

Shipped(j) == {o \in Signers : <<j, o, "Shipped">> \in attested}

(* pipeline.release_check; the rows it counts are never deleted, so the    *)
(* check still holds when the contract is called.                          *)
release_check(j) == Cardinality(Shipped(j)) >= K

flow_release(p, j) ==
  /\ OnChain(j)
  /\ release_check(j)
  /\ release(ChainId(j))
  /\ At(p, "idle")
  /\ proc' = [proc EXCEPT ![p] = [Idle EXCEPT !.pc = "sync_read", !.job = j,
                                              !.after = "cash_out"]]
  /\ UNCHANGED <<dbVars, historyVars, sent>>

flow_revert(p, j) ==
  /\ OnChain(j)
  /\ refund(ChainId(j))
  /\ Start(p, j, "sync_read")
  /\ UNCHANGED <<dbVars, historyVars, sent>>

(* anchor.mock_anchor.cash_out: reads the row again, and raises unless it  *)
(* says released.  Nothing makes a payout unique per intent.               *)
cash_out(p) ==
  /\ At(p, "cash_out")
  /\ payouts' = IF row[Job(p)].status = "released"
                THEN [payouts EXCEPT ![Job(p)] = @ + 1]
                ELSE payouts
  /\ Finish(p)
  /\ UNCHANGED <<row, attested, decisions, pointers, bare, sent, historyVars, escrowVars>>

(***************************************************************************)
(* mapper.sync_status: read the row, read the chain, write the row.        *)
(***************************************************************************)
sync(p, j) ==
  /\ OnChain(j)
  /\ Start(p, j, "sync_read")
  /\ UNCHANGED <<dbVars, sent, historyVars, escrowVars>>

SyncRead(p) ==
  /\ At(p, "sync_read")
  /\ proc' = [proc EXCEPT ![p].pc = "sync_chain", ![p].copy = row[Job(p)].status]
  /\ UNCHANGED <<dbVars, sent, historyVars, escrowVars>>

(* Broken: every sync that finds a released intent cashes it out.          *)
Return_cashing_out(p, mapped) ==
  IF mapped = "released" THEN Goto(p, "cash_out") ELSE Finish(p)

(* What sync_status returns to: flow.release cashes out a released intent. *)
Return(p, mapped) ==
  IF proc[p].after = "cash_out" /\ mapped = "released"
  THEN Goto(p, "cash_out")
  ELSE Finish(p)

SyncChain(p) ==
  LET mapped == Mapped(intents[ChainId(Job(p))].status) IN
  /\ At(p, "sync_chain")
  /\ IF mapped = proc[p].copy
     THEN Return(p, mapped)
     ELSE proc' = [proc EXCEPT ![p].pc = "sync_write", ![p].copy = mapped]
  /\ UNCHANGED <<dbVars, sent, historyVars, escrowVars>>

(* A node behind the ledger does not see the intent: sync_status returns   *)
(* what it read in the row.                                                *)
SyncUnseen(p) ==
  /\ At(p, "sync_chain")
  /\ Return(p, proc[p].copy)
  /\ UNCHANGED <<dbVars, sent, historyVars, escrowVars>>

(* Broken: a refund is audited and the row left as it was.                 *)
SyncWrite_audit_only(p) ==
  LET mapped == proc[p].copy IN
  /\ At(p, "sync_write")
  /\ row' = IF mapped = "reverted" THEN row ELSE [row EXCEPT ![Job(p)].status = mapped]
  /\ decisions' = decisions \cup (IF mapped = "reverted" THEN {<<Job(p), mapped>>} ELSE {})
  /\ Return(p, mapped)
  /\ UNCHANGED <<attested, payouts, pointers, bare, sent, historyVars, escrowVars>>

(* mark_released writes the status alone; the two others are decisions,    *)
(* approved for a chain that says Funded, reverted for one that refunded.  *)
SyncWrite(p) ==
  LET mapped == proc[p].copy IN
  /\ At(p, "sync_write")
  /\ row' = [row EXCEPT ![Job(p)].status = mapped]
  /\ decisions' = decisions \cup
       {<<Job(p), d>> : d \in CASE mapped = "escrowed" -> {"approved"}
                                [] mapped = "released" -> {}
                                [] mapped = "reverted" -> {"reverted"}}
  /\ Return(p, mapped)
  /\ UNCHANGED <<attested, payouts, pointers, bare, sent, historyVars, escrowVars>>

(* The process is killed, or an exception nobody handles ends it: an RPC   *)
(* read that fails, a database that stays locked.                          *)
Crash(p) ==
  /\ ~At(p, "idle")
  /\ Finish(p)
  /\ orphaned' = IF proc[p].pc \in HoldingTx /\ Job(p) \notin pointers
                 THEN orphaned \cup {Job(p)} ELSE orphaned
  /\ UNCHANGED <<dbVars, sent, misled, escrowVars>>

(***************************************************************************)
(* The network and the ledger.                                             *)
(***************************************************************************)
Land(n) ==
  /\ sent[n].state = "pending"
  /\ LET t == Terms[sent[n].job] IN
       create_intent(Sme, t.supplier, t.token, t.amount, sent[n].job, t.deadline)
  /\ sent' = [sent EXCEPT ![n].state = "landed", ![n].id = counter + 1]
  /\ UNCHANGED <<dbVars, historyVars, proc>>

(* Rejected by the ledger (policy account, no funds), or never included.   *)
NotLand(n) ==
  /\ sent[n].state = "pending"
  /\ \E s \in {"failed", "expired"} : sent' = [sent EXCEPT ![n].state = s]
  /\ UNCHANGED <<dbVars, historyVars, proc, escrowVars>>

(* An oracle may attest, and anybody may release or refund, past Lumo.     *)
Outsider ==
  /\ \E id \in 1..counter :
       \/ \E o \in Oracles, kind \in AttestKind : attest(id, o, kind)
       \/ release(id)
       \/ refund(id)
  /\ UNCHANGED <<dbVars, sent, historyVars, proc>>

(* The ledger closes, or an account opens or closes a trustline.           *)
Passing == Ledger /\ UNCHANGED <<dbVars, sent, historyVars, proc>>

Run(p) ==
  \/ Submit(p) \/ SubmitFails(p) \/ SendRaises(p) \/ Invoke(p)
  \/ Poll(p) \/ Unconfirmed(p) \/ ReleaseClaim(p)
  \/ RecordTx(p) \/ RecordBare(p) \/ SetChainIntent(p) \/ Confirm(p) \/ Approve(p)
  \/ SubmitAttestation(p)
  \/ SyncRead(p) \/ SyncChain(p) \/ SyncUnseen(p) \/ SyncWrite(p) \/ cash_out(p)

Command(p, j) ==
  \/ execute(p, j)
  \/ \E kind \in AttestKind : flow_attest(p, j, kind) \/ sdk_attest(p, j, kind)
  \/ flow_release(p, j)
  \/ flow_revert(p, j)
  \/ sync(p, j)

FlowNext ==
  \/ \E p \in Procs : Run(p) \/ Crash(p) \/ \E j \in Jobs : Command(p, j)
  \/ \E n \in 1..Len(sent) : Land(n) \/ NotLand(n)
  \/ Outsider
  \/ Passing

FlowSpec == FlowInit /\ [][FlowNext]_flowVars

-----------------------------------------------------------------------------
EscrowsOf(j) == {id \in 1..counter : intents[id].request_hash = j}

(* repo.claim_escrow: "this single conditional UPDATE is what prevents a   *)
(* double on-chain escrow of the same invoice", through retries, crashes,  *)
(* concurrent executes and transactions that land late.                    *)
AtMostOneEscrow == \A j \in Jobs : Cardinality(EscrowsOf(j)) <= 1

(* What holds of it: a second escrow of an invoice needs a client that     *)
(* told its first execute of a failure while the transaction still could   *)
(* land; no interleaving, crash or late landing does it without.           *)
OneEscrowUnlessMisled ==
  \A j \in Jobs \ misled : Cardinality(EscrowsOf(j)) <= 1

(* A row may be claimed (again) only while no transaction of its job can   *)
(* still fund an escrow: none landed, none is on its way.                  *)
ProposedIsClean ==
  \A j \in Jobs \ misled : row[j].status = "proposed" =>
    /\ ~OnChain(j)
    /\ \A n \in 1..Len(sent) :
         sent[n].job = j => sent[n].state \in {"failed", "expired"}

(* except ChainSubmittedUnconfirmed: "Persist the hash for reconciliation".*)
(* Whatever may have funded an escrow can be found again: its hash is in   *)
(* chain_txs, or it landed and the row knows its escrow, or an execute is  *)
(* still at work on it; all others died with it or were misled.            *)
EscrowIsTraceable ==
  \A n \in 1..Len(sent) :
    \/ sent[n].state \in {"failed", "expired"}
    \/ sent[n].job \in pointers \cup orphaned \cup misled
    \/ sent[n].state = "landed" /\ ChainId(sent[n].job) = sent[n].id
    \/ \E p \in Procs : proc[p].tx = n /\ proc[p].pc \in HoldingTx

(* Chain wins: a row says released or reverted only if the escrow it       *)
(* points to, which is its own job's, was Released or Refunded.            *)
LocalBehindChain ==
  \A j \in Jobs :
    /\ OnChain(j) => ChainId(j) \in EscrowsOf(j)
    /\ row[j].status = "released" =>
         OnChain(j) /\ intents[ChainId(j)].status = "Released"
    /\ row[j].status = "reverted" =>
         OnChain(j) /\ intents[ChainId(j)].status = "Refunded"

(* The anchor pays a job no more often than the contract released it.      *)
PayoutBacked ==
  \A j \in Jobs :
    payouts[j] <= Cardinality({id \in EscrowsOf(j) : intents[id].status = "Released"})

(* KofNOracleGuard: nobody is paid out by the anchor before K distinct     *)
(* signers attested the shipment locally, however attest was interrupted,  *)
(* repeated or contradicted.                                               *)
PaidOnQuorum ==
  \A j \in Jobs : payouts[j] > 0 =>
    Cardinality({o \in Signers : <<j, o, "Shipped">> \in attested}) >= K

(* flow.execute records "the tx hash FIRST": a row never knows its escrow  *)
(* before chain_txs has a row for the transaction that made it, crashes    *)
(* and retries included.  Not always the "reconcilable pointer" of that    *)
(* comment: the row has no hash where the client found none.               *)
RecordedFirst == \A j \in Jobs : OnChain(j) => j \in pointers \cup bare

(* Once a row points to an escrow it points to that escrow for good.       *)
ChainIdWrittenOnce ==
  [][\A j \in Jobs : OnChain(j) => ChainId(j)' = ChainId(j)]_flowVars

(***************************************************************************)
(* Liveness.  Nothing in the code runs sync by itself: it is assumed that  *)
(* every job's `lumo sync' is run again and again, that no step of it      *)
(* always dies first and that the node does not stay behind for ever,      *)
(* hence strong fairness; a command that is running takes its next step or *)
(* dies, hence weak fairness.                                              *)
(***************************************************************************)
FlowFairness ==
  /\ \A p \in Procs : WF_flowVars(Run(p))
  /\ \A j \in Jobs, p \in Procs :
       /\ SF_flowVars(sync(p, j))
       /\ SF_flowVars(Job(p) = j /\ SyncRead(p))
       /\ SF_flowVars(Job(p) = j /\ SyncChain(p))
       /\ SF_flowVars(Job(p) = j /\ SyncWrite(p))

FairFlowSpec == FlowSpec /\ FlowFairness

Settled(j) == OnChain(j) /\ intents[ChainId(j)].status # "Funded"

(* mapper.sync_status reconciles: once the escrow of a row is settled, the *)
(* row comes to say so and stays right, although execute's last UPDATE     *)
(* may still turn a released or reverted row back into an escrowed one.    *)
LocalCatchesUp ==
  \A j \in Jobs :
    Settled(j) ~> [](Settled(j) /\ row[j].status = Mapped(intents[ChainId(j)].status))

(***************************************************************************)
(* What a comment says and the code does not do.                           *)
(***************************************************************************)

(* mapper.py: "Crash recovery: ... execute() died between submit and       *)
(* record_decision ... Persist the escrowed transition": an escrow that    *)
(* stays Funded gets its approved decision from a later sync.              *)
RecoveredDecision ==
  \A j \in Jobs :
    OnChain(j) ~> (Settled(j) \/ <<j, "approved">> \in decisions)

=============================================================================
