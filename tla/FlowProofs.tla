----------------------------- MODULE FlowProofs -----------------------------
(***************************************************************************)
(* The money flow is safe for every number of processes, jobs, signers and *)
(* submissions, under every interleaving, crash and late landing.          *)
(*                                                                         *)
(* None of the invariants of Flow is inductive by itself.  FlowInv says in *)
(* addition what each program counter entitles its process to rely on: an  *)
(* execute that holds the claim is alone with a row nobody else may touch, *)
(* one that waits for a transaction has made every other attempt of its    *)
(* job in vain, a sync works on a row with an escrow, and a release that   *)
(* may still cash out is the only one of its job that ever will.           *)
(***************************************************************************)
EXTENDS Flow, EscrowProofs, FiniteSetTheorems, SequenceTheorems

(* Where execute holds the claim of its row.                               *)
Claiming == {"submit", "poll", "invoke", "unclaim", "unconfirmed", "record_tx",
             "record_bare", "set_chain"}

(* Where execute knows its transaction, and where it knows it has landed.  *)
Tracking == HoldingTx \cup {"confirm"}
Confirmed == {"record_tx", "record_bare", "set_chain", "confirm"}

Syncing == {"sync_read", "sync_chain", "sync_write", "cash_out"}

Dead(n) == sent[n].state \in {"failed", "expired"}

(* All of job j's transactions, but for tx, came to nothing.               *)
InVain(j, tx) == \A n \in 1..Len(sent) : sent[n].job = j /\ n # tx => Dead(n)

(* The escrow that the row of j points to has this status.                 *)
Escrowed(j, status) == OnChain(j) /\ intents[ChainId(j)].status = status

(* A process that is doing something does it for a job, and what it writes *)
(* to the database is fit for its column.                                  *)
Busy ==
  \A p \in Procs :
    /\ ~At(p, "idle") => Job(p) \in Jobs
    /\ At(p, "submit_attestations") => proc[p].copy \in AttestKind

(* Between claim_escrow and set_chain_intent the row says escrowed, has no *)
(* chain id, and no other execute is at work on it.                        *)
ClaimHeld ==
  /\ \A j \in Jobs : row[j].status = "proposed" => ~OnChain(j)
  /\ \A p \in Procs : proc[p].pc \in Claiming =>
       /\ row[Job(p)].status = "escrowed" /\ ~OnChain(Job(p))
       /\ \A q \in Procs \ {p} : proc[q].pc \in Claiming => Job(q) # Job(p)

TxKnown ==
  \A p \in Procs : proc[p].pc \in Tracking =>
    /\ proc[p].tx \in 1..Len(sent) /\ sent[proc[p].tx].job = Job(p)
    /\ proc[p].pc \in Confirmed => sent[proc[p].tx].state = "landed"
    /\ At(p, "set_chain") => Job(p) \in pointers \cup bare

(* Transactions that landed and escrows in the contract are one to one.    *)
LandedIsEscrow ==
  \A n \in 1..Len(sent) :
    sent[n].state = "landed" => sent[n].id \in EscrowsOf(sent[n].job)

EscrowIsLanded ==
  \A id \in 1..counter :
    \E n \in 1..Len(sent) : sent[n].state = "landed" /\ sent[n].id = id

(* Unless a client reported a failure too early, a job never has two       *)
(* transactions that may still fund an escrow, and has none whenever it    *)
(* may be submitted (again).                                               *)
OneLive ==
  \A m, n \in 1..Len(sent) :
    sent[m].job = sent[n].job /\ sent[m].job \notin misled /\ ~Dead(m) /\ ~Dead(n)
      => m = n

NothingElseLive ==
  \A p \in Procs : Job(p) \notin misled =>
    /\ proc[p].pc \in {"submit", "unclaim"} => InVain(Job(p), 0)
    /\ proc[p].pc \in {"poll", "invoke"} => InVain(Job(p), proc[p].tx)

(* What a sync is about to write is no status the escrow can leave again.  *)
SyncSound ==
  \A p \in Procs :
    /\ proc[p].pc \in Syncing => OnChain(Job(p))
    /\ At(p, "sync_write") =>
         \/ proc[p].copy = "escrowed"
         \/ proc[p].copy = "released" /\ Escrowed(Job(p), "Released")
         \/ proc[p].copy = "reverted" /\ Escrowed(Job(p), "Refunded")

(* A release that may still cash out made its contract call, found enough  *)
(* attestations, and is the first and only one of its job.                 *)
PayerAlone ==
  \A p \in Procs :
    /\ At(p, "cash_out") => proc[p].after = "cash_out"
    /\ proc[p].after = "cash_out" =>
         /\ proc[p].pc \in Syncing
         /\ Escrowed(Job(p), "Released") /\ release_check(Job(p))
         /\ payouts[Job(p)] = 0
         /\ \A q \in Procs \ {p} : proc[q].after = "cash_out" => Job(q) # Job(p)

PaidOnce ==
  \A j \in Jobs : payouts[j] # 0 =>
    payouts[j] = 1 /\ Escrowed(j, "Released") /\ release_check(j)

FlowInv ==
  /\ FlowTypeOK /\ Busy
  /\ ClaimHeld /\ TxKnown /\ LandedIsEscrow /\ EscrowIsLanded
  /\ OneLive /\ NothingElseLive /\ ProposedIsClean
  /\ EscrowIsTraceable /\ RecordedFirst
  /\ SyncSound /\ LocalBehindChain
  /\ PayerAlone /\ PaidOnce

-----------------------------------------------------------------------------
(***************************************************************************)
(* What a step may do to the variables the parts of FlowInv speak of.      *)
(***************************************************************************)

Tx == [job : Jobs, state : TxState, id : 0..MaxIntents]
Process == [pc : Steps, job : Jobs \cup {NoId}, tx : 0..MaxSent,
            copy : RowStatus \cup AttestKind \cup {""},
            todo : SUBSET Signers, after : {"idle", "cash_out"}]
Row == [status : RowStatus, chain_intent_id : 1..MaxIntents \cup {NoId}]

LEMMA SentIsSeq ==
  ASSUME FlowTypeOK
  PROVE  /\ sent \in Seq(Tx) /\ sent \in [1..Len(sent) -> Tx]
         /\ Len(sent) \in 0..MaxSent
<1>1. PICK n \in 0..MaxSent : sent \in [1..n -> Tx]
  BY DEF FlowTypeOK, Tx
<1>2. n \in Nat
  BY <1>1, FlowAssumption
<1>3. sent \in Seq(Tx)
  BY <1>1, <1>2, SeqDef
<1>4. Len(sent) = n
  BY <1>1, <1>2, <1>3, LenProperties
<1> QED
  BY <1>1, <1>3, <1>4

(* The types of the variables that make up FlowTypeOK, one by one.         *)
LEMMA FlowTypes ==
  FlowTypeOK <=>
    /\ EscrowTypeOK
    /\ row \in [Jobs -> Row]
    /\ attested \subseteq Jobs \X Signers \X AttestKind
    /\ decisions \subseteq Jobs \X {"approved", "reverted"}
    /\ payouts \in [Jobs -> Nat]
    /\ pointers \subseteq Jobs /\ bare \subseteq Jobs
    /\ \E n \in 0..MaxSent : sent \in [1..n -> Tx]
    /\ proc \in [Procs -> Process]
    /\ misled \subseteq Jobs /\ orphaned \subseteq Jobs
BY DEF FlowTypeOK, Row, Tx, Process

(* Every step of the flow is a step of the escrow contract, or none.       *)
LEMMA FlowStepsEscrow ==
  ASSUME FlowTypeOK, LocalBehindChain, [FlowNext]_flowVars
  PROVE  [EscrowNext]_escrowVars
<1>1. ASSUME NEW j \in Jobs, OnChain(j) PROVE ChainId(j) \in 1..counter
  BY <1>1 DEF LocalBehindChain, EscrowsOf
<1>2. CASE \E p \in Procs : Run(p) \/ Crash(p)
  BY <1>2 DEF Run, Submit, SubmitFails, SendRaises, Invoke, Poll, Unconfirmed,
              ReleaseClaim, RecordTx, RecordBare, SetChainIntent, Confirm, Approve,
              SubmitAttestation, SyncRead, SyncChain, SyncUnseen, SyncWrite, cash_out, Crash
<1>3. ASSUME NEW p \in Procs, NEW j \in Jobs, Command(p, j)
      PROVE  [EscrowNext]_escrowVars
  BY <1>1, <1>3 DEF Command, execute, flow_attest, sdk_attest, flow_release,
                    flow_revert, sync, EscrowNext
<1>4. ASSUME NEW n \in 1..Len(sent), Land(n)
      PROVE  Create
  <2>1. sent[n].job \in Jobs
    BY <1>4, SentIsSeq DEF Tx
  <2>2. /\ Terms[sent[n].job].supplier \in Accounts
        /\ Terms[sent[n].job].token \in Tokens
        /\ Terms[sent[n].job].amount \in Amounts
        /\ Terms[sent[n].job].deadline \in Deadlines
        /\ sent[n].job \in Hashes /\ Sme \in Accounts
    BY <2>1, FlowAssumption
  <2> QED
    BY <1>4, <2>2 DEF Land, Create
<1>5. CASE \E n \in 1..Len(sent) : NotLand(n)
  BY <1>5 DEF NotLand
<1>6. CASE Outsider
  BY <1>6 DEF Outsider, EscrowNext
<1>7. CASE Passing
  BY <1>7 DEF Passing, EscrowNext
<1>8. CASE UNCHANGED flowVars
  BY <1>8 DEF flowVars
<1> QED
  BY <1>2, <1>3, <1>4, <1>5, <1>6, <1>7, <1>8 DEF FlowNext, EscrowNext

(* An escrow that exists stays, with its job, and a settled one stays as   *)
(* it is.                                                                  *)
LEMMA EscrowKept ==
  ASSUME EscrowTypeOK, [EscrowNext]_escrowVars, NEW id \in 1..counter
  PROVE  /\ id \in 1..counter'
         /\ intents'[id].request_hash = intents[id].request_hash
         /\ intents[id].status # "Funded" => intents'[id].status = intents[id].status
<1>1. intents[id] \in Intent
  BY DEF EscrowTypeOK
<1>2. IntentStep(id) /\ id \in 1..counter'
  BY IntentSteps
<1> QED
  BY <1>1, <1>2 DEF IntentStep, Releasable, Refundable, Intent

(* A transaction keeps its job, and one that is no longer pending is over. *)
SentStep ==
  /\ Len(sent) \in Nat /\ Len(sent) <= Len(sent')
  /\ Len(sent') \in 0..MaxSent /\ sent' \in [1..Len(sent') -> Tx]
  /\ \A n \in 1..Len(sent) :
       /\ sent'[n].job = sent[n].job
       /\ sent[n].state # "pending" => sent'[n] = sent[n]

LEMMA SentSteps ==
  ASSUME FlowTypeOK, Busy, [FlowNext]_flowVars
  PROVE  SentStep
<1>0. /\ sent \in Seq(Tx) /\ sent \in [1..Len(sent) -> Tx]
      /\ Len(sent) \in 0..MaxSent /\ MaxSent \in Nat
  BY SentIsSeq, FlowAssumption
<1>1. ASSUME NEW p \in Procs, Submit(p) \/ SendRaises(p) PROVE SentStep
  <2> DEFINE new == [job |-> Job(p), state |-> "pending", id |-> 0]
  <2>1. /\ Len(sent) < MaxSent /\ sent' = Append(sent, new) /\ ~At(p, "idle")
    BY <1>1 DEF Submit, SendRaises, At
  <2>2. new \in Tx
    BY <2>1, EscrowAssumption DEF Busy, Tx, TxState
  <2> HIDE DEF new
  <2>3. /\ sent' \in Seq(Tx) /\ Len(sent') = Len(sent) + 1
        /\ \A n \in 1..Len(sent) : sent'[n] = sent[n]
    BY <1>0, <2>1, <2>2, AppendProperties
  <2>4. sent' \in [1..Len(sent') -> Tx]
    BY <2>3, LenProperties
  <2> QED
    BY <1>0, <2>1, <2>3, <2>4 DEF SentStep
<1>2. ASSUME NEW n \in 1..Len(sent), NEW tx \in Tx,
             sent[n].state = "pending", tx.job = sent[n].job,
             sent' = [sent EXCEPT ![n] = tx]
      PROVE  SentStep
  <2>1. sent' \in [1..Len(sent) -> Tx] /\ Len(sent') = Len(sent)
    BY <1>0, <1>2, ExceptSeq
  <2>2. \A m \in 1..Len(sent) : sent'[m] = IF m = n THEN tx ELSE sent[m]
    BY <1>0, <1>2
  <2> QED
    BY <1>0, <1>2, <2>1, <2>2 DEF SentStep
<1>3. ASSUME NEW n \in 1..Len(sent), Land(n) PROVE SentStep
  <2>1. sent[n] \in Tx
    BY <1>0
  <2>2. counter < MaxIntents /\ counter \in 0..MaxIntents /\ MaxIntents \in Nat
    BY <1>3, EscrowAssumption DEF FlowTypeOK, EscrowTypeOK, Land, create_intent
  <2> DEFINE id == counter + 1
             tx == [sent[n] EXCEPT !.state = "landed", !.id = id]
  <2>3. tx \in Tx /\ tx.job = sent[n].job
    <3>1. id \in 0..MaxIntents
      BY <2>2
    <3> HIDE DEF id
    <3> QED
      BY <2>1, <3>1 DEF Tx, TxState
  <2>4. sent' = [sent EXCEPT ![n] = tx] /\ sent[n].state = "pending"
    BY <1>0, <1>3 DEF Land
  <2> HIDE DEF tx
  <2> QED
    BY <1>2, <2>3, <2>4
<1>4. ASSUME NEW n \in 1..Len(sent), NotLand(n) PROVE SentStep
  <2>1. PICK s \in {"failed", "expired"} : sent' = [sent EXCEPT ![n].state = s]
    BY <1>4 DEF NotLand
  <2> DEFINE tx == [sent[n] EXCEPT !.state = s]
  <2>2. sent[n] \in Tx
    BY <1>0
  <2>3. tx \in Tx /\ tx.job = sent[n].job
    BY <2>2 DEF Tx, TxState
  <2>4. sent' = [sent EXCEPT ![n] = tx] /\ sent[n].state = "pending"
    BY <1>0, <1>4, <2>1 DEF NotLand
  <2> HIDE DEF tx
  <2> QED
    BY <1>2, <2>3, <2>4
<1>5. CASE UNCHANGED sent
  BY <1>0, <1>5 DEF SentStep
<1>6. ASSUME NEW p \in Procs, Run(p) PROVE SentStep
  BY <1>1, <1>5, <1>6 DEF Run, Invoke, Poll, SubmitFails, Unconfirmed, ReleaseClaim,
       RecordTx, RecordBare, SetChainIntent, Confirm, Approve, SubmitAttestation,
       SyncRead, SyncChain, SyncUnseen, SyncWrite, cash_out
<1>7. ASSUME NEW p \in Procs, Crash(p) \/ \E j \in Jobs : Command(p, j)
      PROVE  UNCHANGED sent
  BY <1>7 DEF Crash, Command, execute, flow_attest, sdk_attest, flow_release,
              flow_revert, sync
<1>8. Outsider \/ Passing \/ UNCHANGED flowVars => UNCHANGED sent
  BY DEF Outsider, Passing, flowVars
<1> QED
  BY <1>3, <1>4, <1>5, <1>6, <1>7, <1>8 DEF FlowNext

-----------------------------------------------------------------------------
(***************************************************************************)
(* Type correctness.                                                       *)
(***************************************************************************)

LEMMA IdleTyped == Idle \in Process
<1>1. 0 \in 0..MaxSent
  BY FlowAssumption
<1> QED
  BY <1>1 DEF Process, Idle, Steps

(* What the steps leave to a process: its own record, with a job.          *)
LEMMA ProcessTyped ==
  ASSUME FlowTypeOK, Busy, NEW p \in Procs, ~At(p, "idle")
  PROVE  /\ proc[p] \in Process /\ Job(p) \in Jobs
         /\ \A pc \in Steps : [proc[p] EXCEPT !.pc = pc] \in Process
<1>1. proc[p] \in Process /\ Job(p) \in Jobs
  BY DEF FlowTypeOK, Busy, Process
<1>2. \A pc \in Steps : [proc[p] EXCEPT !.pc = pc] \in Process
  BY <1>1 DEF Process
<1> QED
  BY <1>1, <1>2

DatabaseTyped ==
  /\ row \in [Jobs -> Row]
  /\ attested \subseteq Jobs \X Signers \X AttestKind
  /\ decisions \subseteq Jobs \X {"approved", "reverted"}
  /\ payouts \in [Jobs -> Nat]
  /\ pointers \subseteq Jobs /\ bare \subseteq Jobs
  /\ misled \subseteq Jobs /\ orphaned \subseteq Jobs

LEMMA DatabaseTypedNext ==
  ASSUME FlowInv, [FlowNext]_flowVars
  PROVE  DatabaseTyped'
<1>0. /\ DatabaseTyped /\ EscrowTypeOK
      /\ proc \in [Procs -> Process]
      /\ \A p \in Procs : ~At(p, "idle") => Job(p) \in Jobs
  BY FlowTypes DEF FlowInv, Busy, DatabaseTyped
<1> USE DEF DatabaseTyped
<1>1. CASE UNCHANGED <<dbVars, historyVars>>
  BY <1>0, <1>1 DEF dbVars, historyVars
<1>2. ASSUME NEW p \in Procs, SubmitFails(p) \/ Submit(p) \/ Poll(p) \/ Confirm(p)
                              \/ SyncRead(p) \/ SyncChain(p) \/ SyncUnseen(p)
      PROVE  UNCHANGED <<dbVars, historyVars>>
  BY <1>2 DEF SubmitFails, Submit, Poll, Confirm, SyncRead, SyncChain, SyncUnseen,
       dbVars, historyVars
<1>3. ASSUME NEW p \in Procs, SendRaises(p) \/ Invoke(p) \/ Crash(p) PROVE DatabaseTyped'
  BY <1>0, <1>3 DEF SendRaises, Invoke, Crash, dbVars, At
<1>4. ASSUME NEW p \in Procs, Unconfirmed(p) \/ RecordTx(p) \/ RecordBare(p) PROVE DatabaseTyped'
  BY <1>0, <1>4 DEF Unconfirmed, RecordTx, RecordBare, historyVars, At
<1>5. ASSUME NEW j \in Jobs, NEW s \in RowStatus,
             row' = [row EXCEPT ![j].status = s]
      PROVE  row' \in [Jobs -> Row]
  <2>1. [row[j] EXCEPT !.status = s] \in Row
    BY <1>0 DEF Row
  <2> QED
    BY <1>0, <1>5, <2>1
<1>6. ASSUME NEW p \in Procs, ReleaseClaim(p) PROVE DatabaseTyped'
  BY <1>0, <1>5, <1>6 DEF ReleaseClaim, historyVars, RowStatus, At
<1>7. ASSUME NEW p \in Procs, Approve(p) PROVE DatabaseTyped'
  <2>1. row' \in [Jobs -> Row]
    BY <1>0, <1>5, <1>7 DEF Approve, RowStatus, At
  <2> QED
    BY <1>0, <1>7, <2>1 DEF Approve, historyVars, At
<1>8. ASSUME NEW p \in Procs, SyncWrite(p) PROVE DatabaseTyped'
  <2>1. proc[p].copy \in {"escrowed", "released", "reverted"} /\ Job(p) \in Jobs
    BY <1>0, <1>8 DEF FlowInv, SyncSound, SyncWrite, At
  <2>2. row' \in [Jobs -> Row]
    BY <1>5, <1>8, <2>1 DEF SyncWrite, RowStatus
  <2> QED
    BY <1>0, <1>8, <2>1, <2>2 DEF SyncWrite, historyVars
<1>9. ASSUME NEW p \in Procs, SetChainIntent(p) PROVE DatabaseTyped'
  <2>1. Job(p) \in Jobs /\ sent[proc[p].tx].id \in 1..MaxIntents
    BY <1>0, <1>9, EscrowAssumption, Z3
       DEF SetChainIntent, At, FlowInv, TxKnown, Tracking, HoldingTx, Confirmed,
            LandedIsEscrow,
           EscrowsOf, EscrowTypeOK
  <2> DEFINE id == sent[proc[p].tx].id
  <2>2. [row[Job(p)] EXCEPT !.chain_intent_id = id] \in Row
    BY <1>0, <2>1 DEF Row
  <2> QED
    BY <1>0, <1>9, <2>1, <2>2 DEF SetChainIntent, historyVars
<1>10. ASSUME NEW p \in Procs, SubmitAttestation(p) PROVE DatabaseTyped'
  <2>1. Job(p) \in Jobs /\ proc[p].todo \subseteq Signers /\ proc[p].copy \in AttestKind
    BY <1>0, <1>10 DEF SubmitAttestation, At, FlowInv, Busy, Process
  <2> QED
    BY <1>0, <1>10, <2>1 DEF SubmitAttestation, historyVars
<1>11. ASSUME NEW p \in Procs, cash_out(p) PROVE DatabaseTyped'
  BY <1>0, <1>11 DEF cash_out, historyVars, At
<1>12. ASSUME NEW p \in Procs, NEW j \in Jobs, Command(p, j) PROVE DatabaseTyped'
  <2>1. CASE execute(p, j)
    BY <1>0, <1>5, <2>1 DEF execute, historyVars, RowStatus
  <2> QED
    BY <1>1, <1>12, <2>1 DEF Command, flow_attest, sdk_attest, flow_release,
                             flow_revert, sync
<1>13. (\E n \in 1..Len(sent) : Land(n) \/ NotLand(n)) \/ Outsider \/ Passing
       \/ UNCHANGED flowVars
         => UNCHANGED <<dbVars, historyVars>>
  BY DEF Land, NotLand, Outsider, Passing, flowVars
<1>14. ASSUME NEW p \in Procs, Run(p) PROVE DatabaseTyped'
  BY <1>1, <1>2, <1>3, <1>4, <1>6, <1>7, <1>8, <1>9, <1>10, <1>11, <1>14 DEF Run
<1> QED
  BY <1>1, <1>3, <1>12, <1>13, <1>14 DEF FlowNext

(* A process only ever moves itself.                                       *)
Moves(p) ==
  \E r \in Process : proc' = [proc EXCEPT ![p] = r]

LEMMA ProcessMoves ==
  ASSUME FlowInv, NEW p \in Procs,
         Run(p) \/ Crash(p) \/ \E j \in Jobs : Command(p, j)
  PROVE  Moves(p)
<1>0. /\ proc \in [Procs -> Process] /\ FlowTypeOK /\ Busy
      /\ row \in [Jobs -> Row] /\ EscrowTypeOK
  BY FlowTypes DEF FlowInv
<1>1. CASE UNCHANGED proc
  <2>1. proc' = [proc EXCEPT ![p] = proc[p]] /\ proc[p] \in Process
    BY <1>0, <1>1
  <2> QED
    BY <2>1 DEF Moves
<1>2. CASE ~At(p, "idle") /\ Finish(p)
  BY <1>2, IdleTyped DEF Finish, Moves
<1>3. ASSUME ~At(p, "idle"), NEW pc \in Steps, Goto(p, pc)
      PROVE  Moves(p)
  <2>1. proc' = [proc EXCEPT ![p] = [proc[p] EXCEPT !.pc = pc]]
    BY <1>0, <1>3 DEF Goto
  <2> QED
    BY <1>0, <1>3, <2>1, ProcessTyped DEF Moves
<1>4. ASSUME NEW j \in Jobs, NEW pc \in Steps, Start(p, j, pc)
      PROVE  Moves(p)
  <2>1. [Idle EXCEPT !.pc = pc, !.job = j] \in Process
    BY IdleTyped DEF Process
  <2> QED
    BY <1>4, <2>1 DEF Start, Moves
<1>5. CASE Submit(p)
  <2>1. PICK client \in Clients :
          proc' = [proc EXCEPT ![p].pc = Awaiting(client), ![p].tx = Len(sent) + 1]
    BY <1>5 DEF Submit
  <2> DEFINE pc == Awaiting(client)
             tx == Len(sent) + 1
  <2>2. pc \in Steps
    BY DEF Awaiting, Steps
  <2>3. tx \in 0..MaxSent
    BY <1>0, <1>5, SentIsSeq, FlowAssumption DEF Submit
  <2> HIDE DEF pc, tx
  <2>4. proc' = [proc EXCEPT ![p] = [proc[p] EXCEPT !.pc = pc, !.tx = tx]]
    BY <1>0, <2>1 DEF pc, tx
  <2>5. [proc[p] EXCEPT !.pc = pc, !.tx = tx] \in Process
    BY <1>0, <2>2, <2>3 DEF Process
  <2> QED
    BY <2>4, <2>5 DEF Moves
<1>6. CASE SubmitAttestation(p)
  <2>1. ~At(p, "idle")
    BY <1>6 DEF SubmitAttestation, At
  <2>2. ASSUME NEW rest \in SUBSET Signers, proc' = [proc EXCEPT ![p].todo = rest]
        PROVE  Moves(p)
    <3>1. proc' = [proc EXCEPT ![p] = [proc[p] EXCEPT !.todo = rest]]
      BY <1>0, <2>2
    <3>2. [proc[p] EXCEPT !.todo = rest] \in Process
      BY <1>0 DEF Process
    <3> QED
      BY <3>1, <3>2 DEF Moves
  <2>3. proc[p].todo \in SUBSET Signers
    BY <1>0 DEF Process
  <2> QED
    BY <1>2, <1>6, <2>1, <2>2, <2>3 DEF SubmitAttestation
<1>7. ASSUME NEW pc \in Steps, NEW copy \in RowStatus, NEW old \in Process,
             old = proc[p],
             proc' = [proc EXCEPT ![p].pc = pc, ![p].copy = copy]
      PROVE  Moves(p)
  <2>1. proc' = [proc EXCEPT ![p] = [old EXCEPT !.pc = pc, !.copy = copy]]
    BY <1>0, <1>7
  <2>2. [old EXCEPT !.pc = pc, !.copy = copy] \in Process
    BY DEF Process
  <2> QED
    BY <2>1, <2>2 DEF Moves
<1>8. CASE SyncRead(p)
  <2>1. Job(p) \in Jobs /\ row[Job(p)].status \in RowStatus
    BY <1>0, <1>8, ProcessTyped DEF SyncRead, At, Row
  <2> QED
    BY <1>0, <1>7, <1>8, <2>1 DEF SyncRead, Steps
<1>9. ASSUME ~At(p, "idle"), NEW mapped, Return(p, mapped) PROVE Moves(p)
  BY <1>2, <1>3, <1>9 DEF Return, Steps
<1>10. CASE SyncChain(p) \/ SyncUnseen(p)
  <2>1. ~At(p, "idle") /\ Job(p) \in Jobs
    BY <1>0, <1>10, ProcessTyped DEF SyncChain, SyncUnseen, At
  <2>2. OnChain(Job(p)) /\ ChainId(Job(p)) \in 1..counter
    BY <1>10, <2>1
       DEF FlowInv, SyncSound, LocalBehindChain, EscrowsOf, Syncing, SyncChain,
            SyncUnseen, At
  <2>3. intents[ChainId(Job(p))].status \in Status
    BY <1>0, <2>2 DEF EscrowTypeOK, Intent
  <2>4. Mapped(intents[ChainId(Job(p))].status) \in RowStatus
    BY <2>3 DEF Mapped, Status, RowStatus
  <2> QED
    BY <1>0, <1>7, <1>9, <1>10, <2>1, <2>4 DEF SyncChain, SyncUnseen, Steps
<1>11. CASE SyncWrite(p)
  BY <1>9, <1>11 DEF SyncWrite, At
<1>12. CASE Run(p)
  BY <1>2, <1>3, <1>5, <1>6, <1>8, <1>10, <1>11, <1>12
     DEF Run, SubmitFails, SendRaises, Invoke, Poll, Unconfirmed, ReleaseClaim,
         RecordTx, RecordBare, SetChainIntent, Confirm, Approve, cash_out, At, Steps
<1>13. CASE Crash(p)
  BY <1>2, <1>13 DEF Crash
<1>14. ASSUME NEW j \in Jobs, NEW kind \in AttestKind, NEW signers \in SUBSET Signers,
              Submission(p, j, kind, signers)
       PROVE  Moves(p)
  <2>1. [Idle EXCEPT !.pc = "submit_attestations", !.job = j, !.copy = kind,
                     !.todo = signers] \in Process
    BY IdleTyped DEF Process, Steps
  <2> QED
    BY <1>1, <1>14, <2>1 DEF Submission, Moves
<1>15. ASSUME NEW j \in Jobs, Command(p, j) PROVE Moves(p)
  <2>1. CASE flow_release(p, j)
    <3>1. [Idle EXCEPT !.pc = "sync_read", !.job = j, !.after = "cash_out"] \in Process
      BY IdleTyped DEF Process, Steps
    <3> QED
      BY <2>1, <3>1 DEF flow_release, Moves
  <2>2. CASE \E kind \in AttestKind : flow_attest(p, j, kind) \/ sdk_attest(p, j, kind)
    <3>1. build_oracle \in SUBSET Signers
      BY DEF build_oracle
    <3> QED
      BY <1>14, <2>2, <3>1 DEF flow_attest, sdk_attest
  <2>3. CASE execute(p, j) \/ flow_revert(p, j) \/ sync(p, j)
    BY <1>4, <2>3 DEF execute, flow_revert, sync, Steps
  <2> QED
    BY <1>15, <2>1, <2>2, <2>3 DEF Command
<1> QED
  BY <1>12, <1>13, <1>15

(* A step of the world around the processes, and one of no consequence.    *)
Surroundings ==
  \/ \E n \in 1..Len(sent) : Land(n) \/ NotLand(n)
  \/ Outsider
  \/ Passing
  \/ UNCHANGED flowVars

LEMMA SurroundingsLeave ==
  ASSUME Surroundings
  PROVE  UNCHANGED <<row, attested, decisions, payouts, pointers, bare, proc, misled, orphaned>>
BY DEF Surroundings, Land, NotLand, Outsider, Passing, flowVars, dbVars, historyVars

(* Who steps: one process, which changes nothing of the others, or none.   *)
LEMMA WhoSteps ==
  ASSUME FlowInv, [FlowNext]_flowVars
  PROVE  /\ \/ Surroundings
            \/ \E p \in Procs :
                 /\ Run(p) \/ Crash(p) \/ \E j \in Jobs : Command(p, j)
                 /\ \A q \in Procs \ {p} : proc'[q] = proc[q]
         /\ proc' \in [Procs -> Process]
<1>0. proc \in [Procs -> Process]
  BY FlowTypes DEF FlowInv
<1>1. CASE Surroundings
  BY <1>0, <1>1, SurroundingsLeave
<1>2. ASSUME NEW p \in Procs, Run(p) \/ Crash(p) \/ \E j \in Jobs : Command(p, j)
      PROVE  /\ \A q \in Procs \ {p} : proc'[q] = proc[q]
             /\ proc' \in [Procs -> Process]
  BY <1>0, <1>2, ProcessMoves DEF Moves
<1> QED
  BY <1>1, <1>2 DEF FlowNext, Surroundings

LEMMA FlowTypedNext ==
  ASSUME FlowInv, [FlowNext]_flowVars
  PROVE  /\ FlowTypeOK' /\ [EscrowNext]_escrowVars
         /\ DatabaseTyped' /\ EscrowTypeOK' /\ SentStep
<1>1. [EscrowNext]_escrowVars /\ EscrowTypeOK'
  BY FlowStepsEscrow, NextTyped DEF FlowInv, FlowTypeOK
<1>2. SentStep
  BY SentSteps DEF FlowInv
<1>3. DatabaseTyped' /\ proc' \in [Procs -> Process]
  BY DatabaseTypedNext, WhoSteps
<1>4. FlowTypeOK'
  BY <1>1, <1>2, <1>3 DEF FlowTypeOK, DatabaseTyped, SentStep, Row, Process, Tx
<1> QED
  BY <1>1, <1>2, <1>3, <1>4

LEMMA BusyNext ==
  ASSUME FlowInv, [FlowNext]_flowVars
  PROVE  Busy'
<1>0. proc \in [Procs -> Process] /\ Busy
  BY FlowTypes DEF FlowInv
<1> DEFINE BusyAt(r) == /\ r.pc # "idle" => r.job \in Jobs
                        /\ r.pc = "submit_attestations" => r.copy \in AttestKind
<1>1. ASSUME NEW p \in Procs, Run(p) \/ Crash(p) \/ \E j \in Jobs : Command(p, j)
      PROVE  BusyAt(proc'[p])
  <2>1. CASE Finish(p)
    BY <1>0, <2>1 DEF Finish, Idle
  <2>2. ASSUME ~At(p, "idle"), NEW pc, pc # "submit_attestations", Goto(p, pc)
        PROVE  BusyAt(proc'[p])
    BY <1>0, <2>2 DEF Goto, Busy, At, Job, Process
  <2>3. ASSUME NEW j \in Jobs, NEW pc, pc # "submit_attestations", Start(p, j, pc)
        PROVE  BusyAt(proc'[p])
    BY <1>0, <2>3 DEF Start, Idle
  <2>4. CASE \/ SubmitFails(p) \/ SendRaises(p) \/ Invoke(p) \/ Poll(p) \/ Unconfirmed(p)
             \/ ReleaseClaim(p) \/ RecordTx(p) \/ RecordBare(p) \/ SetChainIntent(p) \/ Confirm(p)
             \/ Approve(p) \/ SyncWrite(p) \/ cash_out(p) \/ Crash(p)
    BY <2>1, <2>2, <2>4 DEF SubmitFails, SendRaises, Invoke, Poll, Unconfirmed,
         ReleaseClaim, RecordTx, RecordBare, SetChainIntent, Confirm, Approve, SyncWrite,
         Return,
         cash_out, Crash, At
  <2>5. CASE Submit(p) \/ SyncRead(p) \/ SyncChain(p) \/ SyncUnseen(p) \/ SubmitAttestation(p)
    <3>1. CASE Submit(p)
      <4>1. PICK client \in Clients :
              proc' = [proc EXCEPT ![p].pc = Awaiting(client), ![p].tx = Len(sent) + 1]
        BY <3>1 DEF Submit
      <4>2. proc'[p].job = proc[p].job /\ proc'[p].pc \in {"poll", "invoke"}
        BY <1>0, <4>1 DEF Awaiting, Process
      <4>3. proc[p].pc = "submit"
        BY <3>1 DEF Submit, At
      <4> QED
        BY <1>0, <4>2, <4>3 DEF Busy, At, Job
    <3>2. CASE SyncRead(p)
      BY <1>0, <3>2 DEF SyncRead, At, Busy, Job, Process
    <3>3. CASE SyncChain(p) \/ SyncUnseen(p)
      <4>0. ASSUME NEW mapped, At(p, "sync_chain"), Return(p, mapped)
            PROVE  BusyAt(proc'[p])
        <5>1. ~At(p, "idle")
          BY <4>0 DEF At
        <5>2. Finish(p) \/ Goto(p, "cash_out")
          BY <4>0 DEF Return
        <5> QED
          BY <2>1, <2>2, <5>1, <5>2
      <4>1. CASE SyncUnseen(p)
        BY <4>0, <4>1 DEF SyncUnseen
      <4>2. CASE SyncChain(p)
        <5>1. ASSUME NEW copy, At(p, "sync_chain"),
                     proc' = [proc EXCEPT ![p].pc = "sync_write", ![p].copy = copy]
              PROVE  BusyAt(proc'[p])
          BY <1>0, <5>1 DEF At, Busy, Job, Process
        <5> QED
          BY <4>0, <4>2, <5>1 DEF SyncChain
      <4> QED
        BY <3>3, <4>1, <4>2
    <3>4. CASE SubmitAttestation(p)
      <4>1. ASSUME NEW rest, proc' = [proc EXCEPT ![p].todo = rest]
            PROVE  BusyAt(proc'[p])
        BY <1>0, <4>1 DEF Busy, At, Job, Process
      <4> QED
        BY <2>1, <3>4, <4>1 DEF SubmitAttestation
    <3> QED
      BY <2>5, <3>1, <3>2, <3>3, <3>4
  <2>6. ASSUME NEW j \in Jobs, Command(p, j) PROVE BusyAt(proc'[p])
    <3>1. CASE flow_release(p, j)
      BY <1>0, <3>1 DEF flow_release, Idle
    <3>2. CASE \E kind \in AttestKind : flow_attest(p, j, kind) \/ sdk_attest(p, j, kind)
      BY <1>0, <3>2 DEF flow_attest, sdk_attest, Submission, Idle, At, Process
    <3> QED
      BY <2>3, <2>6, <3>1, <3>2 DEF Command, execute, flow_revert, sync
  <2> HIDE DEF BusyAt
  <2> QED
    BY <1>1, <2>4, <2>5, <2>6 DEF Run
<1>2. \A p \in Procs : BusyAt(proc[p])
  BY <1>0 DEF Busy, At, Job
<1>3. \A p \in Procs : BusyAt(proc'[p])
  <2> HIDE DEF BusyAt
  <2> QED
    BY <1>1, <1>2, WhoSteps, SurroundingsLeave
<1> QED
  BY <1>3 DEF Busy, At, Job

-----------------------------------------------------------------------------
(***************************************************************************)
(* The claim.                                                              *)
(***************************************************************************)

(* Only execute gets a process to where it holds a claim.                  *)
LEMMA OnlyExecuteClaims ==
  ASSUME FlowInv, NEW p \in Procs,
         Run(p) \/ Crash(p) \/ \E j \in Jobs : Command(p, j) /\ ~execute(p, j),
         proc'[p].pc \in Claiming
  PROVE  proc[p].pc \in Claiming /\ proc'[p].job = proc[p].job
<1>0. proc \in [Procs -> Process]
  BY FlowTypes DEF FlowInv
<1> DEFINE Goal == proc[p].pc \in Claiming /\ proc'[p].job = proc[p].job
<1>1. ASSUME Finish(p) PROVE FALSE
  BY <1>0, <1>1 DEF Finish, Idle, Claiming
<1>2. ASSUME NEW pc, pc \notin Claiming, Goto(p, pc) \/ \E j \in Jobs : Start(p, j, pc)
      PROVE  FALSE
  <2>1. CASE Goto(p, pc)
    BY <1>0, <1>2, <2>1 DEF Goto, Process
  <2>2. ASSUME NEW j \in Jobs, Start(p, j, pc) PROVE FALSE
    BY <1>0, <1>2, <2>2 DEF Start, Idle
  <2> QED
    BY <1>2, <2>1, <2>2
<1>3. ASSUME NEW pc, Goto(p, pc), proc[p].pc \in Claiming PROVE Goal
  BY <1>0, <1>3 DEF Goto, Process
<1>4. CASE Submit(p)
  BY <1>0, <1>4 DEF Submit, Process, Claiming, At
<1>5. CASE \/ SubmitFails(p) \/ SendRaises(p) \/ Invoke(p) \/ Poll(p)
           \/ Unconfirmed(p) \/ ReleaseClaim(p) \/ RecordTx(p) \/ RecordBare(p)
  BY <1>1, <1>3, <1>5 DEF SubmitFails, SendRaises, Invoke, Poll, Unconfirmed, ReleaseClaim,
       RecordTx, RecordBare, At, Claiming
<1>6. CASE \/ SetChainIntent(p) \/ Confirm(p) \/ Approve(p) \/ SyncWrite(p)
           \/ cash_out(p) \/ Crash(p)
  BY <1>1, <1>2, <1>6 DEF SetChainIntent, Confirm, Approve, SyncWrite, Return, cash_out,
       Crash, Claiming
<1>7. CASE SyncRead(p) \/ SyncChain(p) \/ SyncUnseen(p)
  <2>1. ASSUME NEW pc, NEW copy, pc \notin Claiming,
               proc' = [proc EXCEPT ![p].pc = pc, ![p].copy = copy]
        PROVE  FALSE
    BY <1>0, <2>1 DEF Process
  <2> QED
    BY <1>1, <1>2, <1>7, <2>1 DEF SyncRead, SyncChain, SyncUnseen, Return, Claiming
<1>8. CASE SubmitAttestation(p)
  <2>1. ASSUME NEW rest, proc' = [proc EXCEPT ![p].todo = rest]
        PROVE  proc'[p].pc = proc[p].pc
    BY <1>0, <2>1 DEF Process
  <2> QED
    BY <1>1, <1>8, <2>1 DEF SubmitAttestation, At, Claiming
<1>9. ASSUME NEW j \in Jobs, Command(p, j), ~execute(p, j) PROVE FALSE
  <2>1. CASE flow_release(p, j)
    BY <1>0, <2>1 DEF flow_release, Idle, Claiming
  <2>2. CASE \E kind \in AttestKind : flow_attest(p, j, kind) \/ sdk_attest(p, j, kind)
    <3>1. ASSUME NEW copy, NEW todo,
                 proc' = [proc EXCEPT ![p] = [Idle EXCEPT !.pc = "submit_attestations",
                                !.job = j, !.copy = copy, !.todo = todo]]
          PROVE  proc'[p].pc \notin Claiming
      BY <1>0, <3>1 DEF Idle, Claiming
    <3> QED
      BY <2>2, <3>1 DEF flow_attest, sdk_attest, Submission, At, Claiming
  <2>3. CASE flow_revert(p, j) \/ sync(p, j)
    BY <1>2, <2>3 DEF flow_revert, sync, Claiming
  <2> QED
    BY <1>9, <2>1, <2>2, <2>3 DEF Command
<1> QED
  BY <1>4, <1>5, <1>6, <1>7, <1>8, <1>9 DEF Run

LEMMA ClaimHeldNext ==
  ASSUME FlowInv, [FlowNext]_flowVars
  PROVE  ClaimHeld'
<1>0. /\ proc \in [Procs -> Process] /\ row \in [Jobs -> Row] /\ ClaimHeld
      /\ \A p \in Procs : ~At(p, "idle") => Job(p) \in Jobs
  BY FlowTypes DEF FlowInv, Busy
<1> USE DEF ClaimHeld, Job, OnChain, ChainId
<1>1. CASE Surroundings
  BY <1>0, <1>1, SurroundingsLeave
<1>2. ASSUME NEW p \in Procs, Run(p) \/ Crash(p) \/ \E j \in Jobs : Command(p, j),
             \A q \in Procs \ {p} : proc'[q] = proc[q]
      PROVE  ClaimHeld'
  <2>1. ASSUME NEW j \in Jobs, execute(p, j) PROVE ClaimHeld'
    <3>1. /\ proc'[p].job = j /\ row[j].status = "proposed"
          /\ row'[j].status = "escrowed" /\ row'[j].chain_intent_id = row[j].chain_intent_id
          /\ \A k \in Jobs \ {j} : row'[k] = row[k]
      BY <1>0, <2>1 DEF execute, Start, Idle, Row
    <3>2. \A q \in Procs \ {p} : proc[q].pc \in Claiming => proc[q].job \in Jobs \ {j}
      BY <1>0, <3>1 DEF At, Claiming
    <3> QED
      BY <1>0, <1>2, <3>1, <3>2
  <2>2. ASSUME UNCHANGED row,
               proc'[p].pc \in Claiming =>
                 proc[p].pc \in Claiming /\ proc'[p].job = proc[p].job
        PROVE  ClaimHeld'
    BY <1>0, <1>2, <2>2
  <2>3. CASE ReleaseClaim(p)
    <3>1. /\ proc'[p].pc \notin Claiming /\ proc[p].pc \in Claiming /\ Job(p) \in Jobs
      BY <1>0, <2>3 DEF ReleaseClaim, Finish, Idle, Claiming, At
    <3>2. \A q \in Procs \ {p} : proc[q].pc \in Claiming => proc[q].job \in Jobs \ {Job(p)}
      BY <1>0, <3>1 DEF At, Claiming
    <3>3. /\ \A k \in Jobs \ {Job(p)} : row'[k] = row[k]
          /\ \A k \in Jobs : row'[k].chain_intent_id = row[k].chain_intent_id
          /\ row[Job(p)].chain_intent_id = NoId
      BY <1>0, <2>3, <3>1 DEF ReleaseClaim, Row
    <3> QED
      BY <1>0, <1>2, <3>1, <3>2, <3>3
  <2>4. CASE SetChainIntent(p)
    <3>1. /\ proc'[p].pc \notin Claiming /\ proc[p].pc \in Claiming /\ Job(p) \in Jobs
      BY <1>0, <2>4 DEF SetChainIntent, Goto, Process, Claiming, At
    <3>2. \A q \in Procs \ {p} : proc[q].pc \in Claiming => proc[q].job \in Jobs \ {Job(p)}
      BY <1>0, <3>1 DEF At, Claiming
    <3>3. /\ \A k \in Jobs \ {Job(p)} : row'[k] = row[k]
          /\ row'[Job(p)].status = "escrowed"
      BY <1>0, <2>4, <3>1 DEF SetChainIntent, Row
    <3> QED
      BY <1>0, <1>2, <3>1, <3>2, <3>3
  <2>5. CASE Approve(p)
    <3>1. /\ proc'[p].pc \notin Claiming /\ Job(p) \in Jobs
      BY <1>0, <2>5 DEF Approve, Finish, Idle, Claiming, At
    <3>2. /\ \A k \in Jobs \ {Job(p)} : row'[k] = row[k]
          /\ row'[Job(p)].status = "escrowed"
          /\ row'[Job(p)].chain_intent_id = row[Job(p)].chain_intent_id
      BY <1>0, <2>5, <3>1 DEF Approve, Row
    <3> QED
      BY <1>0, <1>2, <3>1, <3>2 DEF Claiming, At
  <2>6. CASE SyncWrite(p)
    <3>1. /\ proc'[p].pc \notin Claiming /\ Job(p) \in Jobs
      BY <1>0, <2>6, OnlyExecuteClaims DEF SyncWrite, Run, Claiming, At
    <3>2. row[Job(p)].chain_intent_id # NoId /\ proc[p].copy # "proposed"
      BY <2>6 DEF FlowInv, SyncSound, SyncWrite, At, Syncing
    <3>3. /\ \A k \in Jobs \ {Job(p)} : row'[k] = row[k]
          /\ row'[Job(p)].status # "proposed"
      BY <1>0, <2>6, <3>1, <3>2 DEF SyncWrite, Row
    <3> QED
      BY <1>0, <1>2, <3>1, <3>2, <3>3 DEF Claiming, At
  <2>7. ASSUME NEW j \in Jobs, Command(p, j), ~execute(p, j) PROVE ClaimHeld'
    <3>1. UNCHANGED row
      BY <2>7 DEF Command, flow_attest, sdk_attest, flow_release, flow_revert, sync, dbVars
    <3> QED
      BY <2>2, <2>7, <3>1, OnlyExecuteClaims
  <2>8. ASSUME Run(p) \/ Crash(p), ~ReleaseClaim(p), ~SetChainIntent(p), ~Approve(p),
               ~SyncWrite(p)
        PROVE  ClaimHeld'
    <3>1. UNCHANGED row
      BY <2>8 DEF Run, Crash, Submit, SubmitFails, SendRaises, Invoke, Poll, Unconfirmed,
           RecordTx, RecordBare, Confirm, SubmitAttestation, SyncRead, SyncChain,
           SyncUnseen, cash_out, dbVars
    <3> QED
      BY <2>2, <2>8, <3>1, OnlyExecuteClaims
  <2> QED
    BY <1>2, <2>1, <2>3, <2>4, <2>5, <2>6, <2>7, <2>8
<1> QED
  BY <1>1, <1>2, WhoSteps

-----------------------------------------------------------------------------
(***************************************************************************)
(* What every part below relies on: chain ids are written once, the        *)
(* pointers and histories only grow, a command keeps its job to its end.   *)
(***************************************************************************)

LEMMA ChainIdKept ==
  ASSUME FlowInv, [FlowNext]_flowVars, NEW j \in Jobs, OnChain(j)
  PROVE  ChainId(j)' = ChainId(j) /\ OnChain(j)'
<1>0. row \in [Jobs -> Row] /\ \A p \in Procs : ~At(p, "idle") => Job(p) \in Jobs
  BY FlowTypes DEF FlowInv, Busy
<1> USE DEF OnChain, ChainId
<1>1. CASE UNCHANGED row
  BY <1>1
<1>2. ASSUME NEW k \in Jobs, NEW s, row' = [row EXCEPT ![k].status = s]
      PROVE  ChainId(j)' = ChainId(j)
  BY <1>0, <1>2 DEF Row
<1>3. ASSUME NEW p \in Procs, SetChainIntent(p) PROVE ChainId(j)' = ChainId(j)
  <2>1. Job(p) \in Jobs /\ ~OnChain(Job(p))
    BY <1>0, <1>3 DEF SetChainIntent, FlowInv, ClaimHeld, Claiming, At
  <2> QED
    BY <1>0, <1>3, <2>1 DEF SetChainIntent
<1>4. ASSUME NEW p \in Procs, Run(p) PROVE ChainId(j)' = ChainId(j)
  <2>1. CASE ReleaseClaim(p) \/ Approve(p) \/ SyncWrite(p)
    BY <1>0, <1>1, <1>2, <2>1 DEF ReleaseClaim, Approve, SyncWrite, At
  <2> QED
    BY <1>1, <1>3, <1>4, <2>1 DEF Run, Submit, SubmitFails, SendRaises, Invoke, Poll,
       Unconfirmed, RecordTx, RecordBare, Confirm, SubmitAttestation, SyncRead,
       SyncChain, SyncUnseen, cash_out, dbVars
<1>5. ASSUME NEW p \in Procs, NEW k \in Jobs, Command(p, k) PROVE ChainId(j)' = ChainId(j)
  BY <1>1, <1>2, <1>5 DEF Command, execute, flow_attest, sdk_attest, flow_release,
                          flow_revert, sync, dbVars
<1>6. ASSUME NEW p \in Procs, Crash(p) PROVE ChainId(j)' = ChainId(j)
  BY <1>1, <1>6 DEF Crash, dbVars
<1> QED
  BY <1>1, <1>4, <1>5, <1>6, WhoSteps, SurroundingsLeave

LEMMA HistoryGrows ==
  ASSUME FlowInv, [FlowNext]_flowVars
  PROVE  /\ attested \subseteq attested' /\ pointers \subseteq pointers' /\ bare \subseteq bare'
         /\ misled \subseteq misled' /\ orphaned \subseteq orphaned'
<1> DEFINE Same == UNCHANGED <<attested, pointers, bare, misled, orphaned>>
<1>1. ASSUME NEW p \in Procs, Run(p)
      PROVE  /\ attested \subseteq attested' /\ pointers \subseteq pointers' /\ bare \subseteq bare'
             /\ misled \subseteq misled' /\ orphaned \subseteq orphaned'
  <2>1. CASE SendRaises(p) \/ Invoke(p)
    BY <2>1 DEF SendRaises, Invoke, dbVars
  <2>2. CASE Unconfirmed(p) \/ RecordTx(p) \/ RecordBare(p) \/ SubmitAttestation(p)
    BY <2>2 DEF Unconfirmed, RecordTx, RecordBare, SubmitAttestation, historyVars
  <2> QED
    BY <1>1, <2>1, <2>2 DEF Run, Submit, SubmitFails, Poll, ReleaseClaim, SetChainIntent,
       Confirm, Approve, SyncRead, SyncChain, SyncUnseen, SyncWrite, cash_out, dbVars,
       historyVars
<1>2. ASSUME NEW p \in Procs, NEW j \in Jobs, Command(p, j) PROVE Same
  BY <1>2 DEF Command, execute, flow_attest, sdk_attest, flow_release, flow_revert, sync,
              dbVars, historyVars
<1>3. ASSUME NEW p \in Procs, Crash(p)
      PROVE  UNCHANGED <<attested, pointers, bare, misled>> /\ orphaned \subseteq orphaned'
  BY <1>3 DEF Crash, dbVars
<1>4. Surroundings => Same
  BY DEF Surroundings, Land, NotLand, Outsider, Passing, flowVars, dbVars, historyVars
<1> QED
  BY <1>1, <1>2, <1>3, <1>4, WhoSteps

(* A running process stops, or goes on for the same job and, but for its   *)
(* submission, with the same transaction.                                  *)
LEMMA ProcessKeeps ==
  ASSUME FlowInv, NEW p \in Procs, Run(p) \/ Crash(p)
  PROVE  /\ proc[p] \in Process
         /\ ~At(p, "idle") /\ Job(p) \in Jobs
         /\ \/ proc'[p] = Idle
            \/ /\ proc'[p].job = proc[p].job /\ proc'[p].after = proc[p].after
               /\ ~Submit(p) => proc'[p].tx = proc[p].tx
<1>0. proc \in [Procs -> Process]
  BY FlowTypes DEF FlowInv
<1> DEFINE Kept == /\ proc'[p].job = proc[p].job /\ proc'[p].after = proc[p].after
                   /\ ~Submit(p) => proc'[p].tx = proc[p].tx
<1>1. ~At(p, "idle")
  BY DEF Run, Crash, Submit, SubmitFails, SendRaises, Invoke, Poll, Unconfirmed,
       ReleaseClaim,
         RecordTx, RecordBare, SetChainIntent, Confirm, Approve, SubmitAttestation,
         SyncRead, SyncChain, SyncUnseen,
         SyncWrite, cash_out, At
<1>2. ASSUME Finish(p) PROVE proc'[p] = Idle
  BY <1>0, <1>2 DEF Finish
<1>3. ASSUME NEW pc, Goto(p, pc) PROVE Kept
  BY <1>0, <1>3 DEF Goto, Process
<1>4. ASSUME Submit(p) PROVE Kept
  <2>1. PICK client \in Clients :
          proc' = [proc EXCEPT ![p].pc = Awaiting(client), ![p].tx = Len(sent) + 1]
    BY <1>4 DEF Submit
  <2> QED
    BY <1>0, <1>4, <2>1 DEF Process
<1>5. ASSUME SubmitAttestation(p) PROVE proc'[p] = Idle \/ Kept
  <2>1. ASSUME NEW rest, proc' = [proc EXCEPT ![p].todo = rest] PROVE Kept
    BY <1>0, <2>1 DEF Process
  <2> QED
    BY <1>2, <1>5, <2>1 DEF SubmitAttestation
<1>6. ASSUME SyncRead(p) \/ SyncChain(p) \/ SyncUnseen(p) PROVE proc'[p] = Idle \/ Kept
  <2>1. ASSUME NEW pc, NEW copy, proc' = [proc EXCEPT ![p].pc = pc, ![p].copy = copy]
        PROVE  Kept
    BY <1>0, <2>1 DEF Process
  <2> QED
    BY <1>2, <1>3, <1>6, <2>1 DEF SyncRead, SyncChain, SyncUnseen, Return
<1>7. proc'[p] = Idle \/ Kept
  BY <1>0, <1>2, <1>3, <1>4, <1>5, <1>6
     DEF Run, Crash, SubmitFails, SendRaises, Invoke, Poll, Unconfirmed, ReleaseClaim,
         RecordTx, RecordBare, SetChainIntent, Confirm, Approve, SyncWrite, Return,
         cash_out, Finish
<1> QED
  BY <1>0, <1>1, <1>7 DEF FlowInv, Busy

(* Which step of a running process leads where.                            *)
LEMMA RunLeads ==
  ASSUME FlowInv, NEW p \in Procs, Run(p) \/ Crash(p)
  PROVE  /\ proc'[p].pc \notin {"submit", "sync_read"}
         /\ proc'[p].pc \in {"poll", "invoke"} <=> Submit(p)
         /\ proc'[p].pc = "unclaim" => \/ SubmitFails(p) \/ SendRaises(p)
                                       \/ Poll(p) /\ sent[proc[p].tx].state = "failed"
                                       \/ Invoke(p)
         /\ proc'[p].pc = "unconfirmed" => Poll(p)
         /\ proc'[p].pc = "record_tx" =>
              (Poll(p) \/ Invoke(p)) /\ sent[proc[p].tx].state = "landed"
         /\ proc'[p].pc = "record_bare" =>
              Invoke(p) /\ sent[proc[p].tx].state = "landed"
         /\ proc'[p].pc = "set_chain" => RecordTx(p) \/ RecordBare(p)
         /\ proc'[p].pc = "confirm" => SetChainIntent(p)
         /\ proc'[p].pc = "sync_chain" => SyncRead(p)
         /\ proc'[p].pc = "sync_write" => SyncChain(p)
         /\ proc'[p].pc = "cash_out" =>
              (SyncChain(p) \/ SyncUnseen(p) \/ SyncWrite(p)) /\ proc[p].after = "cash_out"
<1>0. proc \in [Procs -> Process]
  BY FlowTypes DEF FlowInv
<1>1. ASSUME Finish(p) PROVE proc'[p].pc = "idle"
  BY <1>0, <1>1 DEF Finish, Idle
<1>2. ASSUME NEW pc, Goto(p, pc) PROVE proc'[p].pc = pc
  BY <1>0, <1>2 DEF Goto, Process
<1>3. ASSUME Submit(p) PROVE proc'[p].pc \in {"poll", "invoke"}
  <2>1. PICK client \in Clients :
          proc' = [proc EXCEPT ![p].pc = Awaiting(client), ![p].tx = Len(sent) + 1]
    BY <1>3 DEF Submit
  <2>2. Awaiting(client) \in {"poll", "invoke"}
    BY DEF Awaiting
  <2>3. proc'[p].pc = Awaiting(client)
    BY <1>0, <2>1 DEF Process
  <2> QED
    BY <2>2, <2>3
<1>4. ASSUME SubmitAttestation(p) PROVE proc'[p].pc \in {"idle", "submit_attestations"}
  <2>1. ASSUME NEW rest, proc' = [proc EXCEPT ![p].todo = rest]
        PROVE  proc'[p].pc = proc[p].pc
    BY <1>0, <2>1 DEF Process
  <2> QED
    BY <1>1, <1>4, <2>1 DEF SubmitAttestation, At
<1>5. ASSUME NEW pc, NEW copy, proc' = [proc EXCEPT ![p].pc = pc, ![p].copy = copy]
      PROVE  proc'[p].pc = pc
  BY <1>0, <1>5 DEF Process
<1>6. ASSUME SyncRead(p) PROVE proc'[p].pc = "sync_chain"
  BY <1>5, <1>6 DEF SyncRead
<1>7. ASSUME NEW mapped, Return(p, mapped)
      PROVE  \/ proc'[p].pc = "idle"
             \/ proc'[p].pc = "cash_out" /\ proc[p].after = "cash_out"
  BY <1>1, <1>2, <1>7 DEF Return
<1>8. ASSUME SyncChain(p) \/ SyncUnseen(p)
      PROVE  \/ proc'[p].pc = "idle"
             \/ proc'[p].pc = "sync_write" /\ SyncChain(p)
             \/ proc'[p].pc = "cash_out" /\ proc[p].after = "cash_out"
  BY <1>5, <1>7, <1>8 DEF SyncChain, SyncUnseen
<1>9. ASSUME \/ SubmitFails(p) \/ SendRaises(p) \/ Unconfirmed(p) \/ ReleaseClaim(p)
             \/ RecordTx(p) \/ RecordBare(p) \/ SetChainIntent(p) \/ Confirm(p) \/ Approve(p) \/ cash_out(p)
             \/ Crash(p)
      PROVE  \/ proc'[p].pc \in {"idle", "approve"}
             \/ proc'[p].pc = "unclaim" /\ (SubmitFails(p) \/ SendRaises(p))
             \/ proc'[p].pc = "set_chain" /\ (RecordTx(p) \/ RecordBare(p))
             \/ proc'[p].pc = "confirm" /\ SetChainIntent(p)
  <2>1. CASE SubmitFails(p) \/ SendRaises(p)
    BY <1>2, <2>1 DEF SubmitFails, SendRaises
  <2>2. CASE RecordTx(p) \/ RecordBare(p)
    BY <1>2, <2>2 DEF RecordTx, RecordBare
  <2>3. CASE SetChainIntent(p)
    BY <1>2, <2>3 DEF SetChainIntent
  <2>4. CASE Unconfirmed(p) \/ ReleaseClaim(p) \/ Confirm(p) \/ Approve(p) \/ cash_out(p)
             \/ Crash(p)
    BY <1>1, <1>2, <2>4 DEF Unconfirmed, ReleaseClaim, Confirm, Approve, cash_out, Crash
  <2> QED
    BY <1>9, <2>1, <2>2, <2>3, <2>4
<1>10. ASSUME Poll(p)
       PROVE  \/ proc'[p].pc = "unconfirmed"
              \/ proc'[p].pc = "unclaim" /\ sent[proc[p].tx].state = "failed"
              \/ proc'[p].pc = "record_tx" /\ sent[proc[p].tx].state = "landed"
  BY <1>2, <1>10 DEF Poll
<1>11. ASSUME Invoke(p)
       PROVE  \/ proc'[p].pc = "unclaim"
              \/ /\ proc'[p].pc \in {"record_tx", "record_bare"}
                 /\ sent[proc[p].tx].state = "landed"
  BY <1>2, <1>11 DEF Invoke
<1>12. ASSUME SyncWrite(p)
       PROVE  \/ proc'[p].pc = "idle"
              \/ proc'[p].pc = "cash_out" /\ proc[p].after = "cash_out"
  BY <1>7, <1>12 DEF SyncWrite
<1> QED
  BY <1>3, <1>4, <1>6, <1>8, <1>9, <1>10, <1>11, <1>12 DEF Run

(* What the command line starts, and on what condition.                    *)
LEMMA CommandStarts ==
  ASSUME FlowInv, NEW p \in Procs, NEW j \in Jobs, Command(p, j)
  PROVE  \/ proc'[p] = proc[p]
         \/ /\ At(p, "idle") /\ proc'[p].job = j
            /\ \/ /\ proc'[p].pc = "submit" /\ proc'[p].after = "idle"
                  /\ execute(p, j)
               \/ proc'[p].pc = "submit_attestations" /\ proc'[p].after = "idle"
               \/ /\ proc'[p].pc = "sync_read" /\ OnChain(j)
                  /\ proc'[p].after = "idle" \/ flow_release(p, j)
<1>0. proc \in [Procs -> Process]
  BY FlowTypes DEF FlowInv
<1>1. CASE flow_release(p, j)
  BY <1>0, <1>1 DEF flow_release, Idle
<1>2. CASE \E kind \in AttestKind : flow_attest(p, j, kind) \/ sdk_attest(p, j, kind)
  BY <1>0, <1>2 DEF flow_attest, sdk_attest, Submission, Idle
<1>3. CASE flow_revert(p, j) \/ sync(p, j)
  BY <1>0, <1>3 DEF flow_revert, sync, Start, Idle
<1>4. CASE execute(p, j)
  BY <1>0, <1>4 DEF execute, Start, Idle
<1> QED
  BY <1>1, <1>2, <1>3, <1>4 DEF Command

-----------------------------------------------------------------------------
(***************************************************************************)
(* Transactions and escrows.                                               *)
(***************************************************************************)

LEMMA SubmitAppends ==
  ASSUME FlowInv, NEW p \in Procs, Submit(p) \/ SendRaises(p)
  PROVE  /\ Len(sent) \in Nat /\ Len(sent') = Len(sent) + 1
         /\ \A n \in 1..Len(sent) : sent'[n] = sent[n]
         /\ sent'[Len(sent) + 1] = [job |-> Job(p), state |-> "pending", id |-> 0]
<1> DEFINE new == [job |-> Job(p), state |-> "pending", id |-> 0]
<1>1. sent \in Seq(Tx) /\ Len(sent) \in Nat /\ sent' = Append(sent, new)
  BY SentIsSeq, FlowAssumption DEF FlowInv, Submit, SendRaises
<1>2. new \in Tx
  BY EscrowAssumption DEF FlowInv, Busy, Submit, SendRaises, At, Tx, TxState
<1> HIDE DEF new
<1>3. /\ Len(sent') = Len(sent) + 1
      /\ \A n \in 1..Len(sent) : sent'[n] = sent[n]
      /\ sent'[Len(sent) + 1] = new
  BY <1>1, <1>2, AppendProperties
<1> QED
  BY <1>1, <1>3 DEF new

LEMMA TxKnownNext ==
  ASSUME FlowInv, [FlowNext]_flowVars
  PROVE  TxKnown'
<1>0. /\ proc \in [Procs -> Process] /\ TxKnown /\ SentStep
      /\ pointers \subseteq pointers' /\ bare \subseteq bare'
  BY FlowTypes, FlowTypedNext, HistoryGrows DEF FlowInv
<1> DEFINE KnownAt(r) ==
      r.pc \in Tracking =>
        /\ r.tx \in 1..Len(sent') /\ sent'[r.tx].job = r.job
        /\ r.pc \in Confirmed => sent'[r.tx].state = "landed"
        /\ r.pc = "set_chain" => r.job \in pointers' \cup bare'
<1>1. ASSUME NEW q \in Procs, proc'[q] = proc[q] PROVE KnownAt(proc'[q])
  BY <1>0, <1>1 DEF TxKnown, SentStep, Job, At
<1>2. ASSUME NEW p \in Procs, Run(p) \/ Crash(p), proc'[p].pc \in Tracking
      PROVE  KnownAt(proc'[p])
  <2>0. Idle.pc \notin Tracking
    BY DEF Idle, Tracking, HoldingTx
  <2>1. /\ proc'[p].job = proc[p].job
        /\ ~Submit(p) => proc'[p].tx = proc[p].tx
    BY <1>2, <2>0, ProcessKeeps
  <2>2. CASE Submit(p)
    <3>1. proc'[p].tx = Len(sent) + 1 /\ proc'[p].pc \in {"poll", "invoke"}
      <4>1. PICK client \in Clients :
              proc' = [proc EXCEPT ![p].pc = Awaiting(client), ![p].tx = Len(sent) + 1]
        BY <2>2 DEF Submit
      <4>2. proc'[p].pc = Awaiting(client) /\ proc'[p].tx = Len(sent) + 1
        BY <1>0, <4>1 DEF Process
      <4> QED
        BY <4>2 DEF Awaiting
    <3>2. /\ Len(sent) \in Nat /\ Len(sent') = Len(sent) + 1
          /\ sent'[Len(sent) + 1] = [job |-> Job(p), state |-> "pending", id |-> 0]
      BY <2>2, SubmitAppends
    <3>3. sent'[Len(sent) + 1].job = Job(p) /\ Len(sent) + 1 \in 1..Len(sent')
      BY <3>2
    <3> QED
      BY <2>1, <3>1, <3>3 DEF Confirmed, Job
  <2>3. CASE ~Submit(p)
    <3>1. /\ proc[p].pc \in Tracking
          /\ proc'[p].pc \in Confirmed => sent[proc[p].tx].state = "landed"
          /\ proc'[p].pc = "set_chain" => Job(p) \in pointers' \cup bare'
      BY <1>0, <1>2, <2>3, RunLeads DEF Tracking, HoldingTx, Confirmed, TxKnown,
         Poll, Invoke, RecordTx, RecordBare, SetChainIntent, At
    <3> QED
      BY <1>0, <2>1, <2>3, <3>1 DEF TxKnown, SentStep, Job
  <2> QED
    BY <2>2, <2>3
<1>3. ASSUME NEW p \in Procs, NEW j \in Jobs, Command(p, j) PROVE KnownAt(proc'[p])
  BY <1>1, <1>3, CommandStarts DEF Tracking, HoldingTx
<1>4. \A p \in Procs : KnownAt(proc'[p])
  <2> HIDE DEF KnownAt
  <2>1. ASSUME NEW p \in Procs, Run(p) \/ Crash(p), proc'[p].pc \notin Tracking
        PROVE  KnownAt(proc'[p])
    BY <2>1 DEF KnownAt
  <2> QED
    BY <1>1, <1>2, <1>3, <2>1, WhoSteps, SurroundingsLeave
<1> QED
  BY <1>4 DEF TxKnown, Job, At

LEMMA LandedIsEscrowNext ==
  ASSUME FlowInv, [FlowNext]_flowVars
  PROVE  LandedIsEscrow' /\ EscrowIsLanded'
<1>0. /\ SentStep /\ EscrowTypeOK /\ [EscrowNext]_escrowVars
      /\ sent \in [1..Len(sent) -> Tx] /\ counter \in Nat
  <2>1. FlowTypeOK /\ EscrowTypeOK
    BY DEF FlowInv, FlowTypeOK
  <2> QED
    BY <2>1, FlowTypedNext, SentIsSeq, EscrowAssumption DEF EscrowTypeOK
<1>1. \A id \in 1..counter :
        id \in 1..counter' /\ intents'[id].request_hash = intents[id].request_hash
  BY <1>0, EscrowKept
<1>2. \A n \in 1..Len(sent) : sent[n].state = "landed" =>
        sent'[n] = sent[n] /\ sent[n].id \in EscrowsOf(sent[n].job)
  BY <1>0 DEF SentStep, FlowInv, LandedIsEscrow
<1>3. ASSUME NEW n \in 1..Len(sent), Land(n)
      PROVE  LandedIsEscrow' /\ EscrowIsLanded'
  <2>1. /\ counter' = counter + 1
        /\ intents'[counter + 1].request_hash = sent[n].job
    <3>1. counter + 1 \in 1..counter + 1 /\ counter + 1 \notin 1..counter
      BY <1>0
    <3> QED
      BY <3>1, <1>3 DEF Land, create_intent
  <2>2. /\ sent' \in [1..Len(sent) -> Tx]
        /\ sent'[n] = [sent[n] EXCEPT !.state = "landed", !.id = counter + 1]
        /\ \A m \in 1..Len(sent) \ {n} : sent'[m] = sent[m]
    BY <1>0, <1>3 DEF Land, SentStep
  <2>3. sent'[n].state = "landed" /\ sent'[n].id = counter + 1 /\ sent'[n].job = sent[n].job
    BY <1>0, <2>2 DEF Tx
  <2>4. Len(sent') = Len(sent)
    <3>1. [sent EXCEPT ![n].state = "landed", ![n].id = counter + 1]
            = [sent EXCEPT ![n] = sent'[n]]
      BY <1>0, <2>2
    <3>2. sent' = [sent EXCEPT ![n] = sent'[n]] /\ sent \in Seq(Tx) /\ sent'[n] \in Tx
      BY <1>0, <1>3, <2>2, <3>1, SentIsSeq DEF Land, SentStep, FlowInv
    <3> QED
      BY <3>2, ExceptSeq
  <2>5. ASSUME NEW m \in 1..Len(sent'), sent'[m].state = "landed"
        PROVE  sent'[m].id \in {id \in 1..counter' : intents'[id].request_hash = sent'[m].job}
    <3>1. CASE m = n
      BY <1>0, <2>1, <2>3, <3>1
    <3>2. CASE m # n
      <4>1. sent'[m] = sent[m] /\ sent[m].id \in EscrowsOf(sent[m].job)
        BY <1>2, <2>2, <2>4, <2>5, <3>2
      <4> QED
        BY <1>1, <4>1 DEF EscrowsOf
    <3> QED
      BY <3>1, <3>2
  <2>6. ASSUME NEW id \in 1..counter'
        PROVE  \E m \in 1..Len(sent') : sent'[m].state = "landed" /\ sent'[m].id = id
    <3>1. CASE id = counter + 1
      BY <2>3, <2>4, <3>1
    <3>2. CASE id # counter + 1
      <4>1. id \in 1..counter
        BY <1>0, <2>1, <3>2
      <4>2. PICK m \in 1..Len(sent) : sent[m].state = "landed" /\ sent[m].id = id
        BY <4>1 DEF FlowInv, EscrowIsLanded
      <4> QED
        BY <1>2, <2>4, <4>2
    <3> QED
      BY <3>1, <3>2
  <2> QED
    BY <2>5, <2>6 DEF LandedIsEscrow, EscrowIsLanded, EscrowsOf
<1>4. ASSUME counter' = counter,
             \A n \in 1..Len(sent') : sent'[n].state = "landed" =>
               n \in 1..Len(sent) /\ sent[n].state = "landed"
      PROVE  LandedIsEscrow' /\ EscrowIsLanded'
  <2>1. LandedIsEscrow'
    BY <1>0, <1>1, <1>2, <1>4 DEF LandedIsEscrow, EscrowsOf
  <2>2. EscrowIsLanded'
    BY <1>0, <1>2, <1>4 DEF EscrowIsLanded, FlowInv, SentStep
  <2> QED
    BY <2>1, <2>2
<1>5. ASSUME \A n \in 1..Len(sent) : ~Land(n) PROVE counter' = counter
  <2>1. ASSUME NEW p \in Procs, Run(p) PROVE counter' = counter
    <3>1. CASE Submit(p) \/ SubmitFails(p) \/ SendRaises(p) \/ Invoke(p)
      BY <3>1 DEF Submit, SubmitFails, SendRaises, Invoke, escrowVars
    <3>2. CASE Poll(p) \/ Unconfirmed(p) \/ ReleaseClaim(p) \/ RecordTx(p) \/ RecordBare(p)
                 \/ SetChainIntent(p) \/ Confirm(p)
      BY <3>2 DEF Poll, Unconfirmed, ReleaseClaim, RecordTx, RecordBare, SetChainIntent,
           Confirm, escrowVars
    <3>3. CASE Approve(p) \/ SubmitAttestation(p) \/ cash_out(p)
      BY <3>3 DEF Approve, SubmitAttestation, cash_out, attest, release, refund, escrowVars
    <3>4. CASE SyncRead(p) \/ SyncChain(p) \/ SyncUnseen(p) \/ SyncWrite(p)
      BY <3>4 DEF SyncRead, SyncChain, SyncUnseen, SyncWrite, escrowVars
    <3> QED
      BY <2>1, <3>1, <3>2, <3>3, <3>4 DEF Run
  <2>2. ASSUME NEW p \in Procs, NEW j \in Jobs, Command(p, j) PROVE counter' = counter
    BY <2>2 DEF Command, execute, flow_attest, sdk_attest, flow_release, flow_revert, sync,
       attest, release, refund, escrowVars
  <2>3. ASSUME NEW p \in Procs, Crash(p) PROVE counter' = counter
    BY <2>3 DEF Crash, escrowVars
  <2>4. ASSUME NEW n \in 1..Len(sent), NotLand(n) PROVE counter' = counter
    BY <2>4 DEF NotLand, escrowVars
  <2>5. CASE Outsider
    BY <2>5 DEF Outsider, attest, release, refund, escrowVars
  <2>6. CASE Passing
    BY <2>6 DEF Passing, Ledger, ChangeLine, Tick, escrowVars
  <2>7. CASE UNCHANGED flowVars
    BY <2>7 DEF flowVars, escrowVars
  <2> QED
    BY <1>5, <2>1, <2>2, <2>3, <2>4, <2>5, <2>6, <2>7 DEF FlowNext
<1>6. ASSUME \A n \in 1..Len(sent) : ~Land(n), NEW n \in 1..Len(sent'),
             sent'[n].state = "landed"
      PROVE  n \in 1..Len(sent) /\ sent[n].state = "landed"
  <2>1. CASE UNCHANGED sent
    BY <1>6, <2>1
  <2>2. ASSUME NEW p \in Procs, Submit(p) \/ SendRaises(p)
        PROVE  n \in 1..Len(sent) /\ sent[n].state = "landed"
    <3>1. /\ Len(sent) \in Nat /\ Len(sent') = Len(sent) + 1
          /\ \A m \in 1..Len(sent) : sent'[m] = sent[m]
          /\ sent'[Len(sent) + 1] = [job |-> Job(p), state |-> "pending", id |-> 0]
      BY <2>2, SubmitAppends
    <3>2. sent'[Len(sent) + 1].state = "pending"
      BY <3>1
    <3>3. n # Len(sent) + 1
      BY <1>6, <3>2
    <3>4. n \in 1..Len(sent)
      BY <3>1, <3>3
    <3> QED
      BY <1>6, <3>1, <3>4
  <2>3. ASSUME NEW m \in 1..Len(sent), NotLand(m)
        PROVE  n \in 1..Len(sent) /\ sent[n].state = "landed"
    BY <1>0, <1>6, <2>3 DEF NotLand, Tx
  <2>4. ASSUME NEW p \in Procs, Run(p), ~Submit(p), ~SendRaises(p) PROVE UNCHANGED sent
    BY <2>4 DEF Run, Invoke, Poll, SubmitFails, Unconfirmed, ReleaseClaim,
       RecordTx, RecordBare, SetChainIntent, Confirm, Approve, SubmitAttestation,
       SyncRead, SyncChain, SyncUnseen, SyncWrite, cash_out
  <2>5. ASSUME NEW p \in Procs, Crash(p) \/ \E j \in Jobs : Command(p, j)
        PROVE  UNCHANGED sent
    BY <2>5 DEF Crash, Command, execute, flow_attest, sdk_attest, flow_release,
                flow_revert, sync
  <2>6. Outsider \/ Passing \/ UNCHANGED flowVars => UNCHANGED sent
    BY DEF Outsider, Passing, flowVars
  <2> QED
    BY <1>6, <2>1, <2>2, <2>3, <2>4, <2>5, <2>6 DEF FlowNext
<1> QED
  BY <1>3, <1>4, <1>5, <1>6

-----------------------------------------------------------------------------
(***************************************************************************)
(* At most one transaction of a job that may still fund an escrow.         *)
(***************************************************************************)

LEMMA NewTx ==
  ASSUME FlowInv, [FlowNext]_flowVars, NEW n \in 1..Len(sent'), n \notin 1..Len(sent)
  PROVE  \E p \in Procs : /\ Submit(p) \/ SendRaises(p)
                          /\ n = Len(sent) + 1 /\ sent'[n].job = Job(p)
<1>0. SentStep /\ sent \in [1..Len(sent) -> Tx]
  BY FlowTypedNext, SentIsSeq DEF FlowInv
<1>1. ASSUME NEW p \in Procs, Submit(p) \/ SendRaises(p)
      PROVE  n = Len(sent) + 1 /\ sent'[n].job = Job(p)
  <2>1. /\ Len(sent) \in Nat /\ Len(sent') = Len(sent) + 1
        /\ sent'[Len(sent) + 1] = [job |-> Job(p), state |-> "pending", id |-> 0]
    BY <1>1, SubmitAppends
  <2>2. n = Len(sent) + 1
    BY <2>1
  <2> QED
    BY <2>1, <2>2
<1>2. ASSUME NEW m \in 1..Len(sent), Land(m) \/ NotLand(m) PROVE FALSE
  <2>1. DOMAIN sent' = 1..Len(sent)
    BY <1>0, <1>2 DEF Land, NotLand
  <2> QED
    BY <1>0, <2>1 DEF SentStep
<1>3. ASSUME NEW p \in Procs, Run(p), ~Submit(p), ~SendRaises(p) PROVE UNCHANGED sent
  BY <1>3 DEF Run, Invoke, Poll, SubmitFails, Unconfirmed, ReleaseClaim,
     RecordTx, RecordBare, SetChainIntent, Confirm, Approve, SubmitAttestation,
     SyncRead, SyncChain, SyncUnseen, SyncWrite, cash_out
<1>4. ASSUME NEW p \in Procs, Crash(p) \/ \E j \in Jobs : Command(p, j)
      PROVE  UNCHANGED sent
  BY <1>4 DEF Crash, Command, execute, flow_attest, sdk_attest, flow_release,
              flow_revert, sync
<1>5. Outsider \/ Passing \/ UNCHANGED flowVars => UNCHANGED sent
  BY DEF Outsider, Passing, flowVars
<1>6. ~UNCHANGED sent
  OBVIOUS
<1> QED
  BY <1>1, <1>2, <1>3, <1>4, <1>5, <1>6 DEF FlowNext

(* A job whose other transactions came to nothing can only lose that by a  *)
(* submission of its own.                                                  *)
InVainNext(j, tx) ==
  \A n \in 1..Len(sent') :
    sent'[n].job = j /\ n # tx => sent'[n].state \in {"failed", "expired"}

LEMMA InVainKept ==
  ASSUME FlowInv, [FlowNext]_flowVars, NEW j, NEW tx, InVain(j, tx), j \notin misled',
         \A p \in Procs : Submit(p) => Job(p) # j
  PROVE  InVainNext(j, tx)
<1> SUFFICES ASSUME NEW n \in 1..Len(sent'), sent'[n].job = j, n # tx
             PROVE  sent'[n].state \in {"failed", "expired"}
  BY DEF InVainNext
<1>1. CASE n \in 1..Len(sent)
  BY <1>1, FlowTypedNext DEF SentStep, InVain, Dead
<1>2. CASE n \notin 1..Len(sent)
  <2>1. PICK p \in Procs : /\ Submit(p) \/ SendRaises(p)
                           /\ n = Len(sent) + 1 /\ sent'[n].job = Job(p)
    BY <1>2, NewTx
  <2> QED
    BY <2>1 DEF SendRaises
<1> QED
  BY <1>1, <1>2

LEMMA OneLiveNext ==
  ASSUME FlowInv, [FlowNext]_flowVars
  PROVE  OneLive'
<1>0. SentStep /\ misled \subseteq misled'
  BY FlowTypedNext, HistoryGrows
<1> DEFINE Live(n) == sent'[n].state \notin {"failed", "expired"}
<1>1. ASSUME NEW m \in 1..Len(sent), NEW n \in 1..Len(sent') \ 1..Len(sent),
             sent'[m].job = sent'[n].job, sent'[m].job \notin misled', Live(m)
      PROVE  FALSE
  <2>1. PICK p \in Procs : /\ Submit(p) \/ SendRaises(p)
                           /\ sent'[n].job = Job(p)
    BY NewTx
  <2>2. Submit(p)
    BY <1>1, <2>1 DEF SendRaises
  <2>3. InVain(Job(p), 0)
    BY <1>0, <1>1, <2>1, <2>2 DEF FlowInv, NothingElseLive, Submit, At
  <2>4. sent[m].job = Job(p) /\ m # 0
    BY <1>0, <1>1, <2>1 DEF SentStep
  <2>5. Dead(m)
    BY <1>0, <2>3, <2>4 DEF InVain
  <2> QED
    BY <1>0, <1>1, <2>5 DEF SentStep, Dead
<1>2. ASSUME NEW m \in 1..Len(sent), NEW n \in 1..Len(sent),
             sent'[m].job = sent'[n].job, sent'[m].job \notin misled', Live(m), Live(n)
      PROVE  m = n
  <2>1. sent[m].job = sent[n].job /\ sent[m].job \notin misled /\ ~Dead(m) /\ ~Dead(n)
    BY <1>0, <1>2 DEF SentStep, Dead
  <2> QED
    BY <2>1 DEF FlowInv, OneLive
<1>3. ASSUME NEW m \in 1..Len(sent') \ 1..Len(sent), NEW n \in 1..Len(sent') \ 1..Len(sent)
      PROVE  m = n
  BY NewTx
<1> QED
  BY <1>1, <1>2, <1>3 DEF OneLive, Dead

LEMMA NothingElseLiveNext ==
  ASSUME FlowInv, [FlowNext]_flowVars
  PROVE  NothingElseLive'
<1>0. /\ proc \in [Procs -> Process] /\ NothingElseLive /\ TxKnown
      /\ misled \subseteq misled' /\ SentStep
  BY FlowTypes, FlowTypedNext, HistoryGrows DEF FlowInv
<1> DEFINE NothingElse(r) == r.job \notin misled' =>
      /\ r.pc \in {"submit", "unclaim"} => InVainNext(r.job, 0)
      /\ r.pc \in {"poll", "invoke"} => InVainNext(r.job, r.tx)
<1>1. ASSUME NEW q \in Procs, proc'[q] = proc[q],
             \A p \in Procs : Submit(p) /\ proc[q].pc \in Claiming => Job(p) # Job(q)
      PROVE  NothingElse(proc'[q])
  <2>1. /\ Job(q) \notin misled' => Job(q) \notin misled
        /\ proc[q].pc \in {"submit", "unclaim", "poll", "invoke"} => proc[q].pc \in Claiming
    BY <1>0 DEF Claiming
  <2> QED
    BY <1>0, <1>1, <2>1, InVainKept DEF NothingElseLive, Job
<1>2. ASSUME NEW p \in Procs, Run(p) \/ Crash(p) PROVE NothingElse(proc'[p])
  <2> SUFFICES ASSUME proc'[p].job \notin misled',
                      proc'[p].pc \in {"unclaim", "poll", "invoke"}
               PROVE  /\ proc'[p].pc = "unclaim" => InVainNext(Job(p), 0)
                      /\ proc'[p].pc \in {"poll", "invoke"} => InVainNext(Job(p), proc'[p].tx)
                      /\ proc'[p].job = Job(p)
    BY <1>2, RunLeads
  <2>1. /\ proc'[p].job = Job(p) /\ Job(p) \notin misled' /\ Job(p) \notin misled
        /\ ~Submit(p) => proc'[p].tx = proc[p].tx
    <3>1. Idle.pc = "idle"
      BY DEF Idle
    <3> QED
      BY <1>0, <1>2, <3>1, ProcessKeeps DEF Job
  <2>2. CASE proc'[p].pc \in {"poll", "invoke"}
    <3>1. Submit(p) /\ InVain(Job(p), 0)
      BY <1>0, <1>2, <2>1, <2>2, RunLeads DEF Submit, At, NothingElseLive
    <3>2. proc'[p].tx = Len(sent) + 1
      <4>1. PICK client \in Clients :
              proc' = [proc EXCEPT ![p].pc = Awaiting(client), ![p].tx = Len(sent) + 1]
        BY <3>1 DEF Submit
      <4> QED
        BY <1>0, <4>1 DEF Process
    <3>3. ASSUME NEW n \in 1..Len(sent'), sent'[n].job = Job(p), n # Len(sent) + 1
          PROVE  sent'[n].state \in {"failed", "expired"}
      <4>1. n \in 1..Len(sent)
        BY <3>3, NewTx
      <4> QED
        BY <1>0, <3>1, <3>3, <4>1 DEF InVain, Dead, SentStep
    <3> QED
      BY <2>1, <2>2, <3>2, <3>3 DEF InVainNext
  <2>3. CASE proc'[p].pc = "unclaim"
    <3>1. ~Submit(p) /\ ~SendRaises(p)
      BY <1>2, <2>1, <2>3, RunLeads DEF SendRaises
    <3>2. \/ SubmitFails(p)
          \/ Poll(p) /\ sent[proc[p].tx].state = "failed"
          \/ Invoke(p)
      BY <1>2, <2>3, <3>1, RunLeads
    <3>3. InVain(Job(p), 0)
      <4>1. CASE SubmitFails(p)
        BY <1>0, <2>1, <4>1 DEF SubmitFails, At, NothingElseLive
      <4>2. CASE Invoke(p)
        <5>1. sent[proc[p].tx].state \in {"failed", "expired"}
          BY <1>0, <2>1, <2>3, <4>2 DEF Invoke, Goto, Process
        <5> QED
          BY <1>0, <2>1, <4>2, <5>1 DEF Invoke, At, NothingElseLive, InVain, Dead
      <4>3. CASE Poll(p) /\ sent[proc[p].tx].state = "failed"
        BY <1>0, <2>1, <4>3 DEF Poll, At, NothingElseLive, InVain, Dead
      <4> QED
        BY <3>2, <4>1, <4>2, <4>3
    <3>4. UNCHANGED sent
      BY <3>2 DEF SubmitFails, Poll, Invoke
    <3> QED
      BY <2>1, <2>3, <3>3, <3>4 DEF InVain, InVainNext, Dead
  <2> QED
    BY <2>1, <2>2, <2>3
<1>3. ASSUME NEW p \in Procs, NEW j \in Jobs, Command(p, j), proc'[p] # proc[p]
      PROVE  NothingElse(proc'[p])
  <2>1. CASE execute(p, j)
    <3>1. row[j].status = "proposed" /\ UNCHANGED sent
      BY <2>1 DEF execute
    <3>2. j \notin misled => InVain(j, 0)
      BY <3>1 DEF FlowInv, ProposedIsClean, InVain, Dead
    <3>3. proc'[p].pc = "submit" /\ proc'[p].job = j
      BY <1>0, <2>1 DEF execute, Start, Idle
    <3> QED
      BY <1>0, <3>1, <3>2, <3>3 DEF InVain, InVainNext, Dead
  <2>2. CASE ~execute(p, j)
    BY <1>3, <2>2, CommandStarts
  <2> QED
    BY <2>1, <2>2
<1>4. ASSUME NEW p \in Procs, NEW q \in Procs, Submit(p), proc'[q] = proc[q],
             proc[q].pc \in Claiming
      PROVE  Job(p) # Job(q)
  <2>1. proc'[p].pc # proc[p].pc
    BY <1>4, RunLeads DEF Run, Submit, At
  <2>2. p # q /\ proc[p].pc \in Claiming
    BY <1>4, <2>1 DEF Submit, At, Claiming
  <2> QED
    BY <1>4, <2>2 DEF FlowInv, ClaimHeld
<1>5. \A q \in Procs : NothingElse(proc'[q])
  <2> HIDE DEF NothingElse
  <2> QED
    BY <1>1, <1>2, <1>3, <1>4, WhoSteps, SurroundingsLeave
<1> QED
  BY <1>5 DEF NothingElseLive, Job, InVain, InVainNext, Dead

LEMMA ProposedIsCleanNext ==
  ASSUME FlowInv, [FlowNext]_flowVars
  PROVE  ProposedIsClean'
<1>0. /\ row \in [Jobs -> Row] /\ misled \subseteq misled'
      /\ \A p \in Procs : ~At(p, "idle") => Job(p) \in Jobs
  BY FlowTypes, HistoryGrows DEF FlowInv, Busy
<1> SUFFICES ASSUME NEW j \in Jobs, j \notin misled', row'[j].status = "proposed"
             PROVE  InVainNext(j, 0)
  BY ClaimHeldNext DEF ProposedIsClean, ClaimHeld, InVainNext
<1>1. CASE row[j].status = "proposed"
  <2>1. InVain(j, 0)
    BY <1>0, <1>1 DEF FlowInv, ProposedIsClean, InVain, Dead
  <2>2. \A p \in Procs : Submit(p) => Job(p) # j
    BY <1>1 DEF FlowInv, ClaimHeld, Claiming, Submit, At
  <2> QED
    BY <2>1, <2>2, InVainKept
<1>2. CASE row[j].status # "proposed"
  <2>1. ASSUME NEW p \in Procs, ReleaseClaim(p) PROVE InVainNext(j, 0)
    <3>1. Job(p) = j
      BY <1>0, <1>2, <2>1 DEF ReleaseClaim, At
    <3>2. InVain(j, 0)
      BY <1>0, <2>1, <3>1 DEF FlowInv, NothingElseLive, ReleaseClaim, At
    <3> QED
      BY <2>1, <3>2 DEF ReleaseClaim, InVain, InVainNext, Dead
  <2>2. ~UNCHANGED row
    BY <1>2
  <2>3. ASSUME NEW p \in Procs, Approve(p) \/ SetChainIntent(p) PROVE FALSE
    BY <1>0, <1>2, <2>3 DEF Approve, SetChainIntent, At, Row
  <2>4. ASSUME NEW p \in Procs, SyncWrite(p) PROVE FALSE
    BY <1>0, <1>2, <2>4 DEF SyncWrite, At, FlowInv, SyncSound
  <2>5. ASSUME NEW p \in Procs, Run(p), ~ReleaseClaim(p) PROVE FALSE
    BY <2>2, <2>3, <2>4, <2>5 DEF Run, Submit, SubmitFails, SendRaises, Invoke, Poll,
       Unconfirmed, RecordTx, RecordBare, Confirm, SubmitAttestation, SyncRead,
       SyncChain, SyncUnseen, cash_out, dbVars
  <2>6. ASSUME NEW p \in Procs, NEW k \in Jobs, Command(p, k) PROVE FALSE
    <3>1. ~execute(p, k)
      BY <1>0, <1>2 DEF execute
    <3> QED
      BY <2>2, <2>6, <3>1 DEF Command, flow_attest, sdk_attest, flow_release, flow_revert,
         sync, dbVars
  <2>7. ASSUME NEW p \in Procs, Crash(p) PROVE FALSE
    BY <2>2, <2>7 DEF Crash, dbVars
  <2> QED
    BY <2>1, <2>2, <2>5, <2>6, <2>7, WhoSteps, SurroundingsLeave
<1> QED
  BY <1>1, <1>2

-----------------------------------------------------------------------------
(***************************************************************************)
(* Pointers.                                                               *)
(***************************************************************************)

LEMMA SubmitHolds ==
  ASSUME FlowInv, NEW p \in Procs, Submit(p)
  PROVE  proc'[p].pc \in HoldingTx /\ proc'[p].tx = Len(sent) + 1
<1>1. proc \in [Procs -> Process]
  BY FlowTypes DEF FlowInv
<1>2. PICK client \in Clients :
        proc' = [proc EXCEPT ![p].pc = Awaiting(client), ![p].tx = Len(sent) + 1]
  BY DEF Submit
<1>3. proc'[p].pc = Awaiting(client) /\ proc'[p].tx = Len(sent) + 1
  BY <1>1, <1>2 DEF Process
<1> QED
  BY <1>3 DEF Awaiting, HoldingTx

LEMMA EscrowIsTraceableNext ==
  ASSUME FlowInv, [FlowNext]_flowVars
  PROVE  EscrowIsTraceable'
<1>0. /\ proc \in [Procs -> Process] /\ SentStep /\ row \in [Jobs -> Row]
      /\ pointers \subseteq pointers' /\ misled \subseteq misled' /\ orphaned \subseteq orphaned'
  BY FlowTypes, FlowTypedNext, HistoryGrows DEF FlowInv
<1> DEFINE Traceable(n) ==
      \/ sent'[n].state \in {"failed", "expired"}
      \/ sent'[n].job \in pointers' \cup orphaned' \cup misled'
      \/ sent'[n].state = "landed" /\ row'[sent'[n].job].chain_intent_id = sent'[n].id
      \/ \E p \in Procs : proc'[p].tx = n /\ proc'[p].pc \in HoldingTx
<1>1. ASSUME NEW n \in 1..Len(sent'), n \notin 1..Len(sent) PROVE Traceable(n)
  <2>1. PICK p \in Procs : /\ Submit(p) \/ SendRaises(p)
                           /\ n = Len(sent) + 1 /\ sent'[n].job = Job(p)
    BY <1>1, NewTx
  <2>2. CASE Submit(p)
    BY <2>1, <2>2, SubmitHolds
  <2>3. CASE SendRaises(p)
    BY <2>1, <2>3 DEF SendRaises
  <2> QED
    BY <2>1, <2>2, <2>3
<1>2. ASSUME NEW n \in 1..Len(sent), NEW p \in Procs,
             proc[p].tx = n, proc[p].pc \in HoldingTx
      PROVE  Traceable(n)
  <2>1. sent'[n].job = Job(p) /\ ~At(p, "idle")
    BY <1>0, <1>2 DEF FlowInv, TxKnown, Tracking, SentStep, HoldingTx, At
  <2>2. CASE proc'[p] = proc[p]
    BY <1>2, <2>2
  <2>3. ASSUME Run(p) \/ Crash(p) PROVE Traceable(n)
    <3>1. CASE Crash(p)
      <4>1. Job(p) \in pointers \/ Job(p) \in orphaned'
        BY <1>2, <3>1 DEF Crash
      <4> QED
        BY <1>0, <2>1, <4>1
    <3>2. CASE Unconfirmed(p) \/ RecordTx(p)
      BY <2>1, <3>2 DEF Unconfirmed, RecordTx
    <3>3. CASE RecordBare(p)
      <4>1. proc'[p].tx = n /\ proc'[p].pc = "set_chain"
        BY <1>0, <1>2, <3>3 DEF RecordBare, Goto, Process
      <4> QED
        BY <4>1 DEF HoldingTx
    <3>4. CASE SetChainIntent(p)
      <4>1. sent[n].state = "landed" /\ Job(p) \in Jobs
        BY <1>2, <2>1, <3>4 DEF SetChainIntent, At, FlowInv, Busy, TxKnown, Tracking,
             Confirmed,
           HoldingTx
      <4>2. row'[Job(p)].chain_intent_id = sent[n].id
        BY <1>0, <1>2, <3>4, <4>1 DEF SetChainIntent, Row
      <4>3. sent'[n] = sent[n]
        BY <1>0, <4>1 DEF SentStep
      <4> QED
        BY <2>1, <4>1, <4>2, <4>3
    <3>5. CASE Poll(p)
      <4>1. CASE sent[n].state = "failed"
        BY <1>0, <4>1 DEF SentStep
      <4>2. CASE Goto(p, "record_tx") \/ Goto(p, "unconfirmed")
        <5>1. ASSUME NEW pc, Goto(p, pc) PROVE proc'[p].tx = n /\ proc'[p].pc = pc
          BY <1>0, <1>2, <5>1 DEF Goto, Process
        <5> QED
          BY <4>2, <5>1 DEF HoldingTx
      <4> QED
        BY <1>2, <3>5, <4>1, <4>2 DEF Poll
    <3>6. CASE Invoke(p)
      <4>1. CASE sent[n].state \in {"failed", "expired"}
        BY <1>0, <4>1 DEF SentStep
      <4>2. CASE Goto(p, "record_tx") \/ Goto(p, "record_bare")
        <5>1. ASSUME NEW pc, Goto(p, pc) PROVE proc'[p].tx = n /\ proc'[p].pc = pc
          BY <1>0, <1>2, <5>1 DEF Goto, Process
        <5> QED
          BY <4>2, <5>1 DEF HoldingTx
      <4>3. CASE Job(p) \in misled'
        BY <2>1, <4>3
      <4> QED
        BY <1>2, <3>6, <4>1, <4>2, <4>3 DEF Invoke
    <3> QED
      BY <1>2, <2>3, <3>1, <3>2, <3>3, <3>4, <3>5, <3>6
         DEF Run, Submit, SubmitFails, SendRaises, ReleaseClaim, Confirm,
             Approve, SubmitAttestation, SyncRead, SyncChain, SyncUnseen, SyncWrite,
             cash_out, At,
             HoldingTx
  <2>4. ASSUME NEW j \in Jobs, Command(p, j) PROVE proc'[p] = proc[p]
    BY <2>1, <2>4, CommandStarts
  <2> HIDE DEF Traceable
  <2> QED
    BY <2>2, <2>3, <2>4, WhoSteps, SurroundingsLeave
<1>3. ASSUME NEW n \in 1..Len(sent) PROVE Traceable(n)
  <2>1. CASE Dead(n)
    BY <1>0, <2>1 DEF SentStep, Dead
  <2>2. CASE sent[n].job \in pointers \cup orphaned \cup misled
    BY <1>0, <2>2 DEF SentStep
  <2>3. CASE sent[n].state = "landed" /\ ChainId(sent[n].job) = sent[n].id
    <3>1. sent[n].id \in 1..counter /\ sent[n].job \in Jobs
      BY <2>3, SentIsSeq DEF FlowInv, LandedIsEscrow, EscrowsOf, Tx
    <3>2. OnChain(sent[n].job)
      BY <2>3, <3>1, FlowAssumption DEF OnChain
    <3>3. row'[sent[n].job].chain_intent_id = sent[n].id
      BY <2>3, <3>1, <3>2, ChainIdKept DEF ChainId
    <3>4. sent'[n] = sent[n]
      BY <1>0, <2>3 DEF SentStep
    <3> QED
      BY <2>3, <3>3, <3>4
  <2> HIDE DEF Traceable
  <2> QED
    BY <1>2, <2>1, <2>2, <2>3 DEF FlowInv, EscrowIsTraceable, Dead
<1> QED
  BY <1>1, <1>3 DEF EscrowIsTraceable, ChainId

(* Only set_chain_intent gives a row its escrow.                           *)
LEMMA ChainIdSet ==
  ASSUME FlowInv, [FlowNext]_flowVars, NEW j \in Jobs, OnChain(j)', ~OnChain(j)
  PROVE  \E p \in Procs : SetChainIntent(p) /\ Job(p) = j
<1>0. /\ row \in [Jobs -> Row]
      /\ \A p \in Procs : ~At(p, "idle") => Job(p) \in Jobs
  BY FlowTypes DEF FlowInv, Busy
<1> USE DEF OnChain, ChainId
<1>1. ~UNCHANGED row
  OBVIOUS
<1>2. ASSUME NEW k \in Jobs, NEW s PROVE row' # [row EXCEPT ![k].status = s]
  BY <1>0, <1>2 DEF Row
<1>3. ASSUME NEW p \in Procs, SetChainIntent(p) PROVE Job(p) = j
  BY <1>0, <1>3 DEF SetChainIntent
<1>4. ASSUME NEW p \in Procs, Run(p), ~SetChainIntent(p) PROVE FALSE
  <2>1. ~ReleaseClaim(p) /\ ~Approve(p) /\ ~SyncWrite(p)
    BY <1>0, <1>1, <1>2 DEF ReleaseClaim, Approve, SyncWrite, At
  <2> QED
    BY <1>1, <1>4, <2>1 DEF Run, Submit, SubmitFails, SendRaises, Invoke, Poll,
       Unconfirmed, RecordTx, RecordBare, Confirm, SubmitAttestation, SyncRead,
       SyncChain, SyncUnseen, cash_out, dbVars
<1>5. ASSUME NEW p \in Procs, NEW k \in Jobs, Command(p, k) PROVE FALSE
  BY <1>1, <1>2, <1>5 DEF Command, execute, flow_attest, sdk_attest, flow_release,
                          flow_revert, sync, dbVars
<1>6. ASSUME NEW p \in Procs, Crash(p) PROVE FALSE
  BY <1>1, <1>6 DEF Crash, dbVars
<1> QED
  BY <1>1, <1>3, <1>4, <1>5, <1>6, WhoSteps, SurroundingsLeave

LEMMA RecordedFirstNext ==
  ASSUME FlowInv, [FlowNext]_flowVars
  PROVE  RecordedFirst'
<1> SUFFICES ASSUME NEW j \in Jobs, OnChain(j)' PROVE j \in pointers' \cup bare'
  BY DEF RecordedFirst
<1>1. CASE OnChain(j)
  BY <1>1, HistoryGrows DEF FlowInv, RecordedFirst
<1>2. ASSUME NEW p \in Procs, SetChainIntent(p), Job(p) = j
      PROVE  j \in pointers' \cup bare'
  BY <1>2, HistoryGrows DEF SetChainIntent, At, FlowInv, TxKnown, Tracking, HoldingTx
<1> QED
  BY <1>1, <1>2, ChainIdSet

-----------------------------------------------------------------------------
(***************************************************************************)
(* Reconciliation.                                                         *)
(***************************************************************************)

(* Escrowed after the step.                                                *)
EscrowedNext(j, status) ==
  /\ row'[j].chain_intent_id # NoId
  /\ intents'[row'[j].chain_intent_id].status = status

(* A row keeps its escrow, and a settled escrow its status.                *)
LEMMA EscrowedKept ==
  ASSUME FlowInv, [FlowNext]_flowVars, NEW j \in Jobs, OnChain(j)
  PROVE  /\ row'[j].chain_intent_id = ChainId(j)
         /\ ChainId(j) \in 1..counter /\ ChainId(j) \in 1..counter'
         /\ \A s \in {"Released", "Refunded"} : Escrowed(j, s) => EscrowedNext(j, s)
<1>1. row'[j].chain_intent_id = ChainId(j)
  BY ChainIdKept DEF ChainId
<1>2. ChainId(j) \in 1..counter
  BY DEF FlowInv, LocalBehindChain, EscrowsOf
<1>3. EscrowTypeOK /\ [EscrowNext]_escrowVars
  BY FlowTypedNext DEF FlowInv, FlowTypeOK
<1>4. /\ ChainId(j) \in 1..counter'
      /\ intents[ChainId(j)].status # "Funded" =>
           intents'[ChainId(j)].status = intents[ChainId(j)].status
  BY <1>2, <1>3, EscrowKept
<1>5. \A s \in {"Released", "Refunded"} : Escrowed(j, s) => EscrowedNext(j, s)
  BY <1>1, <1>4 DEF Escrowed, EscrowedNext, OnChain
<1> QED
  BY <1>1, <1>2, <1>4, <1>5

LEMMA SyncSoundNext ==
  ASSUME FlowInv, [FlowNext]_flowVars
  PROVE  SyncSound'
<1>0. /\ proc \in [Procs -> Process] /\ SyncSound /\ EscrowTypeOK
      /\ \A p \in Procs : ~At(p, "idle") => Job(p) \in Jobs
  BY FlowTypes DEF FlowInv, Busy
<1> DEFINE Sound(r) ==
      /\ r.pc \in Syncing => row'[r.job].chain_intent_id # NoId
      /\ r.pc = "sync_write" =>
           \/ r.copy = "escrowed"
           \/ r.copy = "released" /\ EscrowedNext(r.job, "Released")
           \/ r.copy = "reverted" /\ EscrowedNext(r.job, "Refunded")
<1>1. ASSUME NEW q \in Procs, NEW j \in Jobs, Job(q) = j, OnChain(j)
      PROVE  /\ row'[j].chain_intent_id # NoId
             /\ \A s \in {"Released", "Refunded"} : Escrowed(j, s) => EscrowedNext(j, s)
  BY <1>1, EscrowedKept DEF OnChain
<1>2. ASSUME NEW q \in Procs, proc'[q] = proc[q] PROVE Sound(proc'[q])
  <2>1. proc[q].pc \in Syncing => Job(q) \in Jobs /\ OnChain(Job(q))
    BY <1>0 DEF SyncSound, Syncing, At
  <2>2. At(q, "sync_write") => proc[q].pc \in Syncing
    BY DEF At, Syncing
  <2> QED
    BY <1>0, <1>1, <1>2, <2>1, <2>2 DEF SyncSound, At, Job
<1>3. ASSUME NEW p \in Procs, Run(p) \/ Crash(p), proc'[p].pc \in Syncing
      PROVE  Sound(proc'[p])
  <2>1. /\ proc'[p].job = Job(p) /\ Job(p) \in Jobs
        /\ SyncRead(p) \/ SyncChain(p) \/ SyncUnseen(p) \/ SyncWrite(p)
    <3>1. Idle.pc \notin Syncing
      BY DEF Idle, Syncing
    <3> QED
      BY <1>3, <3>1, ProcessKeeps, RunLeads DEF Syncing, Job
  <2>2. OnChain(Job(p))
    BY <1>0, <2>1 DEF SyncSound, Syncing, SyncRead, SyncChain, SyncUnseen, SyncWrite, At
  <2>3. row'[proc'[p].job].chain_intent_id # NoId
    BY <1>1, <2>1, <2>2
  <2>4. ASSUME proc'[p].pc = "sync_write" PROVE Sound(proc'[p])
    <3>1. SyncChain(p) /\ ~At(p, "sync_write")
      BY <1>3, <2>4, RunLeads DEF SyncChain, At
    <3> DEFINE status == intents[ChainId(Job(p))].status
    <3>2. proc'[p].copy = Mapped(status)
      <4>1. ASSUME NEW mapped, Return(p, mapped) PROVE proc'[p].pc # "sync_write"
        <5>1. CASE Goto(p, "cash_out")
          BY <1>0, <5>1 DEF Goto, Process
        <5>2. CASE Finish(p)
          BY <1>0, <5>2 DEF Finish, Idle
        <5> QED
          BY <4>1, <5>1, <5>2 DEF Return
      <4>2. ASSUME NEW copy, proc' = [proc EXCEPT ![p].pc = "sync_write", ![p].copy = copy]
            PROVE  proc'[p].copy = copy
        BY <1>0, <4>2 DEF Process
      <4> QED
        BY <2>4, <3>1, <4>1, <4>2 DEF SyncChain
    <3>3. ChainId(Job(p)) \in 1..counter
      BY <2>1, <2>2, EscrowedKept
    <3>4. status \in Status
      BY <1>0, <3>3 DEF EscrowTypeOK, Intent
    <3>5. \/ status = "Funded" /\ proc'[p].copy = "escrowed"
          \/ status = "Released" /\ proc'[p].copy = "released"
          \/ status = "Refunded" /\ proc'[p].copy = "reverted"
      BY <3>2, <3>4 DEF Mapped, Status
    <3>6. status \in {"Released", "Refunded"} => EscrowedNext(Job(p), status)
      BY <1>1, <2>1, <2>2 DEF Escrowed
    <3> HIDE DEF status
    <3> QED
      BY <2>1, <2>3, <3>5, <3>6
  <2> QED
    BY <2>3, <2>4
<1>4. ASSUME NEW p \in Procs, NEW j \in Jobs, Command(p, j), proc'[p] # proc[p]
      PROVE  Sound(proc'[p])
  <2>1. proc'[p].job = j /\ proc'[p].pc # "sync_write"
    BY <1>4, CommandStarts
  <2>2. proc'[p].pc \in Syncing => OnChain(j)
    BY <1>4, CommandStarts DEF Syncing
  <2> QED
    BY <2>1, <2>2, EscrowedKept DEF OnChain
<1>5. \A q \in Procs : Sound(proc'[q])
  <2>1. \A q \in Procs : proc'[q].pc \notin Syncing => Sound(proc'[q])
    BY DEF Syncing
  <2> HIDE DEF Sound
  <2> QED
    BY <1>2, <1>3, <1>4, <2>1, WhoSteps, SurroundingsLeave
<1> QED
  BY <1>5 DEF SyncSound, Escrowed, EscrowedNext, OnChain, ChainId, Job, At

(* Only a sync makes a row say released or reverted.                       *)
LEMMA FinalStatusSet ==
  ASSUME FlowInv, [FlowNext]_flowVars, NEW j \in Jobs,
         row'[j].status \in {"released", "reverted"}, row'[j].status # row[j].status
  PROVE  \E p \in Procs : SyncWrite(p) /\ Job(p) = j /\ row'[j].status = proc[p].copy
<1>0. /\ row \in [Jobs -> Row]
      /\ \A p \in Procs : ~At(p, "idle") => Job(p) \in Jobs
  BY FlowTypes DEF FlowInv, Busy
<1>1. ~UNCHANGED row
  OBVIOUS
<1>2. ASSUME NEW k \in Jobs, NEW s \in {"proposed", "escrowed"}
      PROVE  row' # [row EXCEPT ![k].status = s]
  BY <1>0, <1>2 DEF Row
<1>3. ASSUME NEW k \in Jobs, NEW id PROVE row' # [row EXCEPT ![k].chain_intent_id = id]
  BY <1>0, <1>3 DEF Row
<1>4. ASSUME NEW p \in Procs, SyncWrite(p)
      PROVE  Job(p) = j /\ row'[j].status = proc[p].copy
  BY <1>0, <1>4 DEF SyncWrite, At, Row
<1>5. ASSUME NEW p \in Procs, Run(p), ~SyncWrite(p) PROVE FALSE
  <2>1. ~ReleaseClaim(p) /\ ~Approve(p) /\ ~SetChainIntent(p)
    BY <1>0, <1>1, <1>2, <1>3 DEF ReleaseClaim, Approve, SetChainIntent, At
  <2> QED
    BY <1>1, <1>5, <2>1 DEF Run, Submit, SubmitFails, SendRaises, Invoke, Poll,
       Unconfirmed, RecordTx, RecordBare, Confirm, SubmitAttestation, SyncRead,
       SyncChain, SyncUnseen, cash_out, dbVars
<1>6. ASSUME NEW p \in Procs, NEW k \in Jobs, Command(p, k) PROVE FALSE
  BY <1>1, <1>2, <1>6 DEF Command, execute, flow_attest, sdk_attest, flow_release,
                          flow_revert, sync, dbVars
<1>7. ASSUME NEW p \in Procs, Crash(p) PROVE FALSE
  BY <1>1, <1>7 DEF Crash, dbVars
<1> QED
  BY <1>1, <1>4, <1>5, <1>6, <1>7, WhoSteps, SurroundingsLeave

LEMMA LocalBehindChainNext ==
  ASSUME FlowInv, [FlowNext]_flowVars
  PROVE  LocalBehindChain'
<1>0. EscrowTypeOK /\ [EscrowNext]_escrowVars
  BY FlowTypedNext DEF FlowInv, FlowTypeOK
<1>1. ASSUME NEW j \in Jobs, OnChain(j)'
      PROVE  /\ row'[j].chain_intent_id \in 1..counter'
             /\ intents'[row'[j].chain_intent_id].request_hash = j
  <2>1. CASE OnChain(j)
    <3>1. intents[ChainId(j)].request_hash = j
      BY <2>1 DEF FlowInv, LocalBehindChain, EscrowsOf
    <3>2. ChainId(j) \in 1..counter /\ row'[j].chain_intent_id = ChainId(j)
      BY <2>1, EscrowedKept
    <3> QED
      BY <1>0, <3>1, <3>2, EscrowKept
  <2>2. ASSUME NEW p \in Procs, SetChainIntent(p), Job(p) = j
        PROVE  /\ row'[j].chain_intent_id \in 1..counter'
               /\ intents'[row'[j].chain_intent_id].request_hash = j
    <3>1. sent[proc[p].tx].id \in EscrowsOf(j)
      BY <2>2 DEF SetChainIntent, At, FlowInv, TxKnown, Tracking, HoldingTx, Confirmed,
         LandedIsEscrow
    <3>2. row'[j].chain_intent_id = sent[proc[p].tx].id
      BY <2>2, FlowTypes DEF SetChainIntent, FlowInv, Row
    <3>3. UNCHANGED <<counter, intents>>
      BY <2>2 DEF SetChainIntent, escrowVars
    <3> QED
      BY <3>1, <3>2, <3>3 DEF EscrowsOf
  <2> QED
    BY <1>1, <2>1, <2>2, ChainIdSet
<1>2. ASSUME NEW j \in Jobs, NEW local, NEW chain,
             \/ local = "released" /\ chain = "Released"
             \/ local = "reverted" /\ chain = "Refunded",
             row'[j].status = local
      PROVE  EscrowedNext(j, chain)
  <2>1. CASE row[j].status = local
    <3>1. Escrowed(j, chain)
      BY <1>2, <2>1 DEF FlowInv, LocalBehindChain, Escrowed
    <3> QED
      BY <1>2, <3>1, EscrowedKept DEF Escrowed
  <2>2. ASSUME NEW p \in Procs, SyncWrite(p), Job(p) = j, proc[p].copy = local
        PROVE  EscrowedNext(j, chain)
    <3>1. Escrowed(j, chain)
      BY <1>2, <2>2 DEF FlowInv, SyncSound, SyncWrite, At
    <3> QED
      BY <1>2, <3>1, EscrowedKept DEF Escrowed
  <2> QED
    BY <1>2, <2>1, <2>2, FinalStatusSet
<1>3. \A j \in Jobs : row'[j].status = "released" => EscrowedNext(j, "Released")
  BY <1>2
<1>4. \A j \in Jobs : row'[j].status = "reverted" => EscrowedNext(j, "Refunded")
  BY <1>2
<1> QED
  BY <1>1, <1>3, <1>4 DEF LocalBehindChain, EscrowedNext, OnChain, ChainId, EscrowsOf

-----------------------------------------------------------------------------
(***************************************************************************)
(* Payouts.                                                                *)
(***************************************************************************)

(* release_check after the step: attestations are only ever added.         *)
QuorumNext(j) == Cardinality({o \in Signers : <<j, o, "Shipped">> \in attested'}) >= K

LEMMA QuorumKept ==
  ASSUME FlowInv, [FlowNext]_flowVars, NEW j, release_check(j)
  PROVE  QuorumNext(j)
<1> DEFINE after == {o \in Signers : <<j, o, "Shipped">> \in attested'}
<1>1. Shipped(j) \subseteq after
  BY HistoryGrows DEF Shipped
<1>2. IsFiniteSet(after) /\ IsFiniteSet(Shipped(j))
  BY FlowAssumption, FS_Subset DEF Shipped
<1>3. Cardinality(Shipped(j)) <= Cardinality(after)
  BY <1>1, <1>2, FS_Subset
<1>4. Cardinality(Shipped(j)) \in Nat /\ Cardinality(after) \in Nat /\ K \in Nat
  BY <1>2, FS_CardinalityType, FlowAssumption
<1>5. Cardinality(Shipped(j)) >= K
  BY DEF release_check
<1> HIDE DEF after
<1>6. Cardinality(after) >= K
  BY <1>3, <1>4, <1>5
<1> QED
  BY <1>6 DEF after, QuorumNext

(* Only cash_out pays, once, the job of its process.                       *)
LEMMA PayoutSteps ==
  ASSUME FlowInv, [FlowNext]_flowVars, NEW j \in Jobs, payouts'[j] # payouts[j]
  PROVE  \E p \in Procs : cash_out(p) /\ Job(p) = j /\ payouts'[j] = payouts[j] + 1
<1>0. payouts \in [Jobs -> Nat]
  BY FlowTypes DEF FlowInv
<1>1. ~UNCHANGED payouts
  OBVIOUS
<1>2. ASSUME NEW p \in Procs, cash_out(p)
      PROVE  Job(p) = j /\ payouts'[j] = payouts[j] + 1
  BY <1>0, <1>2 DEF cash_out
<1>3. ASSUME NEW p \in Procs, Run(p) PROVE cash_out(p)
  BY <1>1, <1>3 DEF Run, Submit, SubmitFails, SendRaises, Invoke, Poll, Unconfirmed,
     ReleaseClaim, RecordTx, RecordBare, SetChainIntent, Confirm, Approve,
       SubmitAttestation, SyncRead,
     SyncChain, SyncUnseen, SyncWrite, dbVars
<1>4. ASSUME NEW p \in Procs, NEW k \in Jobs, Command(p, k) PROVE FALSE
  BY <1>1, <1>4 DEF Command, execute, flow_attest, sdk_attest, flow_release,
                    flow_revert, sync, dbVars
<1>5. ASSUME NEW p \in Procs, Crash(p) PROVE FALSE
  BY <1>1, <1>5 DEF Crash, dbVars
<1> QED
  BY <1>1, <1>2, <1>3, <1>4, <1>5, WhoSteps, SurroundingsLeave

LEMMA PaidOnceNext ==
  ASSUME FlowInv, [FlowNext]_flowVars
  PROVE  PaidOnce'
<1>0. payouts \in [Jobs -> Nat]
  BY FlowTypes DEF FlowInv
<1>1. ASSUME NEW j \in Jobs, payouts'[j] # 0
      PROVE  payouts'[j] = 1 /\ Escrowed(j, "Released") /\ release_check(j)
  <2>1. CASE payouts'[j] = payouts[j]
    BY <1>1, <2>1 DEF FlowInv, PaidOnce
  <2>2. ASSUME NEW p \in Procs, cash_out(p), Job(p) = j, payouts'[j] = payouts[j] + 1
        PROVE  payouts'[j] = 1 /\ Escrowed(j, "Released") /\ release_check(j)
    BY <2>2 DEF FlowInv, PayerAlone, cash_out, At
  <2> QED
    BY <2>1, <2>2, PayoutSteps
<1>2. ASSUME NEW j \in Jobs, payouts'[j] # 0
      PROVE  payouts'[j] = 1 /\ EscrowedNext(j, "Released") /\ QuorumNext(j)
  BY <1>1, <1>2, EscrowedKept, QuorumKept DEF Escrowed
<1> QED
  BY <1>2 DEF PaidOnce, Escrowed, EscrowedNext, release_check, Shipped, QuorumNext,
              OnChain, ChainId

LEMMA PayerAloneNext ==
  ASSUME FlowInv, [FlowNext]_flowVars
  PROVE  PayerAlone'
<1>0. /\ proc \in [Procs -> Process] /\ PayerAlone /\ payouts \in [Jobs -> Nat]
      /\ EscrowTypeOK
      /\ \A p \in Procs : ~At(p, "idle") => Job(p) \in Jobs
  BY FlowTypes DEF FlowInv, Busy
<1> DEFINE Old(q) == /\ proc[q].after = "cash_out" /\ proc'[q].job = Job(q)
                     /\ proc'[q].pc \in Syncing
           New(q) == \E j \in Jobs : flow_release(q, j) /\ proc'[q].job = j
                                     /\ proc'[q].pc = "sync_read"
(* Who may cash out after the step could before, or has just released.     *)
<1>1. ASSUME NEW p \in Procs, Run(p) \/ Crash(p), proc'[p].after = "cash_out"
      PROVE  Old(p)
  <2>1. Idle.after = "idle" /\ Idle.pc = "idle"
    BY DEF Idle
  <2>2. proc[p].after = "cash_out" /\ proc'[p].job = Job(p) /\ proc'[p] # Idle
    BY <1>1, <2>1, ProcessKeeps DEF Job
  <2>3. proc[p].pc \in Syncing
    BY <1>0, <2>2 DEF PayerAlone
  <2>4. SyncRead(p) \/ SyncChain(p) \/ SyncUnseen(p) \/ SyncWrite(p)
    BY <1>0, <1>1, <2>2, <2>3 DEF Syncing, Run, Crash, Submit, SubmitFails, SendRaises,
       Invoke, Poll, Unconfirmed, ReleaseClaim, RecordTx, RecordBare, SetChainIntent,
       Confirm, Approve,
       SubmitAttestation, cash_out, Finish, At
  <2>5. ASSUME NEW pc \in Syncing, Goto(p, pc) PROVE proc'[p].pc \in Syncing
    BY <1>0, <2>5 DEF Goto, Process
  <2>6. ~Finish(p)
    BY <1>0, <2>2 DEF Finish
  <2>7. ASSUME NEW pc \in Syncing, NEW copy,
               proc' = [proc EXCEPT ![p].pc = pc, ![p].copy = copy]
        PROVE  proc'[p].pc \in Syncing
    BY <1>0, <2>7 DEF Process
  <2>8. proc'[p].pc \in Syncing
    BY <2>4, <2>5, <2>6, <2>7 DEF SyncRead, SyncChain, SyncUnseen, SyncWrite, Return,
         Syncing
  <2> QED
    BY <2>2, <2>8
<1>2. ASSUME NEW p \in Procs, NEW j \in Jobs, Command(p, j), proc'[p] # proc[p],
             proc'[p].after = "cash_out"
      PROVE  New(p)
  BY <1>2, CommandStarts
<1>3. ASSUME NEW q \in Procs, proc'[q] = proc[q], proc[q].after = "cash_out" PROVE Old(q)
  BY <1>0, <1>3 DEF PayerAlone, Job
<1>4. \A q \in Procs : proc'[q].after = "cash_out" => Old(q) \/ New(q)
  <2> HIDE DEF Old, New
  <2> QED
    BY <1>1, <1>2, <1>3, WhoSteps, SurroundingsLeave
(* What they need still holds of their jobs.                               *)
<1>5. ASSUME NEW q \in Procs, Old(q), proc'[q].after = "cash_out"
      PROVE  /\ Job(q) \in Jobs
             /\ EscrowedNext(Job(q), "Released") /\ QuorumNext(Job(q))
             /\ payouts'[Job(q)] = 0
  <2>1. /\ Job(q) \in Jobs /\ Escrowed(Job(q), "Released") /\ release_check(Job(q))
        /\ payouts[Job(q)] = 0
    BY <1>0, <1>5 DEF PayerAlone, Syncing, At
  <2>2. ASSUME NEW p \in Procs, cash_out(p), Job(p) = Job(q) PROVE FALSE
    <3>1. proc[p].after = "cash_out"
      BY <1>0, <2>2 DEF cash_out, PayerAlone
    <3>2. p = q
      BY <1>0, <1>5, <2>2, <3>1 DEF PayerAlone
    <3>3. proc'[q].after = "idle"
      BY <1>0, <2>2, <3>2 DEF cash_out, Finish, Idle
    <3> QED
      BY <1>5, <3>3
  <2>3. payouts'[Job(q)] = 0
    BY <2>1, <2>2, PayoutSteps
  <2>4. EscrowedNext(Job(q), "Released")
    BY <2>1, EscrowedKept DEF Escrowed
  <2>5. QuorumNext(Job(q))
    BY <2>1, QuorumKept
  <2> QED
    BY <2>1, <2>3, <2>4, <2>5
<1>6. ASSUME NEW q \in Procs, NEW j \in Jobs, flow_release(q, j)
      PROVE  /\ EscrowedNext(j, "Released") /\ QuorumNext(j) /\ payouts'[j] = 0
             /\ ~Escrowed(j, "Released")
  <2>1. /\ OnChain(j) /\ release_check(j) /\ intents[ChainId(j)].status = "Funded"
        /\ intents' = [intents EXCEPT ![ChainId(j)].status = "Released"]
        /\ UNCHANGED <<row, payouts>>
    BY <1>6 DEF flow_release, release, Releasable, dbVars
  <2>2. ~Escrowed(j, "Released")
    BY <2>1 DEF Escrowed
  <2>3. ChainId(j) \in 1..counter /\ intents \in [1..counter -> Intent]
    BY <1>0, <2>1, EscrowedKept DEF EscrowTypeOK
  <2>4. intents'[ChainId(j)].status = "Released"
    BY <2>1, <2>3 DEF Intent
  <2>5. payouts[j] = 0
    BY <2>2 DEF FlowInv, PaidOnce
  <2> QED
    BY <2>1, <2>2, <2>4, <2>5, QuorumKept DEF EscrowedNext, OnChain, ChainId
<1>7. ASSUME NEW q \in Procs, proc'[q].after = "cash_out"
      PROVE  /\ proc'[q].pc \in Syncing
             /\ EscrowedNext(proc'[q].job, "Released") /\ QuorumNext(proc'[q].job)
             /\ payouts'[proc'[q].job] = 0
  <2>1. CASE Old(q)
    BY <1>5, <1>7, <2>1
  <2>2. CASE New(q)
    BY <1>6, <2>2 DEF Syncing
  <2> QED
    BY <1>4, <1>7, <2>1, <2>2
(* No two of them have the same job.                                       *)
<1>8. ASSUME NEW q \in Procs, NEW r \in Procs, q # r,
             proc'[q].after = "cash_out", proc'[r].after = "cash_out"
      PROVE  proc'[q].job # proc'[r].job
  <2>1. ASSUME Old(q), Old(r) PROVE proc'[q].job # proc'[r].job
    BY <1>0, <1>8, <2>1 DEF PayerAlone
  <2>2. ASSUME NEW s \in Procs, NEW t \in Procs, New(s), Old(t)
        PROVE  proc'[s].job # proc'[t].job
    <3>1. Escrowed(Job(t), "Released")
      BY <1>0, <2>2 DEF PayerAlone
    <3> QED
      BY <1>6, <2>2, <3>1
  <2>3. ASSUME New(q), New(r) PROVE FALSE
    <3>1. proc'[q] # proc[q] /\ proc'[r] # proc[r]
      BY <2>3 DEF flow_release, At
    <3> QED
      BY <1>8, <3>1, WhoSteps, SurroundingsLeave
  <2> HIDE DEF Old, New
  <2> QED
    BY <1>4, <1>8, <2>1, <2>2, <2>3
<1>9. ASSUME NEW q \in Procs, proc'[q].pc = "cash_out" PROVE proc'[q].after = "cash_out"
  <2>1. CASE proc'[q] = proc[q]
    BY <1>0, <1>9, <2>1 DEF PayerAlone, At
  <2>2. CASE Run(q) \/ Crash(q)
    <3>1. proc[q].after = "cash_out"
      BY <1>9, <2>2, RunLeads
    <3>2. Idle.pc = "idle"
      BY DEF Idle
    <3> QED
      BY <1>9, <2>2, <3>1, <3>2, ProcessKeeps
  <2>3. ASSUME NEW j \in Jobs, Command(q, j) PROVE proc'[q] = proc[q]
    BY <1>9, <2>3, CommandStarts
  <2> QED
    BY <2>1, <2>2, <2>3, WhoSteps, SurroundingsLeave
<1> HIDE DEF Old, New
<1> QED
  BY <1>7, <1>8, <1>9
     DEF PayerAlone, Escrowed, EscrowedNext, release_check, Shipped, QuorumNext,
         OnChain, ChainId, At, Job

-----------------------------------------------------------------------------
(***************************************************************************)
(* The inductive invariant.                                                *)
(***************************************************************************)

LEMMA InitFlow == FlowInit => FlowInv
<1> SUFFICES ASSUME FlowInit PROVE FlowInv
  OBVIOUS
<1>1. /\ row = [j \in Jobs |-> [status |-> "proposed", chain_intent_id |-> NoId]]
      /\ proc = [p \in Procs |-> Idle] /\ payouts = [j \in Jobs |-> 0]
      /\ attested = {} /\ decisions = {} /\ pointers = {} /\ bare = {} /\ misled = {} /\ orphaned = {}
      /\ sent = << >> /\ Len(sent) = 0 /\ counter = 0 /\ Deployed(Oracles)
  BY EmptySeq DEF FlowInit, Deployed
<1>2. FlowTypeOK
  <2>1. EscrowTypeOK
    BY <1>1, DeployedTyped
  <2>2. row \in [Jobs -> Row]
    BY <1>1 DEF Row, RowStatus
  <2>3. proc \in [Procs -> Process] /\ payouts \in [Jobs -> Nat]
    BY <1>1, IdleTyped
  <2>4. 0 \in 0..MaxSent /\ sent \in [1..0 -> Tx]
    BY <1>1, FlowAssumption
  <2> QED
    BY <1>1, <2>1, <2>2, <2>3, <2>4, FlowTypes
<1>3. /\ \A j \in Jobs : row[j].status = "proposed" /\ ~OnChain(j) /\ payouts[j] = 0
      /\ \A p \in Procs : proc[p].pc = "idle" /\ proc[p].after = "idle"
      /\ 1..Len(sent) = {} /\ 1..counter = {}
  <2>1. 1..Len(sent) = {} /\ 1..counter = {}
    BY <1>1
  <2>2. \A p \in Procs : proc[p].pc = "idle" /\ proc[p].after = "idle"
    BY <1>1 DEF Idle
  <2>3. \A j \in Jobs : row[j].status = "proposed" /\ ~OnChain(j) /\ payouts[j] = 0
    BY <1>1 DEF OnChain, ChainId
  <2> QED
    BY <2>1, <2>2, <2>3
<1> QED
  BY <1>2, <1>3
     DEF FlowInv, Busy, ClaimHeld, TxKnown, LandedIsEscrow, EscrowIsLanded, OneLive,
         NothingElseLive, ProposedIsClean, EscrowIsTraceable, RecordedFirst, SyncSound,
         LocalBehindChain, PayerAlone, PaidOnce, At, Claiming, Tracking, HoldingTx, Syncing

LEMMA NextFlow == FlowInv /\ [FlowNext]_flowVars => FlowInv'
BY FlowTypedNext, BusyNext, ClaimHeldNext, TxKnownNext, LandedIsEscrowNext, OneLiveNext,
   NothingElseLiveNext, ProposedIsCleanNext, EscrowIsTraceableNext, RecordedFirstNext,
   SyncSoundNext, LocalBehindChainNext, PayerAloneNext, PaidOnceNext
   DEF FlowInv

(* FlowInv holds at the start and every step of every process, of the      *)
(* network and of the ledger keeps it.                                     *)
THEOREM FlowInvariant == FlowSpec => []FlowInv
BY InitFlow, NextFlow, PTL DEF FlowSpec

-----------------------------------------------------------------------------
(***************************************************************************)
(* The theorems.                                                           *)
(***************************************************************************)

(* Every value written to the local database fits its column.              *)
THEOREM FlowTyped == FlowSpec => []FlowTypeOK
BY FlowInvariant, PTL DEF FlowInv

(* A row that may be claimed has no transaction that may still fund an     *)
(* escrow, unless a client reported a failure too early.                   *)
THEOREM FlowProposedIsClean == FlowSpec => []ProposedIsClean
BY FlowInvariant, PTL DEF FlowInv

(* claim_escrow prevents a double escrow of an invoice through retries,    *)
(* crashes, concurrent executes and late landings, as long as no client    *)
(* reports a failure before the end of its transaction.                    *)
THEOREM FlowOneEscrow == FlowSpec => []OneEscrowUnlessMisled
<1>1. ASSUME FlowInv PROVE OneEscrowUnlessMisled
  <2> SUFFICES ASSUME NEW j \in Jobs, j \notin misled
               PROVE  Cardinality(EscrowsOf(j)) <= 1
    BY DEF OneEscrowUnlessMisled
  <2>1. ASSUME NEW a \in EscrowsOf(j), NEW b \in EscrowsOf(j) PROVE a = b
    <3>1. PICK m \in 1..Len(sent) : sent[m].state = "landed" /\ sent[m].id = a
      BY <1>1 DEF FlowInv, EscrowIsLanded, EscrowsOf
    <3>2. PICK n \in 1..Len(sent) : sent[n].state = "landed" /\ sent[n].id = b
      BY <1>1 DEF FlowInv, EscrowIsLanded, EscrowsOf
    <3>3. sent[m].job = j /\ sent[n].job = j
      BY <1>1, <3>1, <3>2 DEF FlowInv, LandedIsEscrow, EscrowsOf
    <3>4. m = n
      BY <1>1, <3>1, <3>2, <3>3 DEF FlowInv, OneLive, Dead
    <3> QED
      BY <3>1, <3>2, <3>4
  <2>2. CASE EscrowsOf(j) = {}
    BY <2>2, FS_EmptySet
  <2>3. ASSUME NEW a \in EscrowsOf(j) PROVE Cardinality(EscrowsOf(j)) <= 1
    <3>1. EscrowsOf(j) = {a}
      BY <2>1
    <3> QED
      BY <3>1, FS_Singleton
  <2> QED
    BY <2>2, <2>3
<1> QED
  BY <1>1, FlowInvariant, PTL

(* Whatever may have funded an escrow can be traced: its hash or its chain *)
(* id is stored, an execute is still at work on it, or the history says    *)
(* who lost it; also when the client prints no hash.                       *)
THEOREM FlowEscrowIsTraceable == FlowSpec => []EscrowIsTraceable
BY FlowInvariant, PTL DEF FlowInv

(* chain_txs has its row before the intent has its chain id, crashes       *)
(* included; only that row may lack the hash.                              *)
THEOREM FlowRecordedFirst == FlowSpec => []RecordedFirst
BY FlowInvariant, PTL DEF FlowInv

(* No row is ahead of the chain: released and reverted are copied from an  *)
(* escrow of the same job that is already Released or Refunded.            *)
THEOREM FlowLocalBehindChain == FlowSpec => []LocalBehindChain
BY FlowInvariant, PTL DEF FlowInv

(* The anchor never pays a job more often than the contract released it.   *)
THEOREM FlowPayoutBacked == FlowSpec => []PayoutBacked
<1>1. ASSUME FlowInv PROVE PayoutBacked
  <2> SUFFICES ASSUME NEW j \in Jobs
               PROVE  payouts[j] <=
                        Cardinality({id \in EscrowsOf(j) : intents[id].status = "Released"})
    BY DEF PayoutBacked
  <2> DEFINE released == {id \in EscrowsOf(j) : intents[id].status = "Released"}
  <2>1. payouts[j] \in Nat /\ counter \in Nat
    BY <1>1, FlowTypes, EscrowAssumption DEF FlowInv, EscrowTypeOK
  <2>2. IsFiniteSet(released)
    <3>1. IsFiniteSet(1..counter)
      BY <2>1, FS_Interval
    <3> QED
      BY <3>1, FS_Subset DEF EscrowsOf
  <2>3. Cardinality(released) \in Nat
    BY <2>2, FS_CardinalityType
  <2>4. CASE payouts[j] = 0
    BY <2>3, <2>4
  <2>5. CASE payouts[j] # 0
    <3>1. payouts[j] = 1 /\ Escrowed(j, "Released")
      BY <1>1, <2>5 DEF FlowInv, PaidOnce
    <3>2. ChainId(j) \in released
      BY <1>1, <3>1 DEF FlowInv, LocalBehindChain, Escrowed
    <3>3. Cardinality(released) # 0
      BY <2>2, <3>2, FS_EmptySet
    <3> QED
      BY <2>3, <3>1, <3>3
  <2> QED
    BY <2>4, <2>5
<1> QED
  BY <1>1, FlowInvariant, PTL

(* No payout of the anchor before K distinct signers attested locally.     *)
THEOREM FlowPaidOnQuorum == FlowSpec => []PaidOnQuorum
<1>1. ASSUME FlowInv PROVE PaidOnQuorum
  BY <1>1, FlowTypes DEF FlowInv, PaidOnce, PaidOnQuorum, release_check, Shipped
<1> QED
  BY <1>1, FlowInvariant, PTL

(* A row that points to an escrow points to that escrow for good.          *)
THEOREM FlowChainIdWrittenOnce == FlowSpec => ChainIdWrittenOnce
<1>1. ASSUME FlowInv, [FlowNext]_flowVars
      PROVE  [\A j \in Jobs : OnChain(j) => ChainId(j)' = ChainId(j)]_flowVars
  BY <1>1, ChainIdKept
<1> QED
  BY <1>1, FlowInvariant, PTL DEF FlowSpec, ChainIdWrittenOnce

(* What is proved of the contract on its own holds of it in the flow: no   *)
(* intent is paid with another one's money, a due intent can be settled    *)
(* if its beneficiary can be paid, and every outcome is justified.         *)
THEOREM FlowKeepsContract == FlowSpec => [](Solvent /\ FundsRecoverable /\ OutcomeJustified)
<1>1. FlowInit => Solvent /\ OutcomeJustified
  BY DeployedSolvent DEF FlowInit, Deployed, OutcomeJustified
<1>2. ASSUME FlowInv, FlowInv', Solvent, OutcomeJustified, [FlowNext]_flowVars
      PROVE  (Solvent /\ OutcomeJustified)'
  <2>1. EscrowTypeOK /\ EscrowTypeOK' /\ [EscrowNext]_escrowVars
    BY <1>2, FlowTypedNext DEF FlowInv, FlowTypeOK
  <2> QED
    BY <1>2, <2>1, NextSolvent, NextJustified
<1>3. FlowInv /\ Solvent => FundsRecoverable
  BY SolventRecoverable DEF FlowInv, FlowTypeOK
<1> QED
  BY <1>1, <1>2, <1>3, FlowInvariant, PTL DEF FlowSpec

(* Whatever the commands, the network and outsiders do, what they do to    *)
(* the contract is a behaviour of the abstract settlement: each deal is    *)
(* locked out of its payer's wallet and settled once, to the right party.  *)
THEOREM FlowImplementsSettlement == FlowSpec => ImplementsSettlement
<1>1. FlowInit => Promise!SettlementInit
  BY DeployedSettlement DEF FlowInit
<1>2. FlowInv /\ [FlowNext]_flowVars => [Promise!SettlementNext]_(Promise!settlementVars)
  <2> SUFFICES ASSUME FlowInv, [FlowNext]_flowVars
               PROVE  [Promise!SettlementNext]_(Promise!settlementVars)
    OBVIOUS
  <2>1. EscrowTypeOK /\ [EscrowNext]_escrowVars
    BY FlowTypedNext DEF FlowInv, FlowTypeOK
  <2> QED
    BY <2>1, NextSettlement
<1> QED
  BY <1>1, <1>2, FlowInvariant, PTL DEF FlowSpec, ImplementsSettlement,
       Promise!SettlementSpec
=============================================================================
