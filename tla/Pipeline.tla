------------------------------ MODULE Pipeline ------------------------------
(***************************************************************************)
(* How an invoice becomes a proposed intent: lumo/pipeline.py with its     *)
(* guards (lumo/policy/engine.py among them), and the one place where the  *)
(* decision is stored, Repo.record_decision of lumo/db/repo.py.            *)
(*                                                                         *)
(* A `lumo propose' process has a database connection of its own; all the  *)
(* threads of lumo/api.py use the connection of one LumoClient (lumo/sdk). *)
(* A transaction belongs to the connection: threads that share it write    *)
(* into the same open transaction and commit or roll back each other's.    *)
(*                                                                         *)
(* Invoice texts and the language model that reads them are abstracted to  *)
(* a Reading: what the guards can tell apart.                              *)
(***************************************************************************)
EXTENDS Integers, FiniteSets, FiniteSetsExt, Sequences

CONSTANTS Proposers,    \* processes or API threads
          Connections,  \* database connections
          Conn,         \* the connection of each proposer
          Hashes,       \* request hashes
          Readings,     \* what pipeline.run can get out of scan and extract
          Configs,      \* the guard configurations considered
          CapPerTx,     \* rules["cap_per_tx"]
          CapDaily,     \* rules["cap_daily"]
          Numbers,      \* the decimals that occur, counted in parts of a stroop
          Parts,        \* so many of these parts make a stroop
          Ulp,          \* how many parts the last of the 28 digits is worth
                        \* that a product of each number is rounded to
          Infinite,     \* Decimal('Infinity') and NaN: parsed and not finite
          NoAmount,     \* None, from extract or from to_stroops
          MaxIds,       \* bound on the intents ever inserted
          MaxDays       \* bound on the days that pass

(* A line of the invoice: is there a payable label on it (total, amount    *)
(* due, jumlah, ...), and which amounts follow, from left to right.        *)
Line == [payable : BOOLEAN, tokens : Seq(Numbers)]

(* `extracted' is the provider's amount if Decimal can read it, as it is   *)
(* or after _normalize_amount dropped currency and separators.             *)
Reading == [hash : Hashes, extracted : Numbers \cup {Infinite, NoAmount},
            text : SUBSET Line, registered : BOOLEAN, foreign : BOOLEAN,
            flagged : BOOLEAN, cosign_token : BOOLEAN, receipt : BOOLEAN]

Config == [injection_scan : BOOLEAN, policy_engine : BOOLEAN,
           policy_signer : BOOLEAN, threshold : Nat,
           proof_of_compute : BOOLEAN, monitoring : BOOLEAN]

ASSUME PipelineAssumption ==
  /\ Proposers # {} /\ IsFiniteSet(Proposers)
  /\ Conn \in [Proposers -> Connections]
  /\ Numbers \subseteq Int /\ Parts \in Nat \ {0}
  /\ Ulp \in [Numbers -> Nat \ {0}]
  /\ Infinite \notin Int /\ NoAmount \notin Int
  /\ Readings \subseteq Reading
  /\ Configs \subseteq Config
  /\ CapPerTx \in Nat /\ CapDaily \in Nat
  /\ MaxIds \in Nat /\ MaxDays \in Nat

VARIABLES rows,       \* table intents, what is committed of it
          decisions,  \* table decisions, what is committed of it
          pending,    \* the open transaction of each connection
          issued,     \* ids drawn so far
          published,  \* decision events the subscribers have seen
          today,      \* date('now')
          config,     \* the configuration, the same for everyone
          proc        \* what each proposer is about to do

pipelineVars ==
  <<rows, decisions, pending, issued, published, today, config, proc>>

Status == {"proposed", "held", "escrowed", "released", "reverted"}

(* An intents row; `final' is the final status it ever had.  A decision is *)
(* identified by the intent_id it carries, 0 for the NULL of a refusal.    *)
Row == [id : 1..MaxIds, reading : Readings, status : Status,
        day : 0..MaxDays, final : {"none", "released", "reverted"}]
DecisionRow == [id : 1..MaxIds, decision : {"proposed", "held"}]
                 \cup [id : {0}, decision : {"refused"}]

Nothing == [rows |-> {}, decisions |-> {}]
NoReading == [extracted |-> NoAmount]
Idle == [pc |-> "idle", reading |-> NoReading, spent |-> 0, decision |-> "",
         todo |-> {}, id |-> 0]

Guards == {"Injection", "PolicyEngine", "PolicySigner", "HumanCosign",
           "ProofOfCompute", "AmountCrossCheck"}

PipelineTypeOK ==
  /\ rows \subseteq Row
  /\ decisions \subseteq DecisionRow
  /\ DOMAIN pending = Connections
  /\ \A c \in Connections : /\ pending[c].rows \subseteq Row
                            /\ pending[c].decisions \subseteq DecisionRow
  /\ issued \in 0..MaxIds
  /\ published \subseteq DecisionRow
  /\ today \in 0..MaxDays
  /\ config \in Configs

PipelineInit ==
  /\ rows = {} /\ decisions = {}
  /\ pending = [c \in Connections |-> Nothing]
  /\ issued = 0
  /\ published = {}
  /\ today = 0
  /\ config \in Configs
  /\ proc = [p \in Proposers |-> Idle]

-----------------------------------------------------------------------------
(***************************************************************************)
(* The database.                                                           *)
(***************************************************************************)

(* Any statement on connection c sees its open transaction.                *)
Visible(c) == rows \cup pending[c].rows

(* SQLite has one writer: a connection may begin to write while no other   *)
(* one is in the middle of a transaction.                                  *)
CanWrite(c) == \A d \in Connections \ {c} : pending[d] = Nothing

CommitAll(c) ==
  /\ rows' = Visible(c)
  /\ decisions' = decisions \cup pending[c].decisions
  /\ pending' = [pending EXCEPT ![c] = Nothing]

Rollback(c) ==
  /\ pending' = [pending EXCEPT ![c] = Nothing]
  /\ UNCHANGED <<rows, decisions>>

(***************************************************************************)
(* The guards.  Each is a condition under which it does not pass.          *)
(***************************************************************************)

(* A product of Decimals is rounded half to even.                          *)
Rounded(n) ==
  LET q == n \div Ulp[n]
      rest == n % Ulp[n]
      down == 2 * rest < Ulp[n] \/ (2 * rest = Ulp[n] /\ q % 2 = 0)
  IN (IF down THEN q ELSE q + 1) * Ulp[n]

(* None unless the amount is finite and the product with STROOP, rounded,  *)
(* is integral.                                                            *)
to_stroops(extracted) ==
  IF extracted \in {NoAmount, Infinite} THEN NoAmount
  ELSE LET product == Rounded(extracted)
       IN IF product % Parts # 0 THEN NoAmount ELSE product \div Parts

Amount(r) == to_stroops(r.extracted)

(* The first amount of each payable line; every amount anywhere.           *)
labeled_amounts(text) ==
  {l.tokens[1] : l \in {l \in text : l.payable /\ l.tokens # << >>}}
amount_tokens(text) == UNION {{l.tokens[i] : i \in DOMAIN l.tokens} : l \in text}

(* Broken: an amount planted in free text is as good as the one due.       *)
amount_matches_anywhere(stroops, text) == stroops * Parts \in amount_tokens(text)

amount_matches_text(stroops, text) ==
  LET labeled == labeled_amounts(text) IN
  stroops * Parts \in IF labeled # {} THEN labeled ELSE amount_tokens(text)

COUNTED_STATUSES == {"proposed", "escrowed", "released"}

(* Broken: an intent stops counting once it is escrowed.                   *)
Committed_proposed_only(c) ==
  MapThenSumSet(LAMBDA r : Amount(r.reading),
                {r \in Visible(c) : r.day = today /\ r.status = "proposed"})

(* repo.intents_today and the sum in engine.evaluate.                      *)
Committed(c) ==
  MapThenSumSet(LAMBDA r : Amount(r.reading),
                {r \in Visible(c) : r.day = today /\ r.status \in COUNTED_STATUSES})

(* repo.known_request_hashes: of any day and in any status.                *)
Known(c) == {r.reading.hash : r \in Visible(c)}

Flagged(r) == config.injection_scan /\ r.flagged
Positive(r) == Amount(r) # NoAmount /\ Amount(r) > 0
OverCap(r) == Amount(r) # NoAmount /\ Amount(r) > CapPerTx

evaluate_refuses(r, spent, known) ==
  \/ Flagged(r)
  \/ ~Positive(r)
  \/ ~r.registered
  \/ r.registered /\ r.foreign
  \/ r.hash \in known
  \/ Positive(r) /\ (OverCap(r) \/ spent + Amount(r) > CapDaily)

Refusing(r, spent, known) ==
  {g \in Guards :
     \/ g = "Injection" /\ Flagged(r)
     \/ g = "PolicyEngine" /\ config.policy_engine /\ evaluate_refuses(r, spent, known)
     \/ g = "PolicySigner" /\ config.policy_signer /\ (~r.registered \/ OverCap(r))
     \/ g = "ProofOfCompute" /\ config.proof_of_compute /\ ~r.receipt
     \/ g = "AmountCrossCheck" /\ (Amount(r) = NoAmount \/ ~amount_matches_text(Amount(r), r.text))}

Holding(r) ==
  {g \in {"HumanCosign"} :
     /\ config.threshold > 0
     /\ Amount(r) # NoAmount /\ Amount(r) > config.threshold
     /\ ~r.cosign_token}

(* Broken: a hold wins over a refusal.                                     *)
Verdict_hold_first(r, spent, known) ==
  IF Holding(r) # {} THEN "held"
  ELSE IF Refusing(r, spent, known) # {} THEN "refused" ELSE "proposed"

(* run_guards: every guard is asked, a refusal wins over a hold.           *)
Verdict(r, spent, known) ==
  IF Refusing(r, spent, known) # {} THEN "refused"
  ELSE IF Holding(r) # {} THEN "held" ELSE "proposed"

(***************************************************************************)
(* pipeline.run                                                            *)
(***************************************************************************)
At(p, pc) == proc[p].pc = pc
Goto(p, pc) == proc' = [proc EXCEPT ![p].pc = pc]
Finish(p) == proc' = [proc EXCEPT ![p] = Idle]

(* The caller of an idle proposer holds the intent_id it was last given.   *)
Answer(p) == proc' = [proc EXCEPT ![p] = [Idle EXCEPT !.id = proc[p].id]]
Answered(p) == IF At(p, "idle") THEN proc[p].id ELSE 0

(* Scan, extract, and read what is committed today.                        *)
run(p, r) ==
  /\ At(p, "idle")
  /\ proc' = [proc EXCEPT ![p] =
                [Idle EXCEPT !.pc = "guards", !.reading = r, !.spent = Committed(Conn[p])]]
  /\ UNCHANGED <<rows, decisions, pending, issued, published, today, config>>

(* A second query reads the known hashes; then the guards are pure.  An    *)
(* unknown supplier that no guard refused raises on supplier["id"].        *)
run_guards(p) ==
  LET r == proc[p].reading
      known == Known(Conn[p])
      decision == Verdict(r, proc[p].spent, known)
      tripped == Refusing(r, proc[p].spent, known) \cup Holding(r)
      blocked == {e \in {"injection.blocked"} : "Injection" \in tripped}
  IN
  /\ At(p, "guards")
  /\ IF config.monitoring /\ tripped # {}
     THEN proc' = [proc EXCEPT ![p].pc = "trip", ![p].spent = 0,
                                 ![p].decision = decision,
                                 ![p].todo = tripped \cup blocked]
     ELSE IF decision # "refused" /\ ~r.registered
     THEN Finish(p)
     ELSE proc' = [proc EXCEPT ![p].pc = "record", ![p].spent = 0,
                                 ![p].decision = decision]
  /\ UNCHANGED <<rows, decisions, pending, issued, published, today, config>>

(* One event of the guards, inserted and committed, and with it whatever   *)
(* else is open on the connection.  A subscriber that raises ends the run. *)
guard_tripped(p) ==
  LET left == proc[p].todo \ {CHOOSE e \in proc[p].todo : TRUE} IN
  /\ At(p, "trip")
  /\ CanWrite(Conn[p])
  /\ CommitAll(Conn[p])
  /\ \/ Finish(p)
     \/ left # {} /\ proc' = [proc EXCEPT ![p].todo = left]
     \/ /\ left = {}
        /\ proc[p].decision = "refused" \/ proc[p].reading.registered
        /\ proc' = [proc EXCEPT ![p].pc = "record", ![p].todo = {}]
  /\ UNCHANGED <<issued, published, today, config>>

(***************************************************************************)
(* Repo.record_decision: in one `with self.conn' block the intent, unless  *)
(* refused, and the decision; then the event.                              *)
(***************************************************************************)
Decision(p) == [id |-> proc[p].id, decision |-> proc[p].decision]
NewRow(p) == [id |-> issued + 1, reading |-> proc[p].reading,
              status |-> proc[p].decision, day |-> today, final |-> "none"]

(* Broken: request_hash is not UNIQUE.                                     *)
insert_intent_not_unique(p) ==
  /\ At(p, "record") /\ proc[p].decision # "refused"
  /\ CanWrite(Conn[p])
  /\ issued < MaxIds
  /\ pending' = [pending EXCEPT ![Conn[p]].rows = @ \cup {NewRow(p)}]
  /\ issued' = issued + 1
  /\ proc' = [proc EXCEPT ![p].pc = "decision", ![p].id = issued + 1,
                                   ![p].reading = NoReading]
  /\ UNCHANGED <<rows, decisions, published, today, config>>

(* Broken: the intent is committed before its decision is written.         *)
insert_intent_committed(p) ==
  /\ At(p, "record") /\ proc[p].decision # "refused"
  /\ CanWrite(Conn[p])
  /\ issued < MaxIds
  /\ proc[p].reading.hash \notin Known(Conn[p])
  /\ rows' = Visible(Conn[p]) \cup {NewRow(p)}
  /\ issued' = issued + 1
  /\ proc' = [proc EXCEPT ![p].pc = "decision", ![p].id = issued + 1,
                                   ![p].reading = NoReading]
  /\ UNCHANGED <<decisions, pending, published, today, config>>

(* Broken: a refusal stores its intent too.                                *)
insert_intent_refused(p) ==
  /\ At(p, "record")
  /\ CanWrite(Conn[p])
  /\ issued < MaxIds
  /\ pending' = [pending EXCEPT ![Conn[p]].rows = @ \cup {NewRow(p)}]
  /\ issued' = issued + 1
  /\ proc' = [proc EXCEPT ![p].pc = "decision", ![p].id = issued + 1]
  /\ UNCHANGED <<rows, decisions, published, today, config>>

(* request_hash is UNIQUE: the second of two racing proposals raises, and  *)
(* the `with' block rolls the connection back.                             *)
insert_intent(p) ==
  /\ At(p, "record") /\ proc[p].decision # "refused"
  /\ CanWrite(Conn[p])
  /\ IF proc[p].reading.hash \in Known(Conn[p])
     THEN Rollback(Conn[p]) /\ Finish(p) /\ UNCHANGED issued
     ELSE /\ issued < MaxIds
          /\ pending' = [pending EXCEPT ![Conn[p]].rows = @ \cup {NewRow(p)}]
          /\ issued' = issued + 1
          /\ proc' = [proc EXCEPT ![p].pc = "decision", ![p].id = issued + 1,
                                   ![p].reading = NoReading]
          /\ UNCHANGED <<rows, decisions>>
  /\ UNCHANGED <<published, today, config>>

(* A refusal comes straight here; any other decision must reference an     *)
(* intent that is still there (PRAGMA foreign_keys), or the block rolls    *)
(* back.                                                                   *)
insert_decision(p) ==
  LET refused == proc[p].decision = "refused" IN
  /\ IF refused THEN At(p, "record") ELSE At(p, "decision")
  /\ CanWrite(Conn[p])
  /\ IF refused \/ proc[p].id \in {r.id : r \in Visible(Conn[p])}
     THEN /\ pending' = [pending EXCEPT ![Conn[p]].decisions = @ \cup {Decision(p)}]
          /\ proc' = [proc EXCEPT ![p].pc = "commit", ![p].reading = NoReading]
          /\ UNCHANGED <<rows, decisions>>
     ELSE Rollback(Conn[p]) /\ Finish(p)
  /\ UNCHANGED <<issued, published, today, config>>

(* Broken: the commit is left to the event that follows.                   *)
commit_left_to_emit(p) ==
  /\ At(p, "commit")
  /\ Goto(p, "emit")
  /\ UNCHANGED <<rows, decisions, pending, issued, published, today, config>>

(* Broken: the subscribers are told first.                                 *)
commit_after_publish(p) ==
  /\ At(p, "commit")
  /\ published' = published \cup {Decision(p)}
  /\ Goto(p, "emit")
  /\ UNCHANGED <<rows, decisions, pending, issued, today, config>>

commit(p) ==
  /\ At(p, "commit")
  /\ CommitAll(Conn[p])
  /\ Goto(p, "emit")
  /\ UNCHANGED <<issued, published, today, config>>

(* Repo.emit, silent without monitoring: the events row is inserted and    *)
(* committed, the subscribers are called, and one that raises takes the    *)
(* answer with it.                                                         *)
emit(p) ==
  /\ At(p, "emit")
  /\ IF config.monitoring
     THEN /\ CanWrite(Conn[p])
          /\ CommitAll(Conn[p])
          /\ published' = published \cup {Decision(p)}
     ELSE UNCHANGED <<rows, decisions, pending, published>>
  /\ \/ Answer(p)
     \/ config.monitoring /\ Finish(p)
  /\ UNCHANGED <<issued, today, config>>

(* busy_timeout: 5 s behind another connection's transaction, then raise.  *)
busy(p) ==
  /\ proc[p].pc \in {"trip", "record", "emit"}
  /\ proc[p].pc = "emit" => config.monitoring
  /\ ~CanWrite(Conn[p])
  /\ Finish(p)
  /\ UNCHANGED <<rows, decisions, pending, issued, published, today, config>>

(* A process dies with all its threads; what it had not committed is lost. *)
crash(c) ==
  /\ proc' = [p \in Proposers |-> IF Conn[p] = c THEN Idle ELSE proc[p]]
  /\ proc' # proc
  /\ Rollback(c)
  /\ UNCHANGED <<issued, published, today, config>>

(***************************************************************************)
(* What the other modules do to the rows, and the date.                    *)
(***************************************************************************)

(* flow.execute claims a row, and reopens it when no escrow was created;   *)
(* mapper.sync_status writes what the escrow came to; execute's last       *)
(* UPDATE may come after it.  What becomes of the rows of earlier days     *)
(* matters to nothing here.                                                *)
Progress(r) ==
  /\ r.day = today
  /\ \/ \E s \in CASE r.status = "proposed" -> {"escrowed"}
                  [] r.status \in {"released", "reverted"} -> {"escrowed"}
                  [] r.status = "escrowed" /\ r.final = "none" -> {"proposed"}
                  [] OTHER -> {} :
          rows' = (rows \ {r}) \cup {[r EXCEPT !.status = s]}
     \/ /\ r.status = "escrowed"
        /\ \E s \in {"released", "reverted"} :
             /\ r.final \in {"none", s}
             /\ rows' = (rows \ {r}) \cup {[r EXCEPT !.status = s, !.final = s]}
  /\ UNCHANGED <<decisions, pending, issued, published, today, config, proc>>

Midnight ==
  /\ today < MaxDays
  /\ today' = today + 1
  /\ UNCHANGED <<rows, decisions, pending, issued, published, config, proc>>

PipelineNext ==
  \/ \E p \in Proposers :
       \/ \E r \in Readings : run(p, r)
       \/ run_guards(p) \/ guard_tripped(p)
       \/ insert_intent(p) \/ insert_decision(p) \/ commit(p) \/ emit(p)
       \/ busy(p)
  \/ \E c \in Connections : crash(c)
  \/ \E r \in rows : Progress(r)
  \/ Midnight

PipelineSpec == PipelineInit /\ [][PipelineNext]_pipelineVars

-----------------------------------------------------------------------------
(***************************************************************************)
(* Properties.                                                             *)
(***************************************************************************)
Alone(p) == \A q \in Proposers \ {p} : Conn[q] # Conn[p]

(* One intent per request hash, although two proposals may both have read  *)
(* the known hashes before either wrote its own.                           *)
OneIntentPerRequest ==
  \A r, s \in rows : r.reading.hash = s.reading.hash => r = s

(* The audit trail is complete and consistent: an intent has the decision  *)
(* that made it, of the same verdict, and a decision to propose or hold    *)
(* has its intent, through crashes and rollbacks; for connections that     *)
(* are not shared (record_decision's `with self.conn' block).              *)
Audited ==
  /\ (\A p \in Proposers : Alone(p)) =>
       \A r \in rows : \E d \in decisions :
         d.id = r.id /\ d.decision = IF r.status = "held" THEN "held" ELSE "proposed"
  /\ \A d \in decisions : d.decision # "refused" => d.id \in {r.id : r \in rows}

(* sdk.propose and README.md: "a proposal carries ... an `intent_id' you   *)
(* can status() later": what was answered is in the database.              *)
Stored(id) == id # 0 => \E d \in decisions : d.id = id
AnswerStored == \A p \in Proposers : Alone(p) => Stored(Answered(p))

(* The same for every caller, the threads of the API included.             *)
EveryAnswerStored == \A p \in Proposers : Stored(Answered(p))

(* Subscribers and webhooks never hear of a decision that is not in the    *)
(* database: Repo.emit comes after the commit of what it reports.          *)
PublishedIsCommitted ==
  (\A p \in Proposers : Alone(p)) => published \subseteq decisions

(* Whatever the configuration, no intent comes from a reading that some    *)
(* enabled guard refuses by itself, and above the threshold an intent      *)
(* without a human's token is held and stays held.                         *)
OnlyCleanIntents ==
  \A r \in rows :
    /\ Refusing(r.reading, 0, {}) = {}
    /\ Holding(r.reading) # {} => r.status = "held"

(* An intent is for an amount its invoice says is due, to the last part of *)
(* a stroop, and not, if the invoice has a payable line, for a number      *)
(* planted elsewhere in it (the comment at _PAYMENT_LABEL_RE); what the    *)
(* extractor made of the text differs from it by the rounding of one       *)
(* Decimal product at most.                                                *)
PaysWhatIsDue ==
  \A r \in rows :
    LET due == {l \in r.reading.text : l.payable /\ l.tokens # << >>}
        lines == IF due # {} THEN due ELSE r.reading.text
        extracted == r.reading.extracted
        paid == Amount(r.reading) * Parts
    IN /\ 2 * (paid - extracted) \in -Ulp[extracted] .. Ulp[extracted]
       /\ \E l \in lines : \E i \in DOMAIN l.tokens :
            l.tokens[i] = paid /\ (l.payable => i = 1)

(* The daily cap is checked against a sum read earlier, so proposals that  *)
(* overlap may exceed it; but never by more than one intent for each       *)
(* proposal in flight beside the first, whatever reverts in between.       *)
DailyOverrunBounded ==
  config.policy_engine =>
    MapThenSumSet(LAMBDA r : Amount(r.reading),
                  {r \in rows : r.day = today /\ r.final # "reverted" /\ r.status \in COUNTED_STATUSES})
      <= CapDaily + (Cardinality(Proposers) - 1) * CapPerTx
=============================================================================
