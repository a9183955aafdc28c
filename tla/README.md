# A TLA+ model of Lumo

Lumo reads invoices, decides by a chain of guards whether one may be paid, and
moves the money through an escrow contract on Stellar. This directory models
the parts of it whose correctness depends on what happens *between* two steps:
the two contracts, the Python code that drives them, and the pipeline that
writes the database both of them are reconciled with.

Paths below are relative to `src/`.

## 1. The system

| Component | State it keeps | Operations | Talks to |
|---|---|---|---|
| **Escrow contract** `contracts/escrow/src/lib.rs` | counter, intents by id, registered oracles; its token balances live in the token contracts | `__constructor`, `add_oracle`, `remove_oracle`, `create_intent`, `attest`, `release`, `refund`, `get` | token contracts (transfer), called by anyone |
| **Policy account contract** `contracts/policy-account/src/lib.rs` | owner key, escrow address, approved suppliers, cap | `__check_auth`, `add_supplier`, `remove_supplier`, `set_cap`, `set_escrow` | asked by the ledger for every call made in the SME's name |
| **Money flow** `lumo/flow.py`, `lumo/chain/mapper.py`, `lumo/anchor/` | none; tables `intents`, `attestations`, `decisions`, `chain_txs`, `anchor_payouts` | `execute`, `attest`, `release`, `revert`, `sync_status`, `cash_out` | database, chain client, anchor |
| **Chain clients** `lumo/chain/` | none | `create_intent`, `attest`, `release`, `refund`, `get_status` | a subprocess (`stellar contract invoke`) or the Soroban RPC |
| **Proposal pipeline** `lumo/pipeline.py`, `lumo/policy/engine.py` | none; reads rules, registry, today's intents, known hashes | `run`, `run_guards`, eight guards, `release_check` | model provider, scan, database |
| **Database and audit trail** `lumo/db/` | SQLite file, one connection per process | `Repo.record_decision`, `claim_escrow`, `release_escrow_claim`, `set_chain_intent`, `mark_released`, `add_*`, `emit` | event bus |
| **Oracle source** `lumo/oracle/` | rows of `attestations` | `submit`, `collect` | database |
| **Migrations and seed** `lumo/db/migrate.py`, `lumo/db/migrations/`, `lumo/db/seed.py` | `schema_migrations`, the schema itself, `policy_rules`, `suppliers` | `up`, five scripts, `seed`; run by `lumo init` and by every `LumoClient` | database |
| **SDK, API, MCP** `lumo/sdk.py`, `lumo/api.py`, `lumo/mcp.py` | class attributes `client` and `dispatcher`, built lazily; one client (one connection) for all threads | `_client`, `_dispatcher`, `propose`, `attest`, `status`, `metrics`, webhook registration | start-up, pipeline, event bus, database |
| **Events and webhooks** `lumo/monitor/events.py`, `lumo/monitor/webhooks.py` | subscribers of each bus, URLs of each dispatcher, in memory | `publish`, `subscribe`, `register`, post with 3 attempts | in-process callbacks, HTTP |
| **Metrics** `lumo/monitor/metrics.py` | none | counters and gauges by query | database |
| **Mock chain** `lumo/chain/mock_chain.py` | in-memory escrow and balances | as the contract | tests, demos |
| **Extraction and scan** `lumo/llm/`, `lumo/security/` | none | `extract`, `scan` | a language model |
| **CLI and configuration** `lumo/cli.py`, `lumo/config.py` | configuration | one command per process | all of the above |
| **Tester and dashboard** `lumo/testtool.py`, `lumo/ui/` | none | read-only | SDK |

What is hard in each, and what makes it right:

* *Escrow.* Any number of parties call in any order; `attest` is accepted after
  the deadline; anyone may call `release` and `refund`; tokens may arrive
  outside any intent. It is right if the vault covers all its funded intents,
  token by token; each intent is settled once, for a reason its attestation or
  the clock justifies; and nothing but the asset contract can keep a due intent
  from being settled.
* *Policy account.* A request may carry several calls, each is judged alone, and
  it may be signed long before it is applied. It is right if money only reaches
  approved places, bounded by the policy in force when it moves.
* *Money flow.* A command is a sequence of database commits and chain round
  trips; several commands run at once; each may die anywhere; a transaction may
  land after its sender gave up, or succeed without its hash being learned. It
  is right if one invoice funds at most one escrow, the database never claims
  more than the chain did, nobody is paid out more often than the contract
  released, nor before its quorum of signers, and the database catches up.
  Whatever may have funded an escrow can be traced.
* *Pipeline.* Guards judge what was read before another process wrote. It is
  right if one request has one intent, every intent has its decision, what was
  answered or published is stored, what is paid is what a payable line of the
  invoice says, and the caps hold up to a known overrun.
* *Start-up.* Scripts run statement by statement, several openers at once, any
  of them dying anywhere. It is right if no stored row is lost, but for one window
  that section 4 names, and no client opens a schema that is not complete.
* *API and webhooks.* Threads build shared objects without a lock and walk lists
  that others append to. It is right if an event reaches every URL that was
  promised it, or gives up after its attempts, without ever holding up the
  request that caused it.
* *Mock chain.* It is right if it answers and does what the contract does.

## 2. Modules

| Module | Models | Built on |
|---|---|---|
| `Settlement` | what the escrow promises: deals locked, paid or returned once; no vault, clock or oracle | |
| `PrefixSum` | the sum of the first n values of a function | |
| `Escrow` | the escrow contract, and the refinement mapping to `Settlement` | `PrefixSum`, `Settlement` |
| `MockChain` | the test double in lockstep with the contract | `Escrow` |
| `PolicyAccount` | the policy account composed with the escrow it funds | `Escrow` |
| `Flow` | commands over database, network and escrow | `Escrow` |
| `Pipeline` | proposers over one SQLite database | |
| `Startup` | openers that migrate and seed one database | |
| `Api` | the REST server's threads, its clients, buses and webhooks | `Startup` |
| `PrefixSumProofs`, `EscrowProofs` | theorems about the sum and the contract | `PrefixSum`, `Escrow`, TLAPS |
| `MockChainProofs`, `PolicyAccountProofs`, `FlowProofs` | theorems about what is built on the contract | the module of that name, `EscrowProofs` |
| `PipelineProofs`, `DailyCapProofs` | theorems about the pipeline; the daily cap apart, since it needs sums | `Pipeline`, TLAPS |
| `ServerProofs` | theorems about start-up, server and webhooks | `Api`, TLAPS |
| `MCEscrow`, `MCPolicyAccount`, `MCFlow`, `MCPipeline`, `MCServer` | instances for TLC | |

Operators marked "Broken:" are never used by a specification. Each is a
plausible bug in the definition below it; `PROJECT.json` pairs it with the
property that catches it.

### Escrow

A contract call is atomic and either succeeds or changes nothing, so an action
is a call that succeeds and its first conjuncts negate the error returns.
`counter`, `intents` and `oracles` are the storage keys; `balance` and `lines`
belong to the token contracts, of which only what `transfer` refuses and moves
is modelled. It refuses a negative amount, an overdraft, and either end whose
line is closed: a trustline that does not exist or a balance the issuer has
deauthorised. `scripts/demo_seed.sh:41` opens the lines of SME and supplier
before anything is deployed, so all are open at the start; `ChangeLine` closes
and opens those in `Unsteady`. `now` is the ledger timestamp. A deadline in the
past, a zero amount and a repeated request hash are accepted, as they are by the
code. `StrayTransfer` is a token transfer to the contract outside any intent.
Left out: storage lifetimes (TTL extension and archival), contract events,
`i128`/`u64` overflow (amounts are bounded by the token's supply), clawback and
the limit of a trustline.

`Settlement` forgets the vault: a wallet is an account's balance, a deal the
intent, evidence the attestation. `refund` is allowed whenever there is no
evidence of delivery; the deadline is a detail of when.

### MockChain

The same calls go to both, the contract (module `Escrow`) and the double, those
the contract refuses included. `MockAgrees` compares records and balances after
each. `AnswersAgree` compares acceptance, in every state and for every call that
can be made: the double refuses nothing the contract would do, and what it
accepts beyond that is a negative amount, a transfer through a closed line, the
attestation of an oracle that is not registered, or a second attestation. The
lockstep makes the second attestations, which the double ignores, and stops
short of the other odd calls: the double acts on them, and from there the two
have different states. They are named by `AnswersAgree` and in section 4.

### PolicyAccount

`check_context` is the code's function of that name, and `check_auth` applies
it to every context. A request is signed (`Sign`) and later applied by the
ledger (`Apply`) against the policy of that moment, all of its calls or none. It
carries any number of calls up to `MaxCalls`: `funds` are `create_intent`s at
this escrow with the transfer each performs, `pays` all else the account's
tokens can be asked for, a bare transfer or a `create_intent` at a *different*
contract with that interface. `Contexts` is what a request puts before
`__check_auth`, `Taken` what it takes. Keys other than the owner's may sign
anything; nothing comes of it. `Signable` limits what is signed on an instance.
`trusted` is a history variable. The escrow's other SMEs and stray transfers by
third parties are left out here (they are in `Escrow`), so that the vault's
money is the account's.

### Flow

Each process has a program counter; a step is what happens between two points
where another process may intervene, i.e. one commit or one chain round trip:

| Step | Code |
|---|---|
| `execute` | `claim_escrow`, the conditional UPDATE |
| `Submit`, `SubmitFails`, `SendRaises`, `Poll` | `SmartAccountClient.create_intent`, up to, during and after `send_transaction` |
| `Submit`, `Invoke` | `SorobanClient.create_intent`, whose subprocess submits and waits |
| `Unconfirmed`, `ReleaseClaim` | the two `except` branches of `flow.execute` |
| `RecordTx` or `RecordBare`, `SetChainIntent`, `Confirm`, `Approve` | the rest of `flow.execute`; its `chain_txs` row has the hash or NULL |
| `flow_attest`, `sdk_attest`, `SubmitAttestation` | `flow.attest`, `LumoClient.attest`, `LocalSignerSet.submit` |
| `flow_release`, `flow_revert` | the contract call; then sync; then, for release, `cash_out` |
| `SyncRead`, `SyncChain` or `SyncUnseen`, `SyncWrite` | `sync_status`: row read, chain read (which a node behind the ledger answers with nothing), row written |
| `Crash` | the process dies, or an exception ends it |
| `Land`, `NotLand` | the ledger applies, rejects or drops the transaction |
| `Outsider`, `Passing` | oracles and the public at the contract; time and trustlines |

`Clients` says how `create_intent` may be sent (`SorobanAdapter` prefers the
smart account and falls back on the command line), `Local` whether an oracle
adapter is configured.

`Lossy` says what an error of the client means. FALSE is what the comment at
`lumo/flow.py:49` assumes: an exception other than `ChainSubmittedUnconfirmed`
means that no escrow was or will be created. TRUE is what the clients do:
`SorobanClient.invoke` raises the same exception for a subprocess that timed
out after sending (`Invoke`), and `SmartAccountClient` calls `send_transaction`
outside the `try` that would turn a lost answer into
`ChainSubmittedUnconfirmed` (`SendRaises`). Two history variables record what
the properties must excuse: `misled`, the jobs whose execute was told of a
failure while the transaction could still land, and `orphaned`, those whose
execute died with a transaction that `chain_txs` does not have. A job that is
neither must satisfy everything.

A subprocess may also succeed without its hash being found in its output
(`soroban_client.py:101`). `flow.execute` then adds a row to `chain_txs` whose
`tx_hash` is NULL (`RecordBare`): `pointers` are the jobs with a hash, `bare`
those with such a row. A job of the second kind is traced through its escrow's
id alone, which `SetChainIntent` writes next; if the process dies between the
two, the job counts as orphaned.

The write a command makes to `chain_txs` after `attest`, `release` or `refund`
is not modelled (nothing reads it); nor are `dry_run`, the event emitted with
each write, and a source without any signer. The hash comparison of the
confirmation cannot fail here: the id comes from the transaction's own result.

### Pipeline

A proposer reads today's intents (`run`), reads the known hashes and asks every
guard (`run_guards`), commits an event for each guard that tripped
(`guard_tripped`), and records the decision (`insert_intent`, `insert_decision`,
`commit`, `emit`). A `Reading` is what the guards can tell apart about an
invoice: its hash, the amount the model extracted, the lines of the text with
the amounts on each and whether a payable label stands there, whether the
supplier is registered, whether the extracted address differs from the
registry's, whether the scan flags it, a cosign token, a compute receipt.
Numbers are counted in parts of a stroop, so that `to_stroops` can refuse a
fraction, but only after it has rounded the product as Python's 28-digit
`Decimal` does, half to even: `Ulp` says what the last digit of a number is
worth, `Rounded` rounds to it. A fraction too fine for the digits is therefore
accepted. How numbers are spelt, the refusal codes and the regular expressions
of the scan are abstracted away.

A transaction belongs to a *connection*: `Conn` gives each proposer its own
(processes), or all of them one (threads of the API). SQLite's single writer
and its five-second `busy_timeout` are `CanWrite` and `busy`; `Progress` and
`Midnight` are what the money flow does to rows, and the date.

### Startup and Api

`tables` maps the tables that exist to their rows; `Script` holds the five
scripts as the statements they consist of, and an opener runs one statement at
a time, because `executescript` commits each by itself. A statement that SQLite
refuses ends its opener, as does `OpenFails` at any point. Only the rows of
`intents`, `decisions`, `policy_rules` and `suppliers` are followed, and all
fixtures of a table count as one row. `Write` is a command of the CLI: it
records a decision in whatever schema it finds. `stored` is a history variable:
every row ever committed, with a mark on those that were committed to a table
between its copy and its drop. They are lost with the old table (section 4), and
are the one exception `RowsKept` makes. After the seed an opener may still fail
in the webhook build of its client; that is `Constructed` in `Api`.

In `Api` a thread's program counter follows `do_POST`. `Constructing` is the
constructor of `LumoClient`, with the steps of `Startup`; `Constructed` its end
and the assignment to the class. `subscribers` and `urls` list every bus and
every dispatcher ever built, those that lost a race included, and a proposal
publishes to the bus of the client it got, walking both lists while they may
grow. A proposal is one event; what it decides is in `Pipeline`. `Restart` ends
the process at any moment. GET requests only read, but the first of them
constructs the client as a proposal does; they are left out, and so are bodies
that are rejected and `monitoring = false`.

## 3. Runs

| Run | Properties | What it shows |
|---|---|---|
| `escrow` | `EscrowTypeOK` `Solvent` `OutcomeJustified` `FundsRecoverable` `WriteOnce` `MockAgrees` `AnswersAgree` `ImplementsSettlement` `EveryIntentSettles` | two tokens, two intents, amounts with a negative one, oracles registered and removed, stray transfers, a trustline that closes and opens, the deadline passing; the contract implements `Settlement`, only a closed line holds back an intent that is due, and the test double agrees with it |
| `account` | `AccountTypeOK` `Contained` `SpendsWithinPolicy` | a request of one or two calls waiting while cap, suppliers and escrow change under it |
| `account_stray` | violates `OnlyFundingLeg` | see finding 3 |
| `flow` | `FlowTypeOK` `OneEscrowUnlessMisled` `ProposedIsClean` `EscrowIsTraceable` `RecordedFirst` `LocalBehindChain` `PayoutBacked` `PaidOnQuorum` `ChainIdWrittenOnce` | three processes on one invoice, both clients, two signers both needed, two submissions; `Lossy = TRUE`, which includes every behaviour of honest errors |
| `flow_catches_up` | `LocalCatchesUp` | with sync run again and again, the row of a settled escrow ends up right for good |
| `flow_double` | violates `AtMostOneEscrow` | see finding 1 |
| `flow_recovery` | violates `RecoveredDecision` | see finding 2 |
| `pipeline` | `PipelineTypeOK` `OneIntentPerRequest` `Audited` `AnswerStored` `PublishedIsCommitted` `OnlyCleanIntents` `PaysWhatIsDue` | two proposing processes, seven readings (a decoy, a fraction that is refused and one that is rounded away, unregistered, flagged), two configurations |
| `pipeline_daily` | `DailyOverrunBounded` | three invoices, each as large as the cap per transaction allows, over midnight and through reverts |
| `pipeline_api` | violates `EveryAnswerStored` | see finding 4 |
| `server` | `ServerTypeOK` `RowsKept` `OpenIsUpToDate` `DeliveryComplete` `EveryRequestAnswered` | two threads and another process over a new database and one three scripts old; two threads, a configured and a registered webhook over one that is up to date |
| `server_lost_webhook` | violates `RegisteredIsNotified` | see finding 5; a single thread |

**Bounds.** *Escrow*: intents interact only through the vault's balance in one
token and through the shared oracle registry, so two intents and two tokens
exhibit every interaction; time 0 and 1 are before and at deadline 1, all the
contract asks of the clock; one line that changes, the supplier's in one token,
meets intents of both tokens; the theorems of section 5 remove these bounds.
*PolicyAccount*: one waiting request suffices since requests do not see each
other, and two calls since each is judged alone; two intents, two caps, an
address that is or is not approved at each step. *Flow*: one invoice, because
rows of different invoices share nothing but the vault (see Escrow);
`MaxSent = 2` is one retry, the least that can fund twice, and `MaxIntents = 2`
lets both land; three processes let two commands race with a third that changes
the row under them. In `flow` the deadline is past from the start, so that a
refund is possible whenever nothing was attested: the flow does not look at the
clock, and what it does before a deadline it may also do when that is past. The lines are steady there, since a closed one only makes calls fail,
which any call may do (the theorems are without these restrictions). The local
signers and the processes may each be permuted. The liveness runs need a single
submission and use no symmetry; `flow_catches_up` sends by the smart account
only, since no sync cares how its escrow came about. *Pipeline*: two proposers
give every race of two; `MaxIds` bounds the inserts, `MaxDays = 1` passes one
midnight. *Server*: `Scenarios` keeps the upgrade and the deliveries apart,
since a client that is open has nothing to migrate; two openers give every race
over a script and the other process may be `lumo init`, an SDK client or a
command that writes; one proposal and two threads let a registration cut into a
delivery at every point, and `ATTEMPTS` is the code's. At those bounds an action
is merely disabled, so safety holds of every prefix. Deadlock is checked in
every passing run.

**Fairness.** `EscrowFairness`: the ledger closes (WF of `Tick`), and whoever is
owed the money calls `release` or `refund` while the contract would accept it
(WF per intent) - both are open to anyone and cost the caller nothing but a fee.
Nothing is assumed of the oracles or of trustlines: `EveryIntentSettles`
promises to settle those intents whose beneficiary can receive from some time on
(`Deliverable`). `FlowFairness`: a running command takes its next step or dies
(WF of `Run`). No scheduler in the code runs `sync`: that operators run it again
and again for each job, and that it does not die at the same step every time,
and that the node it asks is not behind the ledger for ever, are assumptions (SF
of the sync steps, per job), and `LocalCatchesUp` is only as good as they are.
`ServerSpec`: a thread that serves a request is scheduled again (WF of `Serve`,
one per thread, as the operating system runs them); posts end because `HttpSink`
has a timeout. Requests, other processes and restarts are under no fairness.

## 4. Findings

1. **A second escrow of one invoice** (`flow_double`). `flow.execute` releases
   the claim on every exception but `ChainSubmittedUnconfirmed`. A client error
   that comes after the transaction left reopens the row; a retry submits again;
   both land. Unless the client misled it so, this cannot happen
   (`OneEscrowUnlessMisled`).
2. **The crash recovery branch is not reached** (`flow_recovery`).
   `sync_status` returns early when local and chain status agree, and
   `claim_escrow` has already written `escrowed`; after a crash before
   `record_decision` no sync ever writes the approved decision.
3. **A transfer that funds nothing** (`account_stray`). Contexts are checked
   one by one, so a bare transfer to the escrow within the cap is authorised.
   It stays contained (`Contained` holds), but no intent can pay it out.
4. **An answer that is not stored** (`pipeline_api`). Two API threads share a
   connection; a UNIQUE violation in one rolls back what the other had inserted
   and then answered for. With a connection each (`pipeline`) it cannot happen.
5. **A webhook that is registered and never called** (`server_lost_webhook`).
   `_dispatcher` assigns the class attribute before the client is constructed
   and the dispatcher subscribed. When the constructor fails, the dispatcher
   stays and nothing subscribes it any more: later registrations are answered
   with 200 and receive nothing until the server is restarted. Two threads that
   race for the first request have the same effect.

Limitations of the code that are not runs of their own: an intent that is
attested as shipped to a supplier who cannot receive the token is stuck until
the line opens, since `release` traps and `refund` refuses it whatever the
deadline (`FundsRecoverable` says exactly this); the cap README.md calls
per-transaction (`cap_per_tx`) is compared with each call alone, so one signed
transaction of n calls may take n caps (the bound in `SpendsWithinPolicy`); the
row of `chain_txs` that the comment at `lumo/flow.py:55` calls a reconcilable
pointer has no hash when the client found none (`bare` in `RecordedFirst`); a
row that is `escrowed` with `chain_intent_id` NULL (unconfirmed submission, or a
crash before `set_chain_intent`) is picked up by no command, although its hash
is in `chain_txs`, if it was learned; a process that dies between `release` and
`cash_out` leaves the supplier's off-ramp unpaid, and no command retries it; a
`held` intent has no way to become `proposed`, and proposing it again is refused
as a duplicate. A `flow.attest` that dies between the contract's attestation and
its local rows cannot be repeated, since the contract refuses a second one; only
`sdk.attest` can then complete the quorum. A migration script that stops
half-way makes every later `up` fail at its first CREATE, its rows safe but
under the copy's name; a row recorded by a command while another process is
between the copy and the drop of its table is lost (the exception in
`RowsKept`). Webhooks registered by request are forgotten at a restart, and a
post that timed out may arrive as often as it is attempted. The mock chain is
more lenient than the contract, in the ways `AnswersAgree` lists: it takes
attestations of unregistered oracles, ignores a second attestation instead of
refusing it, moves negative amounts, and knows no trustlines. It also raises a
`KeyError` for a zero amount of a token nobody was funded with.
`docs/integration.md:112` says that money state is only ever written after a
chain read confirms it, while `claim_escrow` writes `escrowed` first, as an
in-flight marker (its docstring says so).

## 5. Proofs

Every invariant and every action property that a passing run checks is also a
theorem, for every value of the constants that satisfies the module's named
assumption, under the specification without its fairness. The bounds of section
3 are constants there: nothing depends on how many intents, jobs, processes,
proposers, openers, threads, URLs or amounts there are.

**What is assumed.** Only the ASSUMEs of the modules, which TLC evaluates on
every instance: amounts are integers (negative ones included), deadlines and
bounds are naturals, the vault is not an account, `Terms` and `Readings` are
records of the right shape, caps are not negative, an older database's rows are
rows, `ATTEMPTS` is positive, the last digit of a number is worth at least one
part of a stroop, the lines that change are lines and the requests that can be
signed are requests. Two say that a set is finite, because a cardinality is
compared: the signers of `Flow` (a quorum is counted) and the proposers of
`Pipeline` (the bound on the overrun counts them); both sets are also not empty.

**How the proofs go.** Apart from typing, hardly a property of these modules is
inductive. Each proof module opens with the strengthening, one conjunct per
idea, and has a lemma per action (or per action and conjunct); the theorems at
its end follow. TLC checked each strengthening on the instances of section 3,
`ServerInv` also on databases of every version, before it was proved.

### PrefixSumProofs and EscrowProofs

* `EscrowTyped`: inductive as it stands; that no balance goes below zero rests
  on `CanTransfer` guarding each transfer.
* `EscrowSolvent`: the inductive invariant is `EscrowTypeOK /\ Solvent`. Typing
  is needed to know that amounts are naturals, so that a sum bounds its terms.
  Each action changes at most one term of `Owed`, and `SumToChange` says what
  that does to the sum. `SumToChange`, `SumToNat` and `SumToSame` are proved by
  induction over a set of naturals (a least counterexample), the form of
  induction open to these provers; `SumToRecurrence` unfolds the recursive
  function.
* `EscrowFundsRecoverable` follows: the amount of one funded intent is at most
  the sum, hence at most the vault's balance, so of all that `transfer` may
  refuse only a closed line is left. It is an equivalence: an intent that is due
  can be settled exactly when the asset contract lets the vault pay.
* `EscrowOutcomeJustified`: with typing; the cases that matter are `attest`,
  excluded for settled intents by its status guard, and `Tick`, which only moves
  forward. `EscrowWriteOnce` is an action property, from typing alone.
* `EscrowImplementsSettlement`: each call maps to a step of `Settlement` or to a
  stutter (`add_oracle`, `remove_oracle`, `Tick`, `ChangeLine`); the vault's
  half of each transfer is what the mapping hides.

### MockChainProofs and PolicyAccountProofs

* `LockstepAgrees`: one lemma per pair of calls; `MockAgrees` with the
  contract's typing is inductive, because in one state each refusal of one side
  is a refusal of the other or has no effect there. `LockstepAnswers` is then a
  comparison of the two sets of guards in equal states.
* `AccountContained`: `Contained` speaks of balances only, and a release moves
  the vault's money to whoever an *old* intent names. `PolicyTrusted` adds that
  every intent was funded by the account for a supplier it then trusted, and
  that the policy in force names nobody who was never trusted. `AccountSpends`,
  an action property, follows from typing and `check_auth`: every call that was
  authorised takes at most the cap, and `SumToBounded` adds them up.

### FlowProofs

`FlowInv` says what each program counter entitles its process to rely on:

* `ClaimHeld`: between `claim_escrow` and `set_chain_intent` the row says
  escrowed without a chain id and no other execute is at work on it;
  `LandedIsEscrow` and `EscrowIsLanded`: landed transactions and escrows are one
  to one; `OneLive` and `NothingElseLive`: unless the job was misled, of all its
  transactions at most one can still fund an escrow, and none when it is about
  to be submitted or its claim given back. From these `FlowOneEscrow` and
  `FlowProposedIsClean`.
* `TxKnown`: an execute past submission holds a transaction of its own job,
  landed once it says so, and about to write the chain id only when `chain_txs`
  has a row of the job. Hence `FlowRecordedFirst`, `FlowEscrowIsTraceable` (by
  its hash, or by the id the row has of it) and `FlowChainIdWrittenOnce`.
* `SyncSound`: a sync that is about to write copied a status that the escrow
  cannot leave again. Hence `FlowLocalBehindChain`, whatever the syncs overwrite.
* `PayerAlone` and `PaidOnce`: the contract lets only one release of an escrow
  succeed, so the process that may still cash out is alone, had its quorum and
  finds nothing paid. Hence `FlowPayoutBacked` and `FlowPaidOnQuorum`.

`FlowStepsEscrow` shows that every step of the flow is a step of the contract or
leaves it alone, so what was proved of the contract carries over:
`FlowKeepsContract` (solvent, outcomes justified, recoverable in the sense
above) and `FlowImplementsSettlement`, which makes the commands, the network and
the ledger together an implementation of `Settlement`.

### PipelineProofs and DailyCapProofs

`PipelineInv` has four parts. `DbInv` is about the database: committed and
pending rows are sound (`Judged`: some guard function let them through), at most
one connection has an open transaction, hashes and ids are unique over what is
committed and what is pending, decisions refer to intents. `ProcInv` says what a
proposer has established at each program counter. `PrivateInv` ties a proposer
that shares its connection with nobody to that connection's transaction, and
`AuditInv` pairs intents with decisions. The hypothesis of unshared connections
stays in the properties that need it; run `pipeline_api` shows they fail
without it. `PipelinePaysDue` rests on `RoundedNear`: what `Rounded` returns is
within half a unit of the last digit.

`DailyOverrun`: what a proposer read is stale by the time it inserts, so
`DailyInv` does not speak of what was read but of who is *exposed*: from reading
a sum that leaves room until its row is committed or given up. The day's sum,
plus a cap for every exposed proposer but one, plus the amount of that one,
stays within the bound. Sums over sets of rows are handled by induction over
finite sets.

### ServerProofs

`StartupInv` is the invariant of the scripts. `SchemaInv`: the tables that exist
are those of one *place* - a number of recorded scripts and of statements run
of the next - and whoever is inside a script is at that place. There are two
exceptions, without which the invariant does not hold: the one opener
with an outdated list that created `intents` anew while another's rebuild had
dropped it (`Late`), and the rebuild that then cannot rename its copy (`Stuck`);
both can only fail. `Alone`: nobody else gets past the first statement of a
script, because its CREATE fails. `OpenerInv`: what an opener has behind it is
recorded. `Copied`: before a table is dropped its rows are in the copy, but for
those that `stored` marks as having come too late. Hence
`ServerRowsKept` and `ServerOpenIsUpToDate`, from any of the six versions.

`ServerInv` adds the threads: `Buses` (every bus calls dispatchers that exist,
the first of them with the configured URLs), `Equipped` (what a thread has got
hold of by the time it needs it) and `Delivering`: a URL an event is due to was
served or lies ahead of the thread in the two lists it walks. As the lists only
grow (`Grows`), what lay ahead of a thread that waits still does
(`WhoWaitsKeeps`). Hence `ServerDeliveryComplete`.

### Only model-checked

The liveness properties `EveryIntentSettles`, `LocalCatchesUp` and
`EveryRequestAnswered`: TLAPS has no support for fairness here. The five
violations are TLC's counterexamples and have no proof.

## 6. Not modelled

Extraction and injection scan (their results are the nondeterministic
`Readings`); the parsing of arguments, configuration, request bodies and
JSON-RPC envelopes; metrics, the tester, the dashboard and every other view
that only reads; `migrate.down`, `set_rule` and `add_supplier`, which nothing
but tests calls; the stubs that raise (EVM chain, shipment API, GCash and PDAX
anchors); storage lifetimes and contract events.

## 7. Plan

Done: `Escrow` with its abstract specification, `MockChain`, `PolicyAccount`,
`Flow`, `Pipeline`, `Startup`, `Api`, and proofs of all their safety properties.
Next, in this order:

1. An intent's whole life: `Pipeline` and `Flow` composed over one table, where
   `held` rows, the status updates of both, and the daily sum meet; the
   invariants of each carried over to the composition.
2. An abstract specification of the proposal table (a set of requests, each
   decided once) that `Pipeline` implements with unshared connections.
3. The notification half of the server: under which condition
   `RegisteredIsNotified` does hold (every constructor succeeds and one thread
   registers first), as a property of its own.
