---------------------------- MODULE DailyCapProofs ---------------------------
(***************************************************************************)
(* The daily cap under proposals that overlap: how far the sum of a day    *)
(* can exceed it, for any number of proposers, sharing connections or not. *)
(*                                                                         *)
(* A proposer reads what is committed, and its own row is committed much   *)
(* later; what it read is stale by then.  The invariant therefore counts   *)
(* not what was read but who may still add to the sum, and by how much.    *)
(***************************************************************************)
EXTENDS PipelineProofs

(* The daily cap.  A proposer is exposed from the moment it has read a sum *)
(* that leaves room for its amount until its row is committed or given up; *)
(* a row of an open transaction has a proposer exposed for it.             *)
DayRows(S, day) ==
  {r \in S : r.day = day /\ r.final # "reverted" /\ r.status \in COUNTED_STATUSES}
SpentOn(S, day) == SumOf(DayRows(S, day))
Spent == SpentOn(rows, today)

RoomFor(job) ==
  /\ Amount(job.reading) \in 0..CapPerTx
  /\ job.spent + Amount(job.reading) <= CapDaily

(* The amount p is exposed for can be a.                                   *)
ExposedFor(job, open, a) ==
  \/ job.pc = "guards" /\ RoomFor(job) /\ a = Amount(job.reading)
  \/ /\ job.pc \in {"trip", "record"} /\ job.decision # "refused"
     /\ a = Amount(job.reading)
  \/ /\ job.pc \in {"decision", "commit"}
     /\ \E r \in open.rows : r.id = job.id /\ a = Amount(r.reading)

Exposure(p, a) == ExposedFor(proc[p], pending[Conn[p]], a)
Exposed == {p \in Proposers : \E a \in 0..CapPerTx : Exposure(p, a)}

PendingOwned ==
  \A c \in Connections : \A r \in pending[c].rows :
    \E p \in Proposers : /\ Conn[p] = c
                         /\ proc[p].pc \in {"decision", "commit"}
                         /\ proc[p].id = r.id

DailyBound == CapDaily + (Cardinality(Proposers) - 1) * CapPerTx

(* A step settles q when q stays exposed for the same amount, or for none. *)
Settles(q) ==
  \/ \A a \in 0..CapPerTx : Exposure(q, a)' <=> Exposure(q, a)
  \/ \A a \in 0..CapPerTx : ~Exposure(q, a)'

(* Every exposed proposer may still add a whole cap, but one of them no    *)
(* more than the amount it is exposed for.                                 *)
DailyRoom ==
  \/ Spent + Cardinality(Exposed) * CapPerTx <= DailyBound
  \/ \E p \in Exposed : \E a \in 0..CapPerTx :
       /\ Exposure(p, a)
       /\ Spent + (Cardinality(Exposed) - 1) * CapPerTx + a <= DailyBound

DailyInv == config.policy_engine => PendingOwned /\ DailyRoom

-----------------------------------------------------------------------------
(***************************************************************************)
(* The sum of a day.                                                       *)
(***************************************************************************)
LEMMA SoundAmount ==
  ASSUME config.policy_engine, NEW r, Sound(r)
  PROVE  Amount(r.reading) \in 0..CapPerTx
BY PassingAmount DEF Sound, Judged

LEMMA EngineAmounts ==
  ASSUME DbInv, config.policy_engine
  PROVE  /\ IsFiniteSet(rows)
         /\ \A r \in rows : Amount(r.reading) \in 0..CapPerTx
         /\ \A c \in Connections :
              /\ IsFiniteSet(pending[c].rows)
              /\ \A r \in pending[c].rows : Amount(r.reading) \in 0..CapPerTx
         /\ CapPerTx \in Nat
BY SoundAmount, PipelineAssumption DEF DbInv, DbSound

LEMMA DayRowsFinite ==
  ASSUME NEW S, IsFiniteSet(S), \A r \in S : Amount(r.reading) \in 0..CapPerTx,
         CapPerTx \in Nat, NEW day
  PROVE  /\ IsFiniteSet(DayRows(S, day)) /\ Amounts(DayRows(S, day))
         /\ SpentOn(S, day) \in Int
<1>1. DayRows(S, day) \in SUBSET S
  BY DEF DayRows
<1>2. IsFiniteSet(DayRows(S, day))
  BY <1>1, FS_Subset
<1>3. Amounts(DayRows(S, day))
  BY <1>1 DEF Amounts
<1> QED
  BY <1>2, <1>3, SumOfInt DEF SpentOn

(* What a proposer reads is at least what counts.                          *)
LEMMA SpentIsRead ==
  ASSUME DbInv, config.policy_engine, NEW c \in Connections
  PROVE  Spent <= Committed(c) /\ Spent \in Int /\ Committed(c) \in Int
<1> DEFINE S == {r \in Visible(c) : r.day = today /\ r.status \in COUNTED_STATUSES}
           D == DayRows(rows, today)
<1>1. Committed(c) = SumOf(S)
  BY Zenon DEF Committed, SumOf
<1>2. S \in SUBSET Visible(c) /\ D \subseteq S
  BY DEF DayRows, Visible
<1> HIDE DEF S
<1>3. /\ IsFiniteSet(S) /\ \A r \in S : Amount(r.reading) \in 0..CapPerTx
      /\ CapPerTx \in Nat
  BY <1>2, VisibleAmounts, FS_Subset, PipelineAssumption
<1>4. IsFiniteSet(D) /\ Amounts(D)
  BY EngineAmounts, DayRowsFinite
<1> HIDE DEF D
<1> DEFINE P == S \ D
<1>5. P \in SUBSET S /\ D \cup P = S /\ D \cap P = {}
  BY <1>2
<1>6. IsFiniteSet(P) /\ \A r \in P : Amount(r.reading) \in 0..CapPerTx
  BY <1>3, <1>5, FS_Subset
<1> HIDE DEF P
<1>7. SumOf(D) \in Int /\ SumOf(D \cup P) \in Int /\ SumOf(D) <= SumOf(D \cup P)
  BY <1>3, <1>4, <1>5, <1>6, SumOfUnion
<1> QED
  BY <1>1, <1>5, <1>7 DEF Spent, SpentOn, D

(* A row that moves on adds nothing.                                       *)
LEMMA ProgressSpends ==
  ASSUME DbInv, config.policy_engine, NEW r \in rows, Progress(r)
  PROVE  Spent' <= Spent /\ Spent \in Int /\ Spent' \in Int
<1>1. DbTyped /\ Sound(r) /\ DistinctHashes(rows)
  BY DEF DbInv, DbSound, DbUnique
<1>2. PICK n \in Row :
        /\ rows' = (rows \ {r}) \cup {n} /\ n.reading = r.reading /\ n.day = r.day
        /\ n.final # "reverted" /\ n.status \in COUNTED_STATUSES =>
             r.final # "reverted" /\ r.status \in COUNTED_STATUSES
  BY <1>1, ProgressMoves
<1>3. /\ IsFiniteSet(rows) /\ CapPerTx \in Nat
      /\ \A s \in rows : Amount(s.reading) \in 0..CapPerTx
  BY EngineAmounts
<1> DEFINE S == rows \ {r}
           D == DayRows(S, today)
<1>4. IsFiniteSet(S) /\ \A s \in S : Amount(s.reading) \in 0..CapPerTx
  BY <1>3, FS_RemoveElement
<1>5. IsFiniteSet(D) /\ Amounts(D) /\ SumOf(D) \in Int
  BY <1>3, <1>4, DayRowsFinite, SumOfInt
<1>6. r \notin D /\ n \notin D
  BY <1>1, <1>2 DEF DayRows, DistinctHashes
<1>7. Amount(r.reading) \in 0..CapPerTx /\ Amount(n.reading) = Amount(r.reading)
  BY <1>2, <1>3
<1>8. /\ SumOf(D \cup {r}) = SumOf(D) + Amount(r.reading)
      /\ SumOf(D \cup {n}) = SumOf(D) + Amount(r.reading)
  <2> HIDE DEF D
  <2>0. Amount(r.reading) \in Int /\ Amount(n.reading) \in Int
    BY <1>3, <1>7
  <2>1. Amounts(D \cup {r}) /\ Amounts(D \cup {n})
    BY <1>5, <2>0 DEF Amounts
  <2> QED
    BY <1>5, <1>6, <1>7, <2>1, SumOfAdds
<1>9. today' = today
  BY DEF Progress
<1>10. /\ Spent = SumOf(D) \/ Spent = SumOf(D) + Amount(r.reading)
       /\ r \in DayRows(rows, today) => Spent = SumOf(D) + Amount(r.reading)
  <2>1. CASE r \in DayRows(rows, today)
    <3>1. DayRows(rows, today) = D \cup {r}
      BY <2>1 DEF DayRows
    <3> QED
      BY <1>8, <3>1 DEF Spent, SpentOn
  <2>2. CASE r \notin DayRows(rows, today)
    <3>1. DayRows(rows, today) = D
      BY <2>2 DEF DayRows
    <3> QED
      BY <2>2, <3>1 DEF Spent, SpentOn
  <2> QED
    BY <2>1, <2>2
<1>11. CASE n.day = today /\ n.final # "reverted" /\ n.status \in COUNTED_STATUSES
  <2>1. DayRows(rows', today') = D \cup {n}
    BY <1>2, <1>9, <1>11 DEF DayRows
  <2>2. r \in DayRows(rows, today)
    BY <1>2, <1>11 DEF DayRows
  <2>3. Spent' = SumOf(D) + Amount(r.reading)
    BY <1>8, <2>1 DEF Spent, SpentOn
  <2> HIDE DEF D
  <2> QED
    BY <1>3, <1>5, <1>7, <1>10, <2>2, <2>3
<1>12. CASE ~(n.day = today /\ n.final # "reverted" /\ n.status \in COUNTED_STATUSES)
  <2>1. DayRows(rows', today') = D
    BY <1>2, <1>9, <1>12 DEF DayRows
  <2>2. Spent' = SumOf(D)
    BY <2>1 DEF Spent, SpentOn
  <2> HIDE DEF D
  <2> QED
    BY <1>3, <1>5, <1>7, <1>10, <2>2
<1> QED
  BY <1>11, <1>12

(* Nothing is of a day that has not begun.                                 *)
LEMMA MidnightSpends ==
  ASSUME DbInv, config.policy_engine, Midnight
  PROVE  Spent' <= Spent /\ Spent \in Int /\ Spent' \in Int
<1>1. today \in 0..MaxDays /\ today' = today + 1 /\ rows' = rows
  BY DEF DbInv, DbTyped, Midnight
<1>2. ASSUME NEW r \in rows PROVE r.day # today'
  <2>1. r.day <= today /\ r.day \in 0..MaxDays
    BY DEF DbInv, DbTyped, DbSound, Sound, Row
  <2> QED
    BY <1>1, <2>1, PipelineAssumption
<1>3. DayRows(rows', today') = {}
  BY <1>1, <1>2 DEF DayRows
<1>4. Spent' = 0
  BY <1>3, EmptySum DEF Spent, SpentOn
<1>5. IsFiniteSet(DayRows(rows, today)) /\ Spent \in Int
  BY EngineAmounts, DayRowsFinite DEF Spent
<1>6. 0 <= Spent
  <2> DEFINE D == DayRows(rows, today)
  <2>1. \A r \in D : Amount(r.reading) \in 0..CapPerTx
    BY EngineAmounts DEF DayRows
  <2>2. IsFiniteSet(D) /\ CapPerTx \in Nat
    BY <1>5, PipelineAssumption
  <2> HIDE DEF D
  <2>3. IsFiniteSet({}) /\ Amounts({}) /\ {} \cap D = {} /\ {} \cup D = D
    BY FS_EmptySet DEF Amounts
  <2>4. SumOf({}) <= SumOf({} \cup D)
    BY <2>1, <2>2, <2>3, SumOfUnion
  <2> QED
    BY <2>3, <2>4, EmptySum DEF Spent, SpentOn, D
<1> QED
  BY <1>4, <1>5, <1>6

-----------------------------------------------------------------------------
(***************************************************************************)
(* The room that is left.                                                  *)
(***************************************************************************)
LEMMA ExposedFinite ==
  /\ IsFiniteSet(Proposers) /\ Cardinality(Proposers) \in Nat
  /\ IsFiniteSet(Exposed) /\ Cardinality(Exposed) \in Nat
  /\ Cardinality(Exposed) <= Cardinality(Proposers)
<1>1. IsFiniteSet(Proposers) /\ Exposed \in SUBSET Proposers
  BY PipelineAssumption DEF Exposed
<1> QED
  BY <1>1, FS_Subset, FS_CardinalityType

LEMMA BoundInt == CapPerTx \in Nat /\ CapDaily \in Nat /\ DailyBound \in Int
BY ExposedFinite, PipelineAssumption DEF DailyBound

(* A step after which nobody is newly exposed and the sum has grown by no  *)
(* more than what those are exposed for who no longer are.                 *)
LEMMA RoomKept ==
  ASSUME DailyRoom, \A q \in Proposers : Settles(q), Spent \in Int, Spent' \in Int,
         Spent' <= Spent + Cardinality(Exposed \ Exposed') * CapPerTx,
         \A p \in Exposed \ Exposed' : \A a \in 0..CapPerTx : Exposure(p, a) =>
           Spent' <= Spent + (Cardinality(Exposed \ Exposed') - 1) * CapPerTx + a
  PROVE  DailyRoom'
<1> DEFINE n == Cardinality(Exposed)
           m == Cardinality(Exposed')
           k == Cardinality(Exposed \ Exposed')
<1>1. Exposed' \subseteq Exposed
  BY DEF Exposed, Settles
<1>2. n \in Nat /\ m \in Nat /\ k \in Nat /\ n = m + k
  <2>1. IsFiniteSet(Exposed) /\ IsFiniteSet(Exposed') /\ IsFiniteSet(Exposed \ Exposed')
    BY <1>1, ExposedFinite, FS_Subset
  <2>2. /\ Exposed' \cup (Exposed \ Exposed') = Exposed
        /\ Exposed' \cap (Exposed \ Exposed') = {}
    BY <1>1
  <2>3. Cardinality(Exposed' \cup (Exposed \ Exposed')) = m + k - Cardinality({})
    BY <2>1, <2>2, FS_Union
  <2>4. n \in Nat /\ m \in Nat /\ k \in Nat
    BY <2>1, FS_CardinalityType
  <2>5. n = m + k - Cardinality({})
    BY <2>2, <2>3
  <2> HIDE DEF n, m, k
  <2> QED
    BY <2>4, <2>5, FS_EmptySet
<1>3. CapPerTx \in Nat /\ DailyBound \in Int /\ DailyBound' = DailyBound
  BY BoundInt DEF DailyBound
<1> HIDE DEF n, m, k
<1>4. /\ n * CapPerTx = m * CapPerTx + k * CapPerTx
      /\ (n - 1) * CapPerTx = m * CapPerTx + (k - 1) * CapPerTx
      /\ (n - 1) * CapPerTx = (m - 1) * CapPerTx + k * CapPerTx
      /\ n * CapPerTx \in Int /\ m * CapPerTx \in Int /\ k * CapPerTx \in Int
      /\ (n - 1) * CapPerTx \in Int /\ (m - 1) * CapPerTx \in Int
      /\ (k - 1) * CapPerTx \in Int
  BY <1>2, <1>3
<1>5. CASE Spent + n * CapPerTx <= DailyBound
  <2>1. Spent' + m * CapPerTx <= DailyBound
    <3>1. Spent' <= Spent + k * CapPerTx
      BY DEF k
    <3> QED
      BY <1>3, <1>4, <1>5, <3>1
  <2> QED
    BY <1>3, <2>1 DEF DailyRoom, m
<1>6. ASSUME NEW p \in Exposed, NEW a \in 0..CapPerTx, Exposure(p, a),
             Spent + (n - 1) * CapPerTx + a <= DailyBound
      PROVE  DailyRoom'
  <2>1. a \in Int
    BY <1>3
  <2>2. CASE p \in Exposed'
    <3>1. Exposure(p, a)'
      BY <1>6, <2>2 DEF Settles, Exposed
    <3>2. Spent' <= Spent + k * CapPerTx
      BY DEF k
    <3>3. Spent' + (m - 1) * CapPerTx + a <= DailyBound
      BY <1>3, <1>4, <1>6, <2>1, <3>2
    <3> QED
      BY <1>3, <2>2, <3>1, <3>3 DEF DailyRoom, m
  <2>3. CASE p \notin Exposed'
    <3>1. Spent' <= Spent + (k - 1) * CapPerTx + a
      BY <1>6, <2>3 DEF k
    <3>2. Spent' + m * CapPerTx <= DailyBound
      BY <1>3, <1>4, <1>6, <2>1, <3>1
    <3> QED
      BY <1>3, <3>2 DEF DailyRoom, m
  <2> QED
    BY <2>2, <2>3
<1> QED
  BY <1>5, <1>6 DEF DailyRoom, n

(* In particular when the sum has not grown.                               *)
LEMMA RoomKeptSame ==
  ASSUME DailyRoom, \A q \in Proposers : Settles(q), Spent \in Int, Spent' \in Int,
         Spent' <= Spent
  PROVE  DailyRoom'
<1> DEFINE k == Cardinality(Exposed \ Exposed')
<1>1. IsFiniteSet(Exposed \ Exposed') /\ k \in Nat
  BY ExposedFinite, FS_Subset, FS_CardinalityType
<1>2. CapPerTx \in Nat
  BY BoundInt
<1>3. ASSUME NEW p \in Exposed \ Exposed' PROVE k >= 1
  BY <1>1, <1>3, FS_EmptySet
<1> HIDE DEF k
<1>4. k * CapPerTx \in Nat
  BY <1>1, <1>2
<1>5. Spent' <= Spent + k * CapPerTx
  BY <1>4
<1>6. ASSUME NEW p \in Exposed \ Exposed', NEW a \in 0..CapPerTx
      PROVE  Spent' <= Spent + (k - 1) * CapPerTx + a
  <2>1. k - 1 \in Nat
    BY <1>1, <1>3
  <2>2. (k - 1) * CapPerTx \in Nat /\ a \in Nat
    BY <1>2, <2>1
  <2> QED
    BY <2>2
<1> QED
  BY <1>5, <1>6, RoomKept DEF k

(* Who is left alone by a step is settled by it, and so is who no longer   *)
(* holds anything, and who had a row in a transaction that has ended.      *)
LEMMA SettledAlone ==
  ASSUME NEW q \in Proposers, proc'[q] = proc[q],
         pending'[Conn[q]].rows = pending[Conn[q]].rows
  PROVE  Settles(q)
BY DEF Settles, Exposure, ExposedFor

LEMMA SettledEnded ==
  ASSUME NEW q \in Proposers, proc'[q] = proc[q], pending'[Conn[q]] = Nothing
  PROVE  Settles(q)
BY DEF Settles, Exposure, ExposedFor, Nothing

LEMMA SettledOver ==
  ASSUME NEW q \in Proposers, proc'[q].pc \in {"idle", "emit"}
  PROVE  Settles(q)
BY DEF Settles, Exposure, ExposedFor

(* The rows still open after a transaction on c has ended are owned by     *)
(* proposers on other connections.                                         *)
LEMMA OwnedAfterEnd ==
  ASSUME PipelineInv, PendingOwned, NEW c \in Connections,
         pending' = [pending EXCEPT ![c] = Nothing],
         \A q \in Proposers : Conn[q] # c => proc'[q] = proc[q]
  PROVE  PendingOwned'
<1>1. /\ pending'[c] = Nothing /\ Nothing.rows = {}
      /\ \A d \in Connections \ {c} : pending'[d] = pending[d]
  BY TransactionEnds DEF PipelineInv, DbInv
<1> QED
  BY <1>1 DEF PendingOwned

(* The rows that count of what p commits: they were owned by as many       *)
(* proposers, each exposed for its row and none any more afterwards.       *)
LEMMA CommittedOwners ==
  ASSUME PipelineInv, config.policy_engine, PendingOwned, NEW p \in Proposers,
         CommitAll(Conn[p]), \A q \in Proposers \ {p} : proc'[q] = proc[q],
         proc[p].pc # "decision",
         proc[p].pc = "commit" => proc'[p].pc = "emit",
         NEW G \in SUBSET pending[Conn[p]].rows, NEW E,
         \A r \in G : \A q \in Proposers :
           Conn[q] = Conn[p] /\ proc[q].pc \in {"decision", "commit"} /\ proc[q].id = r.id
             => q \notin E
  PROVE  /\ IsFiniteSet(G) /\ IsFiniteSet((Exposed \ Exposed') \ E)
         /\ Cardinality(G) <= Cardinality((Exposed \ Exposed') \ E)
<1> DEFINE c == Conn[p]
           Owns(q, r) == Conn[q] = c /\ proc[q].pc \in {"decision", "commit"} /\ proc[q].id = r.id
           T == (Exposed \ Exposed') \ E
           f == [r \in G |-> CHOOSE q \in Proposers : Owns(q, r)]
<1>1. c \in Connections /\ DbInv
  BY JobTyped DEF PipelineInv
<1>2. pending'[c] = Nothing /\ Nothing.rows = {}
  BY <1>1, TransactionEnds DEF DbInv, CommitAll
<1>3. ASSUME NEW r \in G PROVE f[r] \in Proposers /\ Owns(f[r], r)
  <2>1. \E q \in Proposers : Owns(q, r)
    BY <1>1 DEF PendingOwned
  <2> HIDE DEF Owns
  <2> QED
    BY <2>1
<1>4. ASSUME NEW r \in G, NEW q \in Proposers, Owns(q, r) PROVE q \in T
  <2>1. Amount(r.reading) \in 0..CapPerTx
    BY <1>1, EngineAmounts
  <2>2. Exposure(q, Amount(r.reading))
    BY <1>4 DEF Exposure, ExposedFor
  <2>3. q \in Exposed
    BY <2>1, <2>2 DEF Exposed
  <2>4. q \notin Exposed'
    <3>1. CASE q = p
      BY <1>4, <3>1 DEF Exposed, Exposure, ExposedFor
    <3>2. CASE q # p
      BY <1>2, <1>4, <3>2 DEF Exposed, Exposure, ExposedFor
    <3> QED
      BY <3>1, <3>2
  <2> QED
    BY <1>4, <2>3, <2>4
<1>5. ASSUME NEW r \in G, NEW s \in G, f[r] = f[s] PROVE r = s
  <2>1. r.id = s.id
    BY <1>3, <1>5
  <2> QED
    BY <1>1, <2>1 DEF DbInv, DbUnique
<1>6. IsFiniteSet(T)
  <2>1. T \in SUBSET Exposed
    OBVIOUS
  <2> QED
    BY <2>1, ExposedFinite, FS_Subset
<1>7. IsFiniteSet(G)
  BY <1>1, FS_Subset DEF DbInv, DbSound
<1>8. f \in Injection(G, T)
  <2>1. \A r \in G : f[r] \in T
    BY <1>3, <1>4
  <2>2. f \in [G -> T]
    BY <2>1
  <2> HIDE DEF f
  <2> QED
    BY <1>5, <2>2 DEF Injection, IsInjective
<1> HIDE DEF f, T
<1>9. Cardinality(G) <= Cardinality(T)
  BY <1>6, <1>8, FS_Injection
<1> QED
  BY <1>6, <1>7, <1>9 DEF T

(* A commit adds to the sum no more than its owners were exposed for.      *)
LEMMA CommitRoom ==
  ASSUME PipelineInv, config.policy_engine, PendingOwned, DailyRoom, NEW p \in Proposers,
         CommitAll(Conn[p]), today' = today,
         \A q \in Proposers \ {p} : proc'[q] = proc[q],
         proc[p].pc # "decision",
         proc[p].pc = "commit" => proc'[p].pc = "emit", Settles(p)
  PROVE  PendingOwned' /\ DailyRoom'
<1> DEFINE c == Conn[p]
           D == DayRows(rows, today)
           G == DayRows(pending[c].rows, today)
           K == Exposed \ Exposed'
<1>1. /\ c \in Connections /\ DbInv /\ DbUnique
      /\ pending' = [pending EXCEPT ![c] = Nothing]
      /\ rows' = rows \cup pending[c].rows
  BY JobTyped DEF PipelineInv, DbInv, CommitAll, Visible
<1>2. /\ pending'[c] = Nothing
      /\ \A d \in Connections \ {c} : pending'[d] = pending[d]
  BY <1>1, TransactionEnds DEF DbInv
<1>3. ASSUME NEW q \in Proposers PROVE Settles(q)
  <2>1. Conn[q] \in Connections
    BY JobTyped
  <2>2. CASE q = p
    BY <2>2
  <2>3. CASE q # p /\ Conn[q] = c
    BY <1>2, <2>3, SettledEnded
  <2>4. CASE q # p /\ Conn[q] # c
    BY <1>2, <2>1, <2>4, SettledAlone
  <2> QED
    BY <2>2, <2>3, <2>4
<1>4. PendingOwned'
  <2>1. \A q \in Proposers : Conn[q] # c => proc'[q] = proc[q]
    OBVIOUS
  <2> QED
    BY <1>1, <2>1, OwnedAfterEnd
<1>5. G \in SUBSET pending[c].rows /\ DayRows(rows', today') = D \cup G
  BY <1>1 DEF DayRows
<1>6. /\ IsFiniteSet(D) /\ Amounts(D) /\ SumOf(D) \in Int
      /\ CapPerTx \in Nat
      /\ IsFiniteSet(G) /\ \A r \in G : Amount(r.reading) \in 0..CapPerTx
  <2>1. /\ IsFiniteSet(rows) /\ \A r \in rows : Amount(r.reading) \in 0..CapPerTx
        /\ IsFiniteSet(pending[c].rows)
        /\ \A r \in pending[c].rows : Amount(r.reading) \in 0..CapPerTx
        /\ CapPerTx \in Nat
    BY <1>1, EngineAmounts
  <2>2. IsFiniteSet(D) /\ Amounts(D)
    BY <2>1, DayRowsFinite
  <2>3. IsFiniteSet(G)
    BY <2>1, <1>5, FS_Subset
  <2> HIDE DEF D, G
  <2> QED
    BY <1>5, <2>1, <2>2, <2>3, SumOfInt
<1>7. D \cap G = {}
  BY <1>1 DEF DbUnique, DayRows
<1>8. Spent = SumOf(D) /\ Spent' = SumOf(D \cup G)
  BY <1>5 DEF Spent, SpentOn
<1>9. Cardinality(G) \in Nat /\ Cardinality(K) \in Nat /\ Cardinality(G) <= Cardinality(K)
  <2>1. Cardinality(G) <= Cardinality(K \ {}) /\ K \ {} = K
    <3>1. \A r \in G : \A q \in Proposers :
             Conn[q] = Conn[p] /\ proc[q].pc \in {"decision", "commit"} /\ proc[q].id = r.id
               => q \notin {}
      OBVIOUS
    <3> HIDE DEF G
    <3> QED
      BY <1>5, <3>1, CommittedOwners
  <2>2. IsFiniteSet(K)
    BY ExposedFinite, FS_Subset
  <2> HIDE DEF G, K
  <2> QED
    BY <1>6, <2>1, <2>2, FS_CardinalityType
<1> HIDE DEF D
<1>10. SumOf(D \cup G) \in Int /\ SumOf(D \cup G) <= SumOf(D) + Cardinality(G) * CapPerTx
  <2> HIDE DEF G
  <2> QED
    BY <1>6, <1>7, SumOfUnion
<1>11. SumOf(D \cup G) <= SumOf(D) + Cardinality(K) * CapPerTx
  <2> HIDE DEF G, K
  <2>1. Cardinality(G) * CapPerTx <= Cardinality(K) * CapPerTx
    BY <1>6, <1>9
  <2>2. Cardinality(G) * CapPerTx \in Int /\ Cardinality(K) * CapPerTx \in Int
    BY <1>6, <1>9
  <2> QED
    BY <1>6, <1>10, <2>1, <2>2
<1>12. ASSUME NEW q \in K, NEW a \in 0..CapPerTx, Exposure(q, a)
       PROVE  SumOf(D \cup G) <= SumOf(D) + (Cardinality(K) - 1) * CapPerTx + a
  <2> DEFINE Owns(r) == /\ Conn[q] = c /\ proc[q].pc \in {"decision", "commit"}
                        /\ proc[q].id = r.id
  <2>0. q \in Proposers /\ a \in Int /\ a >= 0
    BY <1>6 DEF Exposed
  <2>1. ASSUME NEW r \in G, Owns(r)
        PROVE  SumOf(D \cup G) <= SumOf(D) + (Cardinality(K) - 1) * CapPerTx + a
    <3> DEFINE H == G \ {r}
    <3>1. a = Amount(r.reading)
      <4>1. PICK s \in pending[c].rows : s.id = proc[q].id /\ a = Amount(s.reading)
        BY <1>12, <2>1 DEF Exposure, ExposedFor
      <4>2. s = r
        BY <1>1, <1>5, <2>1, <4>1 DEF DbUnique
      <4> QED
        BY <4>1, <4>2
    <3>2. IsFiniteSet(H) /\ Cardinality(H) = Cardinality(G) - 1
      <4> HIDE DEF G
      <4> QED
        BY <1>6, FS_RemoveElement
    <3>3. /\ D \cup G = (D \cup H) \cup {r} /\ r \notin D \cup H /\ D \cap H = {}
          /\ \A s \in H : Amount(s.reading) \in 0..CapPerTx
      <4> HIDE DEF G
      <4> QED
        BY <1>6, <1>7
    <3> HIDE DEF G, K, H
    <3>4. /\ SumOf(D \cup H) \in Int
          /\ SumOf(D \cup H) <= SumOf(D) + Cardinality(H) * CapPerTx
      BY <1>6, <3>2, <3>3, SumOfUnion
    <3>5. SumOf((D \cup H) \cup {r}) = SumOf(D \cup H) + a
      <4>1. IsFiniteSet(D \cup H)
        BY <1>6, <3>2, FS_Union
      <4>2. \A s \in H : Amount(s.reading) \in Int
        BY <1>6, <3>3
      <4>3. Amounts((D \cup H) \cup {r})
        BY <1>6, <2>0, <3>1, <4>2 DEF Amounts
      <4>4. SumOf((D \cup H) \cup {r}) = SumOf(D \cup H) + Amount(r.reading)
        BY <3>3, <4>1, <4>3, SumOfAdds
      <4> QED
        BY <3>1, <4>4
    <3>6. Cardinality(H) \in Nat /\ Cardinality(H) <= Cardinality(K) - 1
      BY <1>9, <3>2, FS_CardinalityType
    <3>7. /\ Cardinality(H) * CapPerTx <= (Cardinality(K) - 1) * CapPerTx
          /\ Cardinality(H) * CapPerTx \in Int
          /\ (Cardinality(K) - 1) * CapPerTx \in Int
      BY <1>6, <1>9, <3>6
    <3>8. SumOf(D \cup G) = SumOf(D \cup H) + a
      BY <3>3, <3>5, Zenon
    <3> QED
      BY <1>6, <2>0, <3>4, <3>7, <3>8
  <2>2. ASSUME \A r \in G : ~Owns(r)
        PROVE  SumOf(D \cup G) <= SumOf(D) + (Cardinality(K) - 1) * CapPerTx + a
    <3>1. Cardinality(G) <= Cardinality(K \ {q})
      <4>1. \A r \in G : \A o \in Proposers :
              Conn[o] = Conn[p] /\ proc[o].pc \in {"decision", "commit"} /\ proc[o].id = r.id
                => o \notin {q}
        BY <2>2
      <4> HIDE DEF G
      <4> QED
        BY <1>5, <4>1, CommittedOwners
    <3>2. Cardinality(K \ {q}) = Cardinality(K) - 1
      <4>1. IsFiniteSet(K)
        BY ExposedFinite, FS_Subset
      <4> HIDE DEF K
      <4> QED
        BY <4>1, FS_RemoveElement
    <3> HIDE DEF G, K
    <3>3. /\ Cardinality(G) * CapPerTx <= (Cardinality(K) - 1) * CapPerTx
          /\ Cardinality(G) * CapPerTx \in Int
          /\ (Cardinality(K) - 1) * CapPerTx \in Int
      BY <1>6, <1>9, <3>1, <3>2
    <3> QED
      BY <1>6, <1>10, <2>0, <3>3
  <2> HIDE DEF Owns
  <2> QED
    BY <2>1, <2>2
<1>13. /\ Spent \in Int /\ Spent' \in Int
       /\ Spent' <= Spent + Cardinality(Exposed \ Exposed') * CapPerTx
       /\ \A q \in Exposed \ Exposed' : \A a \in 0..CapPerTx : Exposure(q, a) =>
            Spent' <= Spent + (Cardinality(Exposed \ Exposed') - 1) * CapPerTx + a
  BY <1>6, <1>8, <1>10, <1>11, <1>12
<1> QED
  BY <1>3, <1>4, <1>13, RoomKept

-----------------------------------------------------------------------------
(***************************************************************************)
(* Every step of the pipeline.                                             *)
(***************************************************************************)
DailyPre == PipelineInv /\ config.policy_engine /\ PendingOwned /\ DailyRoom

LEMMA SpentSame ==
  ASSUME DailyPre, rows' = rows, today' = today
  PROVE  Spent \in Int /\ Spent' = Spent
<1>1. IsFiniteSet(rows) /\ (\A r \in rows : Amount(r.reading) \in 0..CapPerTx) /\ CapPerTx \in Nat
  BY EngineAmounts DEF DailyPre, PipelineInv
<1>2. SpentOn(rows, today) \in Int
  BY <1>1, DayRowsFinite
<1>3. SpentOn(rows', today') = SpentOn(rows, today)
  BY Zenon
<1> QED
  BY <1>2, <1>3 DEF Spent

(* A step of p outside its transaction, which no row is open for.          *)
LEMMA LocalRoom ==
  ASSUME DailyPre, NEW p \in Proposers, UNCHANGED <<rows, pending, today>>,
         proc[p].pc \notin {"decision", "commit"},
         \A q \in Proposers \ {p} : proc'[q] = proc[q], Settles(p)
  PROVE  PendingOwned' /\ DailyRoom'
<1>1. \A q \in Proposers : Settles(q)
  BY SettledAlone
<1>2. PendingOwned'
  BY DEF DailyPre, PendingOwned
<1> QED
  BY <1>1, <1>2, SpentSame, RoomKeptSame DEF DailyPre

LEMMA OthersSame ==
  ASSUME PipelineInv, NEW p \in Proposers, NEW job, proc' = [proc EXCEPT ![p] = job]
  PROVE  proc'[p] = job /\ \A q \in Proposers \ {p} : proc'[q] = proc[q]
BY DEF PipelineInv, ProcInv

LEMMA RunRoom ==
  ASSUME DailyPre, NEW p \in Proposers, NEW r \in Readings, run(p, r)
  PROVE  PendingOwned' /\ DailyRoom'
<1> DEFINE c == Conn[p]
<1>1. PICK job : job = [Idle EXCEPT !.pc = "guards", !.reading = r, !.spent = Committed(c)]
  OBVIOUS
<1>2. proc'[p] = job /\ \A q \in Proposers \ {p} : proc'[q] = proc[q]
  <2>1. proc' = [proc EXCEPT ![p] = job]
    BY <1>1 DEF run
  <2> QED
    BY <2>1, OthersSame DEF DailyPre
<1>3. job.pc = "guards" /\ job.spent = Committed(c) /\ job.reading = r
  BY <1>1 DEF Idle
<1>4. proc[p].pc = "idle" /\ UNCHANGED <<rows, pending, today, config>>
  BY DEF run, At
<1>5. c \in Connections /\ DbInv
  BY JobTyped DEF DailyPre, PipelineInv
<1>6. Spent <= Committed(c) /\ Spent \in Int /\ Committed(c) \in Int
  BY <1>5, SpentIsRead DEF DailyPre
<1>7. CASE ~RoomFor(job)
  <2>1. Settles(p)
    BY <1>2, <1>3, <1>7 DEF Settles, Exposure, ExposedFor
  <2> QED
    BY <1>2, <1>4, <2>1, LocalRoom
<1>8. CASE RoomFor(job)
  <2>1. PendingOwned'
    BY <1>2, <1>4 DEF DailyPre, PendingOwned
  <2>2. PICK a \in 0..CapPerTx : a = Amount(job.reading) /\ Committed(c) + a <= CapDaily
    BY <1>3, <1>8 DEF RoomFor
  <2>3. Exposure(p, a)' /\ p \in Exposed'
    BY <1>2, <1>3, <1>8, <2>2 DEF Exposed, Exposure, ExposedFor
  <2> DEFINE m == Cardinality(Exposed')
             n == Cardinality(Proposers)
  <2>4. n \in Nat /\ m \in Nat /\ m <= n
    <3>1. IsFiniteSet(Proposers) /\ Exposed' \in SUBSET Proposers
      BY PipelineAssumption DEF Exposed
    <3> QED
      BY <3>1, FS_Subset, FS_CardinalityType
  <2>5. CapPerTx \in Nat /\ CapDaily \in Nat /\ DailyBound = CapDaily + (n - 1) * CapPerTx
    BY BoundInt DEF DailyBound
  <2> HIDE DEF m, n
  <2>6. /\ (m - 1) * CapPerTx <= (n - 1) * CapPerTx
        /\ (m - 1) * CapPerTx \in Int /\ (n - 1) * CapPerTx \in Int
    BY <2>4, <2>5
  <2>7. a \in Int
    BY <2>5
  <2>8. Spent + (m - 1) * CapPerTx + a <= DailyBound
    BY <1>6, <2>2, <2>5, <2>6, <2>7
  <2>9. Spent' = Spent /\ DailyBound' = DailyBound
    BY <1>4, SpentSame DEF DailyBound
  <2>10. Spent' + (Cardinality(Exposed') - 1) * CapPerTx + a <= DailyBound'
    BY <2>8, <2>9 DEF m
  <2>11. DailyRoom'
    BY <2>3, <2>10 DEF DailyRoom
  <2> QED
    BY <2>1, <2>11
<1> QED
  BY <1>7, <1>8

LEMMA RunGuardsRoom ==
  ASSUME DailyPre, NEW p \in Proposers, run_guards(p)
  PROVE  PendingOwned' /\ DailyRoom'
<1> DEFINE r == proc[p].reading
           known == Known(Conn[p])
           decision == Verdict(r, proc[p].spent, known)
<1>1. /\ proc[p].pc = "guards" /\ proc[p] \in Process /\ Holds(proc[p])
      /\ UNCHANGED <<rows, pending, today>>
  BY JobTyped DEF DailyPre, run_guards, At
<1>2. r \in Readings /\ proc[p].spent \in Int /\ proc[p].spent >= 0
  BY <1>1 DEF Holds, Process, DailyPre
<1>3. decision # "refused" =>
        Judged(r, decision) /\ proc[p].spent + Amount(r) <= CapDaily
  BY <1>2, VerdictJudged DEF DailyPre
<1>4. decision # "refused" => RoomFor(proc[p])
  <2>1. decision # "refused" => r \in Passing
    BY <1>3 DEF Judged
  <2>2. decision # "refused" => Amount(r) \in 0..CapPerTx
    BY <2>1, PassingAmount DEF DailyPre
  <2> QED
    BY <1>3, <2>2 DEF RoomFor
<1>5. PICK job : /\ proc' = [proc EXCEPT ![p] = job]
                 /\ \/ job = Idle
                    \/ /\ job.pc \in {"trip", "record"}
                       /\ job.reading = r /\ job.decision = decision
  <2> DEFINE tripped == Refusing(r, proc[p].spent, known) \cup Holding(r)
             todo == tripped \cup {e \in {"injection.blocked"} : "Injection" \in tripped}
  <2>1. \/ proc' = [proc EXCEPT ![p] = Idle]
        \/ proc' = [proc EXCEPT ![p] = [proc[p] EXCEPT !.pc = "trip", !.spent = 0,
                                          !.decision = decision, !.todo = todo]]
        \/ proc' = [proc EXCEPT ![p] = [proc[p] EXCEPT !.pc = "record", !.spent = 0,
                                          !.decision = decision]]
    BY DEF run_guards, Finish
  <2> HIDE DEF decision, tripped, todo
  <2>2. CASE proc' = [proc EXCEPT ![p] = Idle]
    BY <2>2
  <2>3. CASE proc' = [proc EXCEPT ![p] = [proc[p] EXCEPT !.pc = "trip", !.spent = 0,
                                            !.decision = decision, !.todo = todo]]
    <3>1. PICK job : job = [proc[p] EXCEPT !.pc = "trip", !.spent = 0,
                                            !.decision = decision, !.todo = todo]
      OBVIOUS
    <3>2. job.pc = "trip" /\ job.reading = r /\ job.decision = decision
      BY <1>1, <3>1 DEF Process
    <3> QED
      BY <2>3, <3>1, <3>2
  <2>4. CASE proc' = [proc EXCEPT ![p] = [proc[p] EXCEPT !.pc = "record", !.spent = 0,
                                            !.decision = decision]]
    <3>1. PICK job : job = [proc[p] EXCEPT !.pc = "record", !.spent = 0, !.decision = decision]
      OBVIOUS
    <3>2. job.pc = "record" /\ job.reading = r /\ job.decision = decision
      BY <1>1, <3>1 DEF Process
    <3> QED
      BY <2>4, <3>1, <3>2
  <2> QED
    BY <2>1, <2>2, <2>3, <2>4
<1> HIDE DEF decision
<1>6. proc'[p] = job /\ \A q \in Proposers \ {p} : proc'[q] = proc[q]
  BY <1>5, OthersSame DEF DailyPre
<1>7. Settles(p)
  <2>1. CASE job = Idle
    BY <1>6, <2>1, IdleIsProcess, SettledOver
  <2>2. CASE job.pc \in {"trip", "record"} /\ decision = "refused"
    BY <1>5, <1>6, <2>2, IdleIsProcess DEF Settles, Exposure, ExposedFor
  <2>3. CASE job.pc \in {"trip", "record"} /\ decision # "refused"
    BY <1>1, <1>4, <1>5, <1>6, <2>3, IdleIsProcess DEF Settles, Exposure, ExposedFor
  <2> QED
    BY <1>5, <2>1, <2>2, <2>3
<1> QED
  BY <1>1, <1>6, <1>7, LocalRoom

LEMMA GuardTrippedRoom ==
  ASSUME DailyPre, NEW p \in Proposers, guard_tripped(p)
  PROVE  PendingOwned' /\ DailyRoom'
<1> DEFINE left == proc[p].todo \ {CHOOSE e \in proc[p].todo : TRUE}
<1>1. /\ proc[p].pc = "trip" /\ proc[p] \in Process
      /\ CommitAll(Conn[p]) /\ today' = today
  BY JobTyped DEF DailyPre, guard_tripped, At
<1>2. PICK job : /\ proc' = [proc EXCEPT ![p] = job]
                 /\ \/ job = Idle
                    \/ /\ job.pc \in {"trip", "record"}
                       /\ job.reading = proc[p].reading /\ job.decision = proc[p].decision
  <2>1. \/ proc' = [proc EXCEPT ![p] = Idle]
        \/ proc' = [proc EXCEPT ![p] = [proc[p] EXCEPT !.todo = left]]
        \/ proc' = [proc EXCEPT ![p] = [proc[p] EXCEPT !.pc = "record", !.todo = {}]]
    BY DEF guard_tripped, Finish
  <2> HIDE DEF left
  <2>2. CASE proc' = [proc EXCEPT ![p] = Idle]
    BY <2>2
  <2>3. CASE proc' = [proc EXCEPT ![p] = [proc[p] EXCEPT !.todo = left]]
    <3>1. PICK job : job = [proc[p] EXCEPT !.todo = left]
      OBVIOUS
    <3>2. job.pc = "trip" /\ job.reading = proc[p].reading /\ job.decision = proc[p].decision
      BY <1>1, <3>1 DEF Process
    <3> QED
      BY <2>3, <3>1, <3>2
  <2>4. CASE proc' = [proc EXCEPT ![p] = [proc[p] EXCEPT !.pc = "record", !.todo = {}]]
    <3>1. PICK job : job = [proc[p] EXCEPT !.pc = "record", !.todo = {}]
      OBVIOUS
    <3>2. job.pc = "record" /\ job.reading = proc[p].reading /\ job.decision = proc[p].decision
      BY <1>1, <3>1 DEF Process
    <3> QED
      BY <2>4, <3>1, <3>2
  <2> QED
    BY <2>1, <2>2, <2>3, <2>4
<1>3. proc'[p] = job /\ \A q \in Proposers \ {p} : proc'[q] = proc[q]
  BY <1>2, OthersSame DEF DailyPre
<1>4. Settles(p)
  <2>1. CASE job = Idle
    BY <1>3, <2>1, IdleIsProcess, SettledOver
  <2>2. CASE job # Idle
    BY <1>1, <1>2, <1>3, <2>2 DEF Settles, Exposure, ExposedFor
  <2> QED
    BY <2>1, <2>2
<1> QED
  BY <1>1, <1>3, <1>4, CommitRoom DEF DailyPre

LEMMA CommitKeepsRoom ==
  ASSUME DailyPre, NEW p \in Proposers, commit(p)
  PROVE  PendingOwned' /\ DailyRoom'
<1>1. /\ proc[p].pc = "commit" /\ proc[p] \in Process
      /\ CommitAll(Conn[p]) /\ today' = today
  BY JobTyped DEF DailyPre, commit, At
<1>2. PICK job : job = [proc[p] EXCEPT !.pc = "emit"]
  OBVIOUS
<1>3. job.pc = "emit"
  BY <1>1, <1>2 DEF Process
<1>4. proc'[p] = job /\ \A q \in Proposers \ {p} : proc'[q] = proc[q]
  <2>1. proc' = [proc EXCEPT ![p] = job]
    BY <1>2 DEF commit, Goto
  <2> QED
    BY <2>1, OthersSame DEF DailyPre
<1>5. Settles(p)
  BY <1>3, <1>4, SettledOver
<1> QED
  BY <1>1, <1>3, <1>4, <1>5, CommitRoom DEF DailyPre

LEMMA EmitRoom ==
  ASSUME DailyPre, NEW p \in Proposers, emit(p)
  PROVE  PendingOwned' /\ DailyRoom'
<1>1. proc[p].pc = "emit" /\ proc[p] \in Process /\ today' = today
  BY JobTyped DEF DailyPre, emit, At
<1>2. PICK job : proc' = [proc EXCEPT ![p] = job] /\ job.pc = "idle"
  <2>1. CASE Finish(p)
    BY <2>1, IdleIsProcess DEF Finish
  <2>2. CASE Answer(p)
    <3>1. proc[p].id \in 0..MaxIds
      BY <1>1 DEF Process
    <3> QED
      BY <2>2, <3>1, IdleIsProcess DEF Answer
  <2> QED
    BY <2>1, <2>2 DEF emit
<1>3. proc'[p] = job /\ \A q \in Proposers \ {p} : proc'[q] = proc[q]
  BY <1>2, OthersSame DEF DailyPre
<1>4. Settles(p)
  BY <1>2, <1>3, SettledOver
<1>5. CASE config.monitoring
  <2>1. CommitAll(Conn[p])
    BY <1>5 DEF emit
  <2> QED
    BY <1>1, <1>3, <1>4, <2>1, CommitRoom DEF DailyPre
<1>6. CASE ~config.monitoring
  <2>1. UNCHANGED <<rows, pending, today>>
    BY <1>6 DEF emit
  <2> QED
    BY <1>1, <1>3, <1>4, <2>1, LocalRoom
<1> QED
  BY <1>5, <1>6

LEMMA BusyRoom ==
  ASSUME DailyPre, NEW p \in Proposers, busy(p)
  PROVE  PendingOwned' /\ DailyRoom'
<1>1. /\ proc[p].pc \notin {"decision", "commit"} /\ UNCHANGED <<rows, pending, today>>
      /\ proc' = [proc EXCEPT ![p] = Idle]
  BY DEF busy, Finish
<1>2. proc'[p] = Idle /\ \A q \in Proposers \ {p} : proc'[q] = proc[q]
  BY <1>1, OthersSame DEF DailyPre
<1>3. Settles(p)
  BY <1>2, IdleIsProcess, SettledOver
<1> QED
  BY <1>1, <1>2, <1>3, LocalRoom

(* A transaction rolled back, and with it the runs of some of the          *)
(* connection's proposers.                                                 *)
LEMMA RollbackRoom ==
  ASSUME DailyPre, NEW c \in Connections, Rollback(c), today' = today,
         \A q \in Proposers : proc'[q] = proc[q] \/ (Conn[q] = c /\ proc'[q] = Idle)
  PROVE  PendingOwned' /\ DailyRoom'
<1>1. pending' = [pending EXCEPT ![c] = Nothing] /\ rows' = rows
  BY DEF Rollback
<1>2. /\ pending'[c] = Nothing
      /\ \A d \in Connections \ {c} : pending'[d] = pending[d]
  BY <1>1, TransactionEnds DEF DailyPre, PipelineInv, DbInv
<1>3. \A q \in Proposers : Conn[q] # c => proc'[q] = proc[q]
  OBVIOUS
<1>4. ASSUME NEW q \in Proposers PROVE Settles(q)
  <2>1. Conn[q] \in Connections
    BY JobTyped DEF DailyPre
  <2>2. CASE proc'[q] = Idle
    BY <2>2, IdleIsProcess, SettledOver
  <2>3. CASE proc'[q] = proc[q] /\ Conn[q] = c
    BY <1>2, <2>3, SettledEnded
  <2>4. CASE proc'[q] = proc[q] /\ Conn[q] # c
    BY <1>2, <2>1, <2>4, SettledAlone
  <2> QED
    BY <2>2, <2>3, <2>4
<1>5. PendingOwned'
  BY <1>1, <1>3, OwnedAfterEnd DEF DailyPre
<1> QED
  BY <1>1, <1>4, <1>5, SpentSame, RoomKeptSame DEF DailyPre

LEMMA CrashRoom ==
  ASSUME DailyPre, NEW c \in Connections, crash(c)
  PROVE  PendingOwned' /\ DailyRoom'
<1>1. Rollback(c) /\ today' = today
  BY DEF crash
<1>2. \A q \in Proposers : proc'[q] = proc[q] \/ (Conn[q] = c /\ proc'[q] = Idle)
  BY DEF crash
<1> QED
  BY <1>1, <1>2, RollbackRoom

LEMMA FinishRollbackRoom ==
  ASSUME DailyPre, NEW p \in Proposers, Rollback(Conn[p]), Finish(p), today' = today
  PROVE  PendingOwned' /\ DailyRoom'
<1>1. Conn[p] \in Connections
  BY JobTyped DEF DailyPre
<1>2. proc'[p] = Idle /\ \A q \in Proposers \ {p} : proc'[q] = proc[q]
  BY OthersSame DEF DailyPre, Finish
<1> QED
  BY <1>1, <1>2, RollbackRoom

(* The row inserted is what its proposer was exposed for.                  *)
LEMMA InsertIntentRoom ==
  ASSUME DailyPre, NEW p \in Proposers, insert_intent(p)
  PROVE  PendingOwned' /\ DailyRoom'
<1> DEFINE c == Conn[p]
<1>1. /\ proc[p].pc = "record" /\ proc[p] \in Process
      /\ c \in Connections /\ proc[p].decision # "refused"
      /\ UNCHANGED <<published, today, config>>
  BY JobTyped DEF DailyPre, insert_intent, At
<1>2. CASE proc[p].reading.hash \in Known(c)
  BY <1>1, <1>2, FinishRollbackRoom DEF insert_intent
<1>3. CASE proc[p].reading.hash \notin Known(c)
  <2>1. /\ pending' = [pending EXCEPT ![c].rows = @ \cup {NewRow(p)}]
        /\ proc' = [proc EXCEPT ![p].pc = "decision", ![p].id = issued + 1,
                                ![p].reading = NoReading]
        /\ UNCHANGED <<rows, today>>
    BY <1>1, <1>3 DEF insert_intent
  <2>0. PICK n : n = NewRow(p)
    OBVIOUS
  <2>2. n = NewRow(p) /\ n.id = issued + 1 /\ n.reading = proc[p].reading
    BY <2>0 DEF NewRow
  <2>3. /\ \A d \in Connections \ {c} : pending'[d] = pending[d]
        /\ pending'[c].rows = pending[c].rows \cup {n}
    <3>1. pending \in [Connections -> Transaction] /\ pending[c] \in Transaction
      BY <1>1, PendingTyped DEF DailyPre
    <3>2. pending'[c] = [pending[c] EXCEPT !.rows = @ \cup {n}]
      BY <1>1, <2>1, <2>2, <3>1
    <3> QED
      BY <2>1, <3>1, <3>2 DEF Transaction
  <2>4. PICK job : job = [proc[p] EXCEPT !.pc = "decision", !.id = issued + 1,
                                         !.reading = NoReading]
    OBVIOUS
  <2>5. job.pc = "decision" /\ job.id = issued + 1
    BY <1>1, <2>4 DEF Process
  <2>6. proc'[p] = job /\ \A q \in Proposers \ {p} : proc'[q] = proc[q]
    <3>1. proc' = [proc EXCEPT ![p] = job]
      BY <2>1, <2>4
    <3> QED
      BY <3>1, OthersSame DEF DailyPre
  <2>7. issued \in Int /\ \A r \in pending[c].rows : r.id \in Int /\ r.id <= issued
    <3>1. DbTyped /\ DbSound /\ pending[c].rows \subseteq Row
      BY <1>1, PendingTyped DEF DailyPre, PipelineInv, DbInv
    <3>2. \A r \in Row : r.id \in 1..MaxIds
      BY DEF Row
    <3> QED
      BY <1>1, <3>1, <3>2, DbInts DEF DbSound, Sound
  <2>8. Settles(p)
    <3>1. ASSUME NEW a PROVE Exposure(p, a) <=> a = Amount(proc[p].reading)
      BY <1>1 DEF Exposure, ExposedFor
    <3>2. ASSUME NEW a PROVE Exposure(p, a)' <=> a = Amount(proc[p].reading)
      <4>1. Exposure(p, a)' <=> \E r \in pending[c].rows \cup {n} :
                                   r.id = issued + 1 /\ a = Amount(r.reading)
        BY <2>3, <2>5, <2>6 DEF Exposure, ExposedFor
      <4>2. \A r \in pending[c].rows : r.id # issued + 1
        BY <2>7
      <4> QED
        BY <2>2, <4>1, <4>2
    <3> QED
      BY <3>1, <3>2 DEF Settles
  <2>9. ASSUME NEW q \in Proposers \ {p} PROVE Settles(q)
    <3>1. Conn[q] \in Connections /\ Holds(proc[q]) /\ proc[q] \in Process
      BY JobTyped DEF DailyPre
    <3>2. CASE Conn[q] # c
      BY <2>3, <2>6, <3>1, <3>2, SettledAlone
    <3>3. CASE Conn[q] = c
      <4>1. proc[q].pc \in {"decision", "commit"} => proc[q].id # n.id
        <5>1. proc[q].id \in 0..MaxIds /\ MaxIds \in Nat
          BY <3>1, PipelineAssumption DEF Process
        <5> QED
          BY <2>2, <2>7, <3>1, <5>1 DEF Holds
      <4>2. ASSUME NEW a PROVE Exposure(q, a)' <=> Exposure(q, a)
        BY <2>3, <2>6, <3>3, <4>1 DEF Exposure, ExposedFor
      <4> QED
        BY <4>2 DEF Settles
    <3> QED
      BY <3>2, <3>3
  <2>10. PendingOwned'
    <3>1. ASSUME NEW d \in Connections, NEW r \in pending'[d].rows
          PROVE  \E q \in Proposers : /\ Conn[q] = d
                                      /\ proc'[q].pc \in {"decision", "commit"}
                                      /\ proc'[q].id = r.id
      <4>1. CASE r \in pending[d].rows
        <5>1. PICK q \in Proposers : /\ Conn[q] = d
                                     /\ proc[q].pc \in {"decision", "commit"}
                                     /\ proc[q].id = r.id
          BY <4>1 DEF DailyPre, PendingOwned
        <5> QED
          BY <1>1, <2>6, <5>1
      <4>2. CASE r \notin pending[d].rows
        <5>1. d = c /\ r = n
          BY <2>3, <3>1, <4>2
        <5> QED
          BY <2>2, <2>5, <2>6, <5>1
      <4> QED
        BY <4>1, <4>2
    <3> QED
      BY <3>1 DEF PendingOwned
  <2>11. \A q \in Proposers : Settles(q)
    BY <2>8, <2>9
  <2> QED
    BY <2>1, <2>10, <2>11, SpentSame, RoomKeptSame DEF DailyPre
<1> QED
  BY <1>2, <1>3

LEMMA InsertDecisionRoom ==
  ASSUME DailyPre, NEW p \in Proposers, insert_decision(p)
  PROVE  PendingOwned' /\ DailyRoom'
<1> DEFINE c == Conn[p]
<1>1. /\ proc[p] \in Process /\ Holds(proc[p])
      /\ c \in Connections /\ today' = today
  BY JobTyped DEF DailyPre, insert_decision
<1>2. \/ proc[p].pc = "record" /\ proc[p].decision = "refused"
      \/ proc[p].pc = "decision" /\ proc[p].decision # "refused"
  BY DEF insert_decision, At
<1>3. CASE ~(proc[p].decision = "refused" \/ proc[p].id \in Ids(Visible(c)))
  BY <1>1, <1>3, FinishRollbackRoom DEF insert_decision, Ids
<1>4. CASE proc[p].decision = "refused" \/ proc[p].id \in Ids(Visible(c))
  <2>1. /\ pending' = [pending EXCEPT ![c].decisions = @ \cup {Decision(p)}]
        /\ proc' = [proc EXCEPT ![p].pc = "commit", ![p].reading = NoReading]
        /\ rows' = rows
    BY <1>1, <1>4 DEF insert_decision, Ids
  <2>2. \A d \in Connections : pending'[d].rows = pending[d].rows
    <3>1. pending \in [Connections -> Transaction] /\ pending[c] \in Transaction
      BY <1>1, PendingTyped DEF DailyPre
    <3>2. pending'[c] = [pending[c] EXCEPT !.decisions = @ \cup {Decision(p)}]
      BY <1>1, <2>1, <3>1
    <3>3. pending'[c].rows = pending[c].rows
      BY <3>1, <3>2 DEF Transaction
    <3> QED
      BY <2>1, <3>1, <3>3
  <2>3. PICK job : job = [proc[p] EXCEPT !.pc = "commit", !.reading = NoReading]
    OBVIOUS
  <2>4. job.pc = "commit" /\ job.id = proc[p].id
    BY <1>1, <2>3 DEF Process
  <2>5. proc'[p] = job /\ \A q \in Proposers \ {p} : proc'[q] = proc[q]
    <3>1. proc' = [proc EXCEPT ![p] = job]
      BY <2>1, <2>3
    <3> QED
      BY <3>1, OthersSame DEF DailyPre
  <2>6. Settles(p)
    <3>1. CASE proc[p].pc = "decision"
      BY <1>1, <2>2, <2>4, <2>5, <3>1 DEF Settles, Exposure, ExposedFor
    <3>2. CASE proc[p].pc = "record" /\ proc[p].decision = "refused"
      <4>1. job.id = 0
        BY <1>1, <2>4, <3>2 DEF Holds
      <4>2. \A r \in pending[c].rows : r.id # 0
        <5>1. pending[c].rows \subseteq Row
          BY <1>1, PendingTyped DEF DailyPre
        <5>2. \A r \in Row : r.id \in 1..MaxIds
          BY DEF Row
        <5> QED
          BY <5>1, <5>2, PipelineAssumption
      <4> QED
        BY <1>1, <2>2, <2>4, <2>5, <4>1, <4>2 DEF Settles, Exposure, ExposedFor
    <3> QED
      BY <1>2, <3>1, <3>2
  <2>7. ASSUME NEW q \in Proposers \ {p} PROVE Settles(q)
    <3>1. Conn[q] \in Connections
      BY JobTyped DEF DailyPre
    <3> QED
      BY <2>2, <2>5, <3>1, SettledAlone
  <2>8. PendingOwned'
    <3>1. ASSUME NEW d \in Connections, NEW r \in pending'[d].rows
          PROVE  \E q \in Proposers : /\ Conn[q] = d
                                      /\ proc'[q].pc \in {"decision", "commit"}
                                      /\ proc'[q].id = r.id
      <4>1. PICK q \in Proposers : /\ Conn[q] = d
                                   /\ proc[q].pc \in {"decision", "commit"}
                                   /\ proc[q].id = r.id
        BY <2>2 DEF DailyPre, PendingOwned
      <4> QED
        BY <2>4, <2>5, <4>1
    <3> QED
      BY <3>1 DEF PendingOwned
  <2>9. \A q \in Proposers : Settles(q)
    BY <2>6, <2>7
  <2> QED
    BY <1>1, <2>1, <2>8, <2>9, SpentSame, RoomKeptSame DEF DailyPre
<1> QED
  BY <1>3, <1>4

LEMMA OthersRoom ==
  ASSUME DailyPre, UNCHANGED <<pending, proc>>, Spent \in Int, Spent' \in Int, Spent' <= Spent
  PROVE  PendingOwned' /\ DailyRoom'
<1>1. \A q \in Proposers : Settles(q)
  BY SettledAlone
<1>2. PendingOwned'
  BY DEF DailyPre, PendingOwned
<1> QED
  BY <1>1, <1>2, RoomKeptSame DEF DailyPre

(***************************************************************************)
(* The theorem.                                                            *)
(***************************************************************************)

(* Whoever is exposed, the day's sum and what they may still add stay      *)
(* within the bound.                                                       *)
THEOREM DailyInvariant == PipelineSpec => []DailyInv
<1>1. PipelineInit => DailyInv
  <2> SUFFICES ASSUME PipelineInit PROVE PendingOwned /\ DailyRoom
    BY DEF DailyInv
  <2> USE DEF PipelineInit
  <2>1. PendingOwned
    BY DEF PendingOwned, Nothing
  <2>2. Exposed = {}
    BY IdleIsProcess DEF Exposed, Exposure, ExposedFor
  <2>3. Spent = 0
    <3>1. DayRows(rows, today) = {}
      BY DEF DayRows
    <3> QED
      BY <3>1, EmptySum DEF Spent, SpentOn
  <2>4. Cardinality(Proposers) \in Nat /\ Cardinality(Proposers) >= 1
    BY ExposedFinite, FS_EmptySet, PipelineAssumption
  <2> DEFINE n == Cardinality(Proposers)
  <2>5. CapPerTx \in Nat /\ CapDaily \in Nat /\ DailyBound = CapDaily + (n - 1) * CapPerTx
    BY BoundInt DEF DailyBound
  <2> HIDE DEF n
  <2>6. n - 1 \in Nat
    BY <2>4 DEF n
  <2>7. (n - 1) * CapPerTx \in Nat /\ 0 * CapPerTx = 0
    BY <2>5, <2>6
  <2>8. Spent + Cardinality(Exposed) * CapPerTx <= DailyBound
    BY <2>2, <2>3, <2>5, <2>7, FS_EmptySet
  <2> QED
    BY <2>1, <2>8 DEF DailyRoom
<1>2. PipelineInv /\ DailyInv /\ [PipelineNext]_pipelineVars => DailyInv'
  <2>0. ASSUME PipelineInv, [PipelineNext]_pipelineVars PROVE config' = config
    BY <2>0 DEF PipelineNext, run, run_guards, guard_tripped, insert_intent, insert_decision,
                commit, emit, busy, crash, Progress, Midnight, pipelineVars
  <2> SUFFICES ASSUME DailyPre, [PipelineNext]_pipelineVars PROVE PendingOwned' /\ DailyRoom'
    BY <2>0 DEF DailyInv, DailyPre
  <2>1. ASSUME NEW p \in Proposers, NEW r \in Readings, run(p, r)
        PROVE  PendingOwned' /\ DailyRoom'
    BY <2>1, RunRoom
  <2>2. ASSUME NEW p \in Proposers, run_guards(p) PROVE PendingOwned' /\ DailyRoom'
    BY <2>2, RunGuardsRoom
  <2>3. ASSUME NEW p \in Proposers, guard_tripped(p) PROVE PendingOwned' /\ DailyRoom'
    BY <2>3, GuardTrippedRoom
  <2>4. ASSUME NEW p \in Proposers, insert_intent(p) PROVE PendingOwned' /\ DailyRoom'
    BY <2>4, InsertIntentRoom
  <2>5. ASSUME NEW p \in Proposers, insert_decision(p) PROVE PendingOwned' /\ DailyRoom'
    BY <2>5, InsertDecisionRoom
  <2>6. ASSUME NEW p \in Proposers, commit(p) PROVE PendingOwned' /\ DailyRoom'
    BY <2>6, CommitKeepsRoom
  <2>7. ASSUME NEW p \in Proposers, emit(p) PROVE PendingOwned' /\ DailyRoom'
    BY <2>7, EmitRoom
  <2>8. ASSUME NEW p \in Proposers, busy(p) PROVE PendingOwned' /\ DailyRoom'
    BY <2>8, BusyRoom
  <2>9. ASSUME NEW c \in Connections, crash(c) PROVE PendingOwned' /\ DailyRoom'
    BY <2>9, CrashRoom
  <2>10. ASSUME NEW r \in rows, Progress(r) PROVE PendingOwned' /\ DailyRoom'
    <3>1. UNCHANGED <<pending, proc>>
      BY <2>10 DEF Progress
    <3> QED
      BY <2>10, <3>1, ProgressSpends, OthersRoom DEF DailyPre, PipelineInv
  <2>11. CASE Midnight
    <3>1. UNCHANGED <<pending, proc>>
      BY <2>11 DEF Midnight
    <3> QED
      BY <2>11, <3>1, MidnightSpends, OthersRoom DEF DailyPre, PipelineInv
  <2>12. CASE UNCHANGED pipelineVars
    <3>1. UNCHANGED <<rows, today, pending, proc>>
      BY <2>12 DEF pipelineVars
    <3>2. Spent \in Int /\ Spent' = Spent
      BY <3>1, SpentSame
    <3> QED
      BY <3>1, <3>2, OthersRoom
  <2> QED
    BY <2>1, <2>2, <2>3, <2>4, <2>5, <2>6, <2>7, <2>8, <2>9, <2>10, <2>11, <2>12
       DEF PipelineNext
<1> QED
  BY <1>1, <1>2, PipelineInvariant, PTL DEF PipelineSpec

(* The intents of a day exceed the daily cap by at most one transaction    *)
(* cap for each proposer but the first, whatever overlaps, crashes, reverts*)
(* or shares a connection.                                                 *)
THEOREM DailyOverrun == PipelineSpec => []DailyOverrunBounded
<1>1. PipelineInv /\ DailyInv => DailyOverrunBounded
  <2> SUFFICES ASSUME PipelineInv, DailyInv, config.policy_engine PROVE Spent <= DailyBound
    <3>1. MapThenSumSet(LAMBDA r : Amount(r.reading),
                        {r \in rows : r.day = today /\ r.final # "reverted"
                                        /\ r.status \in COUNTED_STATUSES})
            = Spent
      BY Zenon DEF Spent, SpentOn, SumOf, DayRows
    <3> QED
      BY <3>1 DEF DailyOverrunBounded, DailyBound
  <2> DEFINE n == Cardinality(Exposed)
  <2>1. n \in Nat /\ CapPerTx \in Nat /\ DailyBound \in Int
    BY ExposedFinite, BoundInt
  <2>2. Spent \in Int
    BY EngineAmounts, DayRowsFinite DEF PipelineInv, Spent
  <2>3. ASSUME NEW p \in Exposed PROVE n - 1 \in Nat
    BY <2>1, <2>3, ExposedFinite, FS_EmptySet
  <2>4. CASE Spent + n * CapPerTx <= DailyBound
    <3> HIDE DEF n
    <3>1. n * CapPerTx \in Nat
      BY <2>1
    <3> QED
      BY <2>1, <2>2, <2>4, <3>1
  <2>5. ASSUME NEW p \in Exposed, NEW a \in 0..CapPerTx,
               Spent + (n - 1) * CapPerTx + a <= DailyBound
        PROVE  Spent <= DailyBound
    <3>1. n - 1 \in Nat
      BY <2>3
    <3> HIDE DEF n
    <3>2. (n - 1) * CapPerTx \in Nat /\ a \in Nat
      BY <2>1, <3>1
    <3> QED
      BY <2>1, <2>2, <2>5, <3>2
  <2> QED
    BY <2>4, <2>5 DEF DailyInv, DailyRoom
<1> QED
  BY <1>1, PipelineInvariant, DailyInvariant, PTL
=============================================================================
