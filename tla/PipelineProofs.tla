--------------------------- MODULE PipelineProofs ---------------------------
(***************************************************************************)
(* Proofs about the proposal pipeline, for any proposers, any sharing of   *)
(* the connections among them, any readings and any configuration.         *)
(*                                                                         *)
(* Three of the properties speak of what is committed and of what a        *)
(* proposer will commit, so the inductive invariant PipelineInv describes  *)
(* the open transactions (at most one writes), every row in them and in    *)
(* the table, and what each proposer holds at each point of its run; and,  *)
(* for a proposer with a connection of its own, exactly what is in its     *)
(* open transaction.                                                       *)
(***************************************************************************)
EXTENDS Pipeline, PrefixSumProofs, FiniteSetTheorems

-----------------------------------------------------------------------------
(***************************************************************************)
(* Sums of the amounts of a finite set of rows: MapThenSumSet takes the    *)
(* rows away one by one, in the order CHOOSE finds them.                   *)
(***************************************************************************)
SumOf(S) == MapThenSumSet(LAMBDA r : Amount(r.reading), S)

SumStep(f, D) ==
  [s \in D |-> IF s = {} THEN 0
               ELSE LET x == CHOOSE x \in s : TRUE IN Amount(x.reading) + f[s \ {x}]]
Sum(S) == CHOOSE f : f = SumStep(f, SUBSET S)

LEMMA SumOfIsSum ==
  ASSUME NEW S
  PROVE  SumOf(S) = Sum(S)[S]
BY Zenon DEF SumOf, MapThenSumSet, MapThenFoldSet, Sum, SumStep

(* The subsets of S with at most n elements.                               *)
Small(S, n) == {s \in SUBSET S : Cardinality(s) <= n}

LEMMA SmallStep ==
  ASSUME NEW S, IsFiniteSet(S), NEW n \in Nat, NEW s \in Small(S, n + 1), s # {}
  PROVE  s \ {CHOOSE x \in s : TRUE} \in Small(S, n)
<1> DEFINE x == CHOOSE x \in s : TRUE
<1>1. IsFiniteSet(s) /\ x \in s
  BY FS_Subset DEF Small
<1> HIDE DEF x
<1>2. Cardinality(s \ {x}) = Cardinality(s) - 1
  BY <1>1, FS_RemoveElement
<1>3. Cardinality(s) \in Nat
  BY <1>1, FS_CardinalityType
<1> QED
  BY <1>2, <1>3 DEF Small, x

LEMMA SumExists ==
  ASSUME NEW S, IsFiniteSet(S)
  PROVE  Sum(S) = SumStep(Sum(S), SUBSET S)
<1> DEFINE P == {n \in Nat : \E f : f = SumStep(f, Small(S, n))}
<1>1. 0 \in P
  <2> DEFINE f == [s \in Small(S, 0) |-> 0]
  <2>1. ASSUME NEW s \in Small(S, 0) PROVE s = {}
    <3>1. IsFiniteSet(s) /\ Cardinality(s) <= 0
      BY FS_Subset DEF Small
    <3>2. Cardinality(s) = 0
      BY <3>1, FS_CardinalityType
    <3> QED
      BY <3>1, <3>2, FS_EmptySet
  <2>2. f = SumStep(f, Small(S, 0))
    BY <2>1 DEF SumStep
  <2> QED
    BY <2>2
<1>2. \A n \in Nat : n \in P => n + 1 \in P
  <2> SUFFICES ASSUME NEW n \in Nat, NEW f, f = SumStep(f, Small(S, n))
               PROVE  \E g : g = SumStep(g, Small(S, n + 1))
    BY DEF P
  <2> DEFINE Value(s) == IF s = {} THEN 0
                         ELSE LET x == CHOOSE x \in s : TRUE
                              IN  Amount(x.reading) + f[s \ {x}]
             g == [s \in Small(S, n + 1) |-> Value(s)]
  <2>1. ASSUME NEW s \in Small(S, n) PROVE g[s] = f[s]
    <3>1. s \in Small(S, n + 1)
      <4>1. Cardinality(s) \in Nat
        BY FS_Subset, FS_CardinalityType DEF Small
      <4> QED
        BY <4>1 DEF Small
    <3>2. f[s] = Value(s)
      BY Zenon DEF SumStep
    <3> QED
      BY <3>1, <3>2
  <2>2. ASSUME NEW s \in Small(S, n + 1), s # {}
        PROVE  g[s \ {CHOOSE x \in s : TRUE}] = f[s \ {CHOOSE x \in s : TRUE}]
    <3> HIDE DEF g
    <3> QED
      BY <2>1, <2>2, SmallStep
  <2>3. ASSUME NEW s \in Small(S, n + 1)
        PROVE  g[s] = IF s = {} THEN 0
                      ELSE LET x == CHOOSE x \in s : TRUE
                           IN  Amount(x.reading) + g[s \ {x}]
    <3>1. g[s] = Value(s)
      OBVIOUS
    <3> HIDE DEF g
    <3> QED
      BY <2>2, <3>1
  <2>4. g = SumStep(g, Small(S, n + 1))
    <3>1. g = [s \in Small(S, n + 1) |-> g[s]]
      OBVIOUS
    <3> HIDE DEF g
    <3> QED
      BY <2>3, <3>1, Zenon DEF SumStep
  <2> QED
    BY <2>4
<1>3. P = Nat
  <2> HIDE DEF P
  <2> QED
    BY <1>1, <1>2, SetInduction DEF P
<1>4. Small(S, Cardinality(S)) = SUBSET S
  <2>1. \A s \in SUBSET S : Cardinality(s) <= Cardinality(S)
    BY FS_Subset
  <2> QED
    BY <2>1 DEF Small
<1>5. \E f : f = SumStep(f, SUBSET S)
  <2>1. Cardinality(S) \in P
    BY <1>3, FS_CardinalityType
  <2> QED
    BY <2>1, <1>4
<1> QED
  BY <1>5, Zenon DEF Sum


(* For S finite, what the sum of a subset of S is.                         *)
LEMMA SumEquation ==
  ASSUME NEW S, IsFiniteSet(S), NEW s \in SUBSET S
  PROVE  Sum(S)[s] = IF s = {} THEN 0
                     ELSE LET x == CHOOSE x \in s : TRUE
                          IN  Amount(x.reading) + Sum(S)[s \ {x}]
<1>1. Sum(S) = SumStep(Sum(S), SUBSET S)
  BY SumExists
<1> DEFINE f == Sum(S)
<1> HIDE DEF f
<1>2. f = SumStep(f, SUBSET S)
  BY <1>1 DEF f
<1>3. f[s] = IF s = {} THEN 0
             ELSE LET x == CHOOSE x \in s : TRUE
                  IN  Amount(x.reading) + f[s \ {x}]
  BY <1>2, Zenon DEF SumStep
<1> QED
  BY <1>3 DEF f

(* The sum of a set does not depend on what it is a subset of.             *)
LEMMA SumUnique ==
  ASSUME NEW S, IsFiniteSet(S), NEW T, IsFiniteSet(T)
  PROVE  \A s \in SUBSET S : s \subseteq T => Sum(S)[s] = Sum(T)[s]
<1> DEFINE P == {n \in Nat : \A s \in Small(S, n) : s \subseteq T => Sum(S)[s] = Sum(T)[s]}
<1>1. 0 \in P
  <2>1. ASSUME NEW s \in Small(S, 0) PROVE s = {}
    <3>1. IsFiniteSet(s) /\ Cardinality(s) <= 0
      BY FS_Subset DEF Small
    <3>2. Cardinality(s) = 0
      BY <3>1, FS_CardinalityType
    <3> QED
      BY <3>1, <3>2, FS_EmptySet
  <2>2. Sum(S)[{}] = 0 /\ Sum(T)[{}] = 0
    BY SumEquation
  <2> QED
    BY <2>1, <2>2
<1>2. \A n \in Nat : n \in P => n + 1 \in P
  <2> SUFFICES ASSUME NEW n \in Nat, n \in P, NEW s \in Small(S, n + 1), s \subseteq T
               PROVE  Sum(S)[s] = Sum(T)[s]
    OBVIOUS
  <2>0. CASE s = {}
    <3>1. Sum(S)[{}] = 0 /\ Sum(T)[{}] = 0
      BY SumEquation
    <3> QED
      BY <2>0, <3>1
  <2> SUFFICES ASSUME s # {} PROVE Sum(S)[s] = Sum(T)[s]
    BY <2>0
  <2> DEFINE x == CHOOSE x \in s : TRUE
  <2>1. s \ {x} \in Small(S, n)
    BY SmallStep
  <2>2. s \in SUBSET S /\ s \in SUBSET T
    BY DEF Small
  <2>3. /\ Sum(S)[s] = Amount(x.reading) + Sum(S)[s \ {x}]
        /\ Sum(T)[s] = Amount(x.reading) + Sum(T)[s \ {x}]
    BY <2>2, SumEquation
  <2> HIDE DEF x
  <2>4. Sum(S)[s \ {x}] = Sum(T)[s \ {x}]
    BY <2>1, <2>2
  <2> QED
    BY <2>3, <2>4
<1>3. P = Nat
  <2> HIDE DEF P
  <2> QED
    BY <1>1, <1>2, SetInduction DEF P
<1>4. ASSUME NEW s \in SUBSET S PROVE s \in Small(S, Cardinality(S))
  BY <1>4, FS_Subset DEF Small
<1> QED
  BY <1>3, <1>4, FS_CardinalityType

(* One row more is its amount more, wherever CHOOSE finds it.              *)
Amounts(S) == \A r \in S : Amount(r.reading) \in Int

LEMMA SumAdds ==
  ASSUME NEW S, IsFiniteSet(S), Amounts(S)
  PROVE  \A s \in SUBSET S :
           /\ Sum(S)[s] \in Int
           /\ \A y \in S \ s : Sum(S)[s \cup {y}] = Sum(S)[s] + Amount(y.reading)
<1> DEFINE f == Sum(S)
           Good(s) == /\ f[s] \in Int
                      /\ \A y \in S \ s : f[s \cup {y}] = f[s] + Amount(y.reading)
           P == {n \in Nat : \A s \in Small(S, n) : Good(s)}
<1>0. ASSUME NEW s \in SUBSET S, s # {}
      PROVE  /\ (CHOOSE x \in s : TRUE) \in s
             /\ f[s] = Amount((CHOOSE x \in s : TRUE).reading) + f[s \ {CHOOSE x \in s : TRUE}]
  BY <1>0, SumEquation
<1>e. f[{}] = 0
  BY SumEquation
<1>a. \A r \in S : Amount(r.reading) \in Int
  BY DEF Amounts
<1> HIDE DEF f
<1>1. 0 \in P
  <2>1. ASSUME NEW s \in Small(S, 0) PROVE s = {}
    <3>1. IsFiniteSet(s) /\ Cardinality(s) <= 0
      BY FS_Subset DEF Small
    <3>2. Cardinality(s) = 0
      BY <3>1, FS_CardinalityType
    <3> QED
      BY <3>1, <3>2, FS_EmptySet
  <2>2. ASSUME NEW y \in S PROVE f[{y}] = Amount(y.reading)
    <3>1. f[{y}] = Amount(y.reading) + f[{y} \ {y}]
      BY <1>0
    <3>2. {y} \ {y} = {}
      OBVIOUS
    <3>3. f[{y} \ {y}] = 0
      BY <1>e, <3>2, Zenon
    <3>4. Amount(y.reading) \in Int
      BY <1>a
    <3> QED
      BY <3>1, <3>3, <3>4
  <2>3. Good({})
    <3>1. ASSUME NEW y \in S PROVE f[{} \cup {y}] = f[{}] + Amount(y.reading)
      <4>1. {} \cup {y} = {y}
        OBVIOUS
      <4>2. f[{} \cup {y}] = Amount(y.reading)
        BY <2>2, <4>1, Zenon
      <4> QED
        BY <1>a, <1>e, <4>2
    <3> QED
      BY <1>e, <3>1
  <2> QED
    BY <2>1, <2>3
<1>2. \A n \in Nat : n \in P => n + 1 \in P
  <2> HIDE DEF Good
  <2> SUFFICES ASSUME NEW n \in Nat, n \in P, NEW s \in Small(S, n + 1)
               PROVE  Good(s)
    OBVIOUS
  <2> USE DEF Good
  <2>0. CASE s = {}
    <3>1. {} \in Small(S, 0)
      BY FS_EmptySet DEF Small
    <3> QED
      BY <1>1, <2>0, <3>1
  <2> SUFFICES ASSUME s # {} PROVE Good(s)
    BY <2>0
  <2>s. s \in SUBSET S /\ IsFiniteSet(s)
    BY FS_Subset DEF Small
  <2>1. PICK x \in s : x = CHOOSE z \in s : TRUE
    OBVIOUS
  <2>2. s \ {x} \in Small(S, n)
    BY <2>1, SmallStep
  <2>3. f[s] = Amount(x.reading) + f[s \ {x}]
    BY <1>0, <2>1, <2>s
  <2>4. Good(s \ {x})
    BY <2>2
  <2>5. Amount(x.reading) \in Int
    BY <1>a, <2>s
  <2>6. f[s] \in Int
    BY <2>3, <2>4, <2>5
  <2>7. ASSUME NEW y \in S \ s PROVE f[s \cup {y}] = f[s] + Amount(y.reading)
    <3> DEFINE t == s \cup {y}
    <3>1. PICK z \in t : z = CHOOSE e \in t : TRUE
      OBVIOUS
    <3>2. f[t] = Amount(z.reading) + f[t \ {z}]
      <4>1. t \in SUBSET S /\ t # {}
        BY <2>s
      <4> QED
        BY <1>0, <3>1, <4>1
    <3>3. Amount(y.reading) \in Int /\ Amount(z.reading) \in Int
      BY <1>a, <2>s
    <3>4. CASE z = y
      <4>1. t \ {z} = s
        BY <3>4
      <4>2. f[t \ {z}] = f[s]
        BY <4>1, Zenon
      <4>3. f[t] = Amount(y.reading) + f[s]
        BY <3>2, <3>4, <4>2
      <4> HIDE DEF t
      <4>4. f[t] = f[s] + Amount(y.reading)
        BY <2>6, <3>3, <4>3
      <4> QED
        BY <4>4 DEF t
    <3>5. CASE z # y
      <4>1. z \in s /\ t \ {z} = (s \ {z}) \cup {y} /\ y \in S \ (s \ {z})
        BY <3>5
      <4>2. s \ {z} \in Small(S, n)
        <5>1. Cardinality(s \ {z}) = Cardinality(s) - 1
          BY <2>s, <4>1, FS_RemoveElement
        <5>2. Cardinality(s) \in Nat /\ Cardinality(s) <= n + 1
          BY <2>s, FS_CardinalityType DEF Small
        <5> QED
          BY <2>s, <5>1, <5>2 DEF Small
      <4>3. Good(s \ {z})
        BY <4>2
      <4>4. f[(s \ {z}) \cup {y}] = f[s \ {z}] + Amount(y.reading)
        BY <4>1, <4>3
      <4>5. f[s] = f[s \ {z}] + Amount(z.reading)
        <5>1. (s \ {z}) \cup {z} = s /\ z \in S \ (s \ {z})
          BY <2>s, <4>1
        <5> QED
          BY <4>3, <5>1
      <4> QED
        BY <3>2, <3>3, <4>1, <4>3, <4>4, <4>5
    <3> QED
      BY <3>4, <3>5
  <2> QED
    BY <2>6, <2>7
<1>3. P = Nat
  <2> HIDE DEF P
  <2> QED
    BY <1>1, <1>2, SetInduction DEF P
<1>4. ASSUME NEW s \in SUBSET S PROVE Good(s)
  <2>1. s \in Small(S, Cardinality(S)) /\ Cardinality(S) \in Nat
    BY FS_Subset, FS_CardinalityType DEF Small
  <2> HIDE DEF Good
  <2> QED
    BY <1>3, <2>1
<1> QED
  BY <1>4 DEF f

(* The facts about sums that the proofs below cite.                        *)

LEMMA EmptySum == SumOf({}) = 0
BY SumOfIsSum, SumEquation, FS_EmptySet

LEMMA SumOfAdds ==
  ASSUME NEW S, IsFiniteSet(S), NEW y, y \notin S, Amounts(S \cup {y})
  PROVE  /\ SumOf(S) \in Int
         /\ SumOf(S \cup {y}) = SumOf(S) + Amount(y.reading)
<1> DEFINE T == S \cup {y}
<1>1. IsFiniteSet(T) /\ S \in SUBSET T /\ y \in T \ S /\ S \in SUBSET S
  BY FS_AddElement
<1>2. Sum(T)[S] \in Int /\ Sum(T)[T] = Sum(T)[S] + Amount(y.reading)
  <2> HIDE DEF T
  <2>1. T = S \cup {y} /\ Amounts(T)
    BY DEF T
  <2>2. IsFiniteSet(T) /\ Amounts(T)
    BY <1>1, <2>1
  <2>3. Sum(T)[S] \in Int /\ Sum(T)[S \cup {y}] = Sum(T)[S] + Amount(y.reading)
    BY <1>1, <2>2, SumAdds
  <2> QED
    BY <2>1, <2>3
<1>3. Sum(T)[S] = Sum(S)[S]
  <2> HIDE DEF T
  <2> QED
    BY <1>1, SumUnique
<1> QED
  BY <1>2, <1>3, SumOfIsSum

LEMMA SumOfInt ==
  ASSUME NEW S, IsFiniteSet(S), Amounts(S)
  PROVE  SumOf(S) \in Int
BY SumAdds, SumOfIsSum

(* A sum with more rows in it is no smaller, and bounded by their number.  *)
LEMMA SumOfUnion ==
  ASSUME NEW S, IsFiniteSet(S), Amounts(S), NEW P, IsFiniteSet(P), S \cap P = {},
         NEW K \in Nat, \A r \in P : Amount(r.reading) \in 0..K
  PROVE  /\ SumOf(S) \in Int /\ SumOf(S \cup P) \in Int
         /\ SumOf(S) <= SumOf(S \cup P)
         /\ SumOf(S \cup P) <= SumOf(S) + Cardinality(P) * K
<1> DEFINE Good(s) == /\ SumOf(S \cup s) \in Int
                      /\ SumOf(S) <= SumOf(S \cup s)
                      /\ SumOf(S \cup s) <= SumOf(S) + Cardinality(s) * K
           G == {n \in Nat : \A s \in Small(P, n) : Good(s)}
<1>0. SumOf(S) \in Int
  BY SumOfInt
<1>e. Good({})
  <2>1. S \cup {} = S /\ Cardinality({}) = 0
    BY FS_EmptySet
  <2> QED
    BY <1>0, <2>1
<1> HIDE DEF Good
<1>1. 0 \in G
  <2>1. ASSUME NEW s \in Small(P, 0) PROVE s = {}
    <3>1. IsFiniteSet(s) /\ Cardinality(s) <= 0
      BY FS_Subset DEF Small
    <3>2. Cardinality(s) = 0
      BY <3>1, FS_CardinalityType
    <3> QED
      BY <3>1, <3>2, FS_EmptySet
  <2> QED
    BY <1>e, <2>1
<1>2. \A n \in Nat : n \in G => n + 1 \in G
  <2> SUFFICES ASSUME NEW n \in Nat, n \in G, NEW s \in Small(P, n + 1)
               PROVE  Good(s)
    OBVIOUS
  <2>0. CASE s = {}
    BY <1>e, <2>0
  <2> SUFFICES ASSUME s # {} PROVE Good(s)
    BY <2>0
  <2>s. s \in SUBSET P /\ IsFiniteSet(s)
    BY FS_Subset DEF Small
  <2>1. PICK x \in s : x = CHOOSE z \in s : TRUE
    OBVIOUS
  <2> DEFINE t == s \ {x}
  <2>2. Good(t)
    BY <2>1, SmallStep
  <2>3. Amount(x.reading) \in 0..K
    BY <2>s
  <2>4. IsFiniteSet(t) /\ Cardinality(t) = Cardinality(s) - 1 /\ Cardinality(s) \in Nat
    BY <2>s, FS_RemoveElement, FS_CardinalityType
  <2>5. IsFiniteSet(S \cup t) /\ x \notin S \cup t /\ (S \cup t) \cup {x} = S \cup s
    BY <2>s, <2>4, FS_Union
  <2>6. Amounts((S \cup t) \cup {x})
    BY <2>s, <2>5 DEF Amounts
  <2>7. SumOf(S \cup s) = SumOf(S \cup t) + Amount(x.reading)
    BY <2>5, <2>6, SumOfAdds
  <2>8. /\ SumOf(S \cup t) \in Int /\ SumOf(S) <= SumOf(S \cup t)
        /\ SumOf(S \cup t) <= SumOf(S) + Cardinality(t) * K
    BY <2>2 DEF Good
  <2> HIDE DEF t
  <2>9. Cardinality(t) * K + K = Cardinality(s) * K
    BY <2>4
  <2>10. Cardinality(t) * K \in Int /\ Cardinality(s) * K \in Int
    BY <2>4
  <2>11. /\ SumOf(S \cup s) \in Int /\ SumOf(S) <= SumOf(S \cup s)
         /\ SumOf(S \cup s) <= SumOf(S) + Cardinality(s) * K
    BY <1>0, <2>3, <2>7, <2>8, <2>9, <2>10
  <2> QED
    BY <2>11 DEF Good
<1>3. G = Nat
  <2> HIDE DEF G
  <2> QED
    BY <1>1, <1>2, SetInduction DEF G
<1>4. P \in Small(P, Cardinality(P)) /\ Cardinality(P) \in Nat
  BY FS_CardinalityType, FS_Subset DEF Small
<1>5. Good(P)
  BY <1>3, <1>4
<1> QED
  BY <1>0, <1>5 DEF Good

-----------------------------------------------------------------------------
(***************************************************************************)
(* The inductive invariant.                                                *)
(***************************************************************************)

(* The readings no enabled guard refuses by itself, those a human has to   *)
(* sign, and what may therefore be stored of a reading.                    *)
Passing == {r \in Readings : Refusing(r, 0, {}) = {}}
Withheld == {r \in Readings : Holding(r) # {}}
Judged(reading, status) ==
  /\ reading \in Passing
  /\ reading \in Withheld => status = "held"

Ids(S) == {r.id : r \in S}
Transaction == [rows : SUBSET Row, decisions : SUBSET DecisionRow]

DbTyped ==
  /\ rows \in SUBSET Row
  /\ decisions \in SUBSET DecisionRow
  /\ pending \in [Connections -> Transaction]
  /\ issued \in 0..MaxIds
  /\ published \in SUBSET DecisionRow
  /\ today \in 0..MaxDays
  /\ config \in Configs

(* What every row satisfies, wherever it is.                               *)
Sound(r) ==
  /\ Judged(r.reading, r.status)
  /\ r.id <= issued /\ r.day <= today
  /\ r.final = "none" => r.status \in {"proposed", "held", "escrowed"}
  /\ r.final # "none" => r.status \in {"escrowed", r.final}

DbSound ==
  /\ IsFiniteSet(rows) /\ \A r \in rows : Sound(r)
  /\ \A c \in Connections : /\ IsFiniteSet(pending[c].rows)
                            /\ \A r \in pending[c].rows : Sound(r)

(* SQLite's single writer, and the UNIQUE request_hash: within the table,  *)
(* within an open transaction and between the two.                         *)
OneWriter ==
  \A c, d \in Connections : pending[c] # Nothing /\ pending[d] # Nothing => c = d

DistinctHashes(S) == \A r, s \in S : r.reading.hash = s.reading.hash => r = s

DbUnique ==
  /\ DistinctHashes(rows)
  /\ \A c \in Connections :
       /\ DistinctHashes(pending[c].rows)
       /\ \A r, s \in pending[c].rows : r.id = s.id => r = s
       /\ \A r \in rows : \A s \in pending[c].rows : r.reading.hash # s.reading.hash

(* A decision to propose or hold has its intent, in the same transaction   *)
(* or committed before.                                                    *)
References ==
  /\ \A d \in decisions : d.decision # "refused" => d.id \in Ids(rows)
  /\ \A c \in Connections : \A d \in pending[c].decisions :
       d.decision # "refused" => d.id \in Ids(Visible(c))

DbInv == DbTyped /\ DbSound /\ OneWriter /\ DbUnique /\ References

(* What a proposer holds, and where.                                       *)
Process == [pc : {"idle", "guards", "trip", "record", "decision", "commit", "emit"},
            reading : Readings \cup {NoReading}, spent : Int,
            decision : {"", "proposed", "held", "refused"},
            todo : SUBSET (Guards \cup {"injection.blocked"}), id : 0..MaxIds]

Holds(job) ==
  /\ job.pc \in {"guards", "trip", "record"} => job.reading \in Readings /\ job.id = 0
  /\ job.pc = "guards" /\ config.policy_engine => job.spent >= 0
  /\ job.pc \in {"trip", "record"} =>
       \/ job.decision = "refused"
       \/ job.decision \in {"proposed", "held"} /\ Judged(job.reading, job.decision)
  /\ job.pc = "decision" => job.decision \in {"proposed", "held"}
  /\ job.pc \in {"decision", "commit", "emit"} => job.id <= issued
  /\ job.pc = "decision" => job.id # 0
  /\ job.pc \in {"commit", "emit"} =>
       [id |-> job.id, decision |-> job.decision] \in DecisionRow

ProcInv ==
  /\ proc \in [Proposers -> Process]
  /\ \A p \in Proposers : Holds(proc[p])

(* With a connection of its own, what a proposer finds in its transaction  *)
(* is its own, and what it is about to answer is committed.                *)
Private(job, open, done) ==
  /\ job.pc \notin {"decision", "commit"} => open = Nothing
  /\ job.pc = "decision" => open.decisions = {}
  /\ job.pc \in {"decision", "commit"} =>
       \A r \in open.rows : r.id = job.id /\ r.status = job.decision
  /\ job.pc = "commit" =>
       [id |-> job.id, decision |-> job.decision] \in open.decisions
  /\ job.pc = "emit" => [id |-> job.id, decision |-> job.decision] \in done
  /\ job.pc = "idle" /\ job.id # 0 => \E d \in done : d.id = job.id

PrivateInv ==
  \A p \in Proposers : Alone(p) => Private(proc[p], pending[Conn[p]], decisions)

Paired(r, done) ==
  \E d \in done : d.id = r.id /\ d.decision = IF r.status = "held" THEN "held" ELSE "proposed"

AuditInv ==
  (\A p \in Proposers : Alone(p)) =>
    /\ \A r \in rows : Paired(r, decisions)
    /\ published \subseteq decisions

PipelineInv == DbInv /\ ProcInv /\ PrivateInv /\ AuditInv

-----------------------------------------------------------------------------
(***************************************************************************)
(* What the guards let through.                                            *)
(***************************************************************************)

(* The configuration never changes, and nothing else matters to them.      *)
LEMMA GuardsFixed ==
  ASSUME config' = config
  PROVE  Passing' = Passing /\ Withheld' = Withheld
<1>1. ASSUME NEW r PROVE (Refusing(r, 0, {}) = {})' <=> Refusing(r, 0, {}) = {}
  BY DEF Refusing, Flagged, evaluate_refuses, Positive, OverCap
<1>2. ASSUME NEW r PROVE (Holding(r) # {})' <=> Holding(r) # {}
  BY DEF Holding
<1> QED
  BY <1>1, <1>2 DEF Passing, Withheld

(* The rounding of a product takes at most half a unit of its last digit.  *)
LEMMA RoundedNear ==
  ASSUME NEW n \in Numbers
  PROVE  /\ Rounded(n) \in Int
         /\ 2 * (Rounded(n) - n) \in -Ulp[n] .. Ulp[n]
<1>1. n \in Int /\ Ulp[n] \in Nat \ {0}
  BY PipelineAssumption
<1> DEFINE u == Ulp[n]
           q == n \div u
           rest == n % u
           down == 2 * rest < u \/ (2 * rest = u /\ q % 2 = 0)
<1>2. Rounded(n) = (IF down THEN q ELSE q + 1) * u
  BY DEF Rounded
<1>3. u \in Nat \ {0} /\ q \in Int /\ rest \in 0..u - 1 /\ n = q * u + rest
  <2> HIDE DEF u
  <2>1. u \in Nat \ {0}
    BY <1>1 DEF u
  <2> QED
    BY <1>1, <2>1
<1>4. down => 2 * rest <= u
  BY <1>3
<1>5. ~down => 2 * rest >= u
  BY <1>3
<1> HIDE DEF u, q, rest, down
<1>6. q * u \in Int /\ (q + 1) * u = q * u + u
  BY <1>3
<1>7. CASE down
  <2>1. Rounded(n) = q * u
    BY <1>2, <1>7
  <2>2. 2 * (q * u - n) = -(2 * rest)
    BY <1>3, <1>6
  <2> QED
    BY <1>3, <1>4, <1>6, <1>7, <2>1, <2>2 DEF u
<1>8. CASE ~down
  <2>1. Rounded(n) = q * u + u
    BY <1>2, <1>6, <1>8
  <2>2. 2 * (q * u + u - n) = 2 * u - 2 * rest
    BY <1>3, <1>6
  <2> QED
    BY <1>3, <1>5, <1>6, <1>8, <2>1, <2>2 DEF u
<1> QED
  BY <1>7, <1>8

LEMMA ToStroops ==
  ASSUME NEW r \in Readings
  PROVE  /\ Amount(r) = NoAmount \/ Amount(r) \in Int
         /\ Amount(r) # NoAmount => /\ r.extracted \in Numbers
                                    /\ r.extracted \in Int
                                    /\ Amount(r) * Parts = Rounded(r.extracted)
<1>1. r.extracted \in Numbers \cup {Infinite, NoAmount}
  BY PipelineAssumption DEF Reading
<1>2. Numbers \subseteq Int /\ Parts \in Nat \ {0}
  BY PipelineAssumption
<1> DEFINE e == Rounded(r.extracted)
<1>3. CASE r.extracted \in {Infinite, NoAmount}
  BY <1>3 DEF Amount, to_stroops
<1>4. CASE r.extracted \notin {Infinite, NoAmount} /\ e % Parts # 0
  BY <1>4 DEF Amount, to_stroops
<1>5. CASE r.extracted \notin {Infinite, NoAmount} /\ e % Parts = 0
  <2>1. Amount(r) = e \div Parts
    BY <1>5 DEF Amount, to_stroops
  <2>2. r.extracted \in Numbers /\ r.extracted \in Int
    BY <1>1, <1>2, <1>5
  <2>3. e \in Int
    BY <2>2, RoundedNear
  <2> HIDE DEF e
  <2>4. (e \div Parts) * Parts = e /\ e \div Parts \in Int
    BY <1>2, <1>5, <2>3
  <2> QED
    BY <2>1, <2>2, <2>4 DEF e
<1> QED
  BY <1>3, <1>4, <1>5

(* What no guard refuses has a whole number of stroops, one the invoice    *)
(* has where the cross-check looks for it, and one within the cap.         *)
LEMMA PassingAmount ==
  ASSUME NEW r \in Passing
  PROVE  /\ r \in Readings
         /\ Amount(r) # NoAmount /\ Amount(r) \in Int
         /\ amount_matches_text(Amount(r), r.text)
         /\ config.policy_engine => Amount(r) \in 0..CapPerTx
<1>1. r \in Readings /\ Refusing(r, 0, {}) = {}
  BY DEF Passing
<1>2. "AmountCrossCheck" \notin Refusing(r, 0, {}) /\ "PolicyEngine" \notin Refusing(r, 0, {})
  BY <1>1
<1>3. "AmountCrossCheck" \in Guards /\ "PolicyEngine" \in Guards
  BY DEF Guards
<1>4. Amount(r) # NoAmount /\ amount_matches_text(Amount(r), r.text)
  BY <1>2, <1>3 DEF Refusing
<1>5. config.policy_engine => ~evaluate_refuses(r, 0, {})
  BY <1>2, <1>3 DEF Refusing
<1>6. config.policy_engine => Positive(r) /\ ~OverCap(r)
  BY <1>5 DEF evaluate_refuses
<1>7. Amount(r) \in Int /\ CapPerTx \in Nat
  BY <1>1, <1>4, ToStroops, PipelineAssumption
<1>8. config.policy_engine => Amount(r) \in 0..CapPerTx
  BY <1>6, <1>7 DEF Positive, OverCap
<1> QED
  BY <1>1, <1>4, <1>7, <1>8

(* What the guards decide can be stored, whatever was spent and known when *)
(* they were asked.                                                        *)
LEMMA VerdictJudged ==
  ASSUME NEW r \in Readings, NEW spent \in Int, NEW known,
         config.policy_engine => spent >= 0
  PROVE  LET v == Verdict(r, spent, known) IN
         /\ v \in {"refused", "proposed", "held"}
         /\ v # "refused" => Judged(r, v)
         /\ v # "refused" /\ config.policy_engine => spent + Amount(r) <= CapDaily
<1>1. Verdict(r, spent, known) \in {"refused", "proposed", "held"}
  BY DEF Verdict
<1>2. SUFFICES ASSUME Verdict(r, spent, known) # "refused"
               PROVE  /\ Judged(r, Verdict(r, spent, known))
                      /\ config.policy_engine => spent + Amount(r) <= CapDaily
  BY <1>1
<1>3. Refusing(r, spent, known) = {}
  BY <1>2 DEF Verdict
<1>4. config.policy_engine =>
        /\ ~evaluate_refuses(r, spent, known)
        /\ Positive(r) /\ ~OverCap(r) /\ spent + Amount(r) <= CapDaily
  <2>1. config.policy_engine => ~evaluate_refuses(r, spent, known)
    BY <1>3 DEF Refusing, Guards
  <2>2. config.policy_engine => Positive(r) /\ ~OverCap(r)
    BY <2>1 DEF evaluate_refuses
  <2>3. Amount(r) = NoAmount \/ Amount(r) \in Int
    BY ToStroops
  <2>4. config.policy_engine => ~(spent + Amount(r) > CapDaily)
    BY <2>1, <2>2 DEF evaluate_refuses
  <2>5. CapDaily \in Nat
    BY PipelineAssumption
  <2> QED
    BY <2>1, <2>2, <2>3, <2>4, <2>5 DEF Positive
<1>5. config.policy_engine => ~evaluate_refuses(r, 0, {})
  <2>1. SUFFICES ASSUME config.policy_engine PROVE ~evaluate_refuses(r, 0, {})
    OBVIOUS
  <2>2. Amount(r) \in Int
    BY <1>4, <2>1, ToStroops DEF Positive
  <2>3. ~(0 + Amount(r) > CapDaily)
    BY <1>4, <2>1, <2>2, PipelineAssumption
  <2> QED
    BY <1>4, <2>1, <2>3 DEF evaluate_refuses
<1>6. Refusing(r, 0, {}) = {}
  BY <1>3, <1>5, Zenon DEF Refusing
<1>7. Judged(r, Verdict(r, spent, known))
  <2>1. Holding(r) # {} => Verdict(r, spent, known) = "held"
    BY <1>3 DEF Verdict
  <2> QED
    BY <1>6, <2>1 DEF Judged, Passing, Withheld
<1> QED
  BY <1>4, <1>7

-----------------------------------------------------------------------------
(***************************************************************************)
(* The database keeps its part of the invariant, statement by statement.   *)
(***************************************************************************)
LEMMA SoundKept ==
  ASSUME NEW r \in Row, Sound(r), config' = config, issued \in Int, issued' \in Int,
         issued <= issued', today \in Int, today' \in Int, today <= today'
  PROVE  Sound(r)'
<1>1. Judged(r.reading, r.status)'
  BY GuardsFixed DEF Sound, Judged
<1>2. r.id \in Int /\ r.day \in Int
  BY PipelineAssumption DEF Row
<1> QED
  BY <1>1, <1>2 DEF Sound

LEMMA DbInts ==
  ASSUME DbTyped
  PROVE  issued \in Int /\ today \in Int /\ MaxIds \in Nat /\ MaxDays \in Nat
BY PipelineAssumption DEF DbTyped

(* What a transaction that ends leaves open.                               *)
LEMMA TransactionEnds ==
  ASSUME DbTyped, NEW c \in Connections,
         pending' = [pending EXCEPT ![c] = Nothing]
  PROVE  /\ pending' \in [Connections -> Transaction]
         /\ pending'[c] = Nothing /\ Nothing.rows = {} /\ Nothing.decisions = {}
         /\ \A d \in Connections \ {c} : pending'[d] = pending[d]
<1>1. Nothing \in Transaction /\ Nothing.rows = {} /\ Nothing.decisions = {}
  BY DEF Nothing, Transaction
<1>2. pending \in [Connections -> Transaction]
  BY DEF DbTyped
<1> QED
  BY <1>1, <1>2

LEMMA RollbackKeepsDb ==
  ASSUME DbInv, NEW c \in Connections, Rollback(c),
         UNCHANGED <<issued, published, today, config>>
  PROVE  DbInv'
<1>1. DbTyped /\ pending' = [pending EXCEPT ![c] = Nothing] /\ rows' = rows /\ decisions' = decisions
  BY DEF DbInv, Rollback
<1>2. /\ pending' \in [Connections -> Transaction]
      /\ pending'[c] = Nothing /\ Nothing.rows = {} /\ Nothing.decisions = {}
      /\ \A d \in Connections \ {c} : pending'[d] = pending[d]
  BY <1>1, TransactionEnds
<1>3. DbTyped'
  BY <1>1, <1>2 DEF DbTyped
<1>4. DbSound'
  <2>1. ASSUME NEW r \in Row, Sound(r) PROVE Sound(r)'
    BY <1>1, <2>1, DbInts, SoundKept
  <2>2. rows \subseteq Row /\ \A d \in Connections : pending[d].rows \subseteq Row
    BY <1>1 DEF DbTyped, Transaction
  <2>3. DbSound
    BY DEF DbInv
  <2>4. IsFiniteSet(rows') /\ \A r \in rows' : Sound(r)'
    BY <1>1, <2>1, <2>2, <2>3 DEF DbSound
  <2>5. ASSUME NEW d \in Connections
        PROVE  IsFiniteSet(pending'[d].rows) /\ \A r \in pending'[d].rows : Sound(r)'
    <3>1. CASE d = c
      BY <1>2, <3>1, FS_EmptySet
    <3>2. CASE d # c
      BY <1>2, <2>1, <2>2, <2>3, <3>2 DEF DbSound
    <3> QED
      BY <3>1, <3>2
  <2> QED
    BY <2>4, <2>5 DEF DbSound
<1>5. OneWriter'
  BY <1>2 DEF DbInv, OneWriter
<1>6. DbUnique'
  BY <1>1, <1>2 DEF DbInv, DbUnique, DistinctHashes
<1>7. References'
  BY <1>1, <1>2 DEF DbInv, References, Ids, Visible
<1> QED
  BY <1>3, <1>4, <1>5, <1>6, <1>7 DEF DbInv

LEMMA CommitKeepsDb ==
  ASSUME DbInv, NEW c \in Connections, CommitAll(c),
         UNCHANGED <<issued, today, config>>, published' \in SUBSET DecisionRow
  PROVE  DbInv'
<1>1. /\ DbTyped /\ pending' = [pending EXCEPT ![c] = Nothing]
      /\ rows' = rows \cup pending[c].rows
      /\ decisions' = decisions \cup pending[c].decisions
  BY DEF DbInv, CommitAll, Visible
<1>2. /\ pending' \in [Connections -> Transaction]
      /\ pending'[c] = Nothing /\ Nothing.rows = {} /\ Nothing.decisions = {}
      /\ \A d \in Connections \ {c} : pending'[d] = pending[d]
  BY <1>1, TransactionEnds
<1>t. /\ rows \subseteq Row /\ decisions \subseteq DecisionRow
      /\ \A d \in Connections : /\ pending[d].rows \subseteq Row
                                /\ pending[d].decisions \subseteq DecisionRow
  BY <1>1 DEF DbTyped, Transaction
<1>3. DbTyped'
  BY <1>1, <1>2, <1>t DEF DbTyped
<1>w. ASSUME NEW d \in Connections \ {c}, pending[d] # Nothing
      PROVE  pending[c] = Nothing
  BY <1>w DEF DbInv, OneWriter
<1>4. DbSound'
  <2>1. ASSUME NEW r \in Row, Sound(r) PROVE Sound(r)'
    BY <1>1, <2>1, DbInts, SoundKept
  <2>3. DbSound
    BY DEF DbInv
  <2>4. \A r \in rows' : Sound(r)'
    BY <1>1, <2>1, <1>t, <2>3 DEF DbSound
  <2>f. IsFiniteSet(rows')
    BY <1>1, <2>3, FS_Union DEF DbSound
  <2>5. ASSUME NEW d \in Connections
        PROVE  IsFiniteSet(pending'[d].rows) /\ \A r \in pending'[d].rows : Sound(r)'
    <3>1. CASE d = c
      BY <1>2, <3>1, FS_EmptySet
    <3>2. CASE d # c
      BY <1>2, <2>1, <1>t, <2>3, <3>2 DEF DbSound
    <3> QED
      BY <3>1, <3>2
  <2> QED
    BY <2>4, <2>5, <2>f DEF DbSound
<1>5. OneWriter'
  BY <1>2 DEF DbInv, OneWriter
<1>6. DbUnique'
  <2>1. DbUnique
    BY DEF DbInv
  <2>2. DistinctHashes(rows')
    BY <1>1, <2>1 DEF DbUnique, DistinctHashes
  <2>3. ASSUME NEW d \in Connections
        PROVE  /\ DistinctHashes(pending'[d].rows)
               /\ \A r, s \in pending'[d].rows : r.id = s.id => r = s
               /\ \A r \in rows' : \A s \in pending'[d].rows : r.reading.hash # s.reading.hash
    <3>1. CASE pending'[d] = Nothing
      BY <1>2, <3>1 DEF DistinctHashes
    <3>2. CASE pending'[d] # Nothing
      <4>1. d # c /\ pending'[d] = pending[d] /\ pending[c] = Nothing
        BY <1>2, <1>w, <3>2
      <4>2. rows' = rows
        BY <1>1, <1>2, <4>1
      <4> QED
        BY <2>1, <4>1, <4>2 DEF DbUnique
    <3> QED
      BY <3>1, <3>2
  <2> QED
    BY <2>2, <2>3 DEF DbUnique
<1>7. References'
  <2>1. References
    BY DEF DbInv
  <2>2. \A d \in decisions' : d.decision # "refused" => d.id \in Ids(rows')
    BY <1>1, <2>1 DEF References, Ids, Visible
  <2>3. ASSUME NEW d \in Connections, NEW e \in pending'[d].decisions, e.decision # "refused"
        PROVE  e.id \in Ids(rows' \cup pending'[d].rows)
    <3>1. d # c /\ pending'[d] = pending[d]
      BY <1>2, <2>3
    <3>2. e.id \in Ids(rows \cup pending[d].rows)
      BY <2>1, <2>3, <3>1 DEF References, Visible
    <3> QED
      BY <1>1, <3>1, <3>2 DEF Ids
  <2> QED
    BY <2>2, <2>3 DEF References, Visible
<1> QED
  BY <1>3, <1>4, <1>5, <1>6, <1>7 DEF DbInv

(* The row a proposer inserts, with a hash nobody has.                     *)
LEMMA InsertKeepsDb ==
  ASSUME DbInv, NEW c \in Connections, NEW n \in Row, CanWrite(c),
         n.id = issued + 1, n.day = today, n.final = "none",
         n.status \in {"proposed", "held"}, Judged(n.reading, n.status),
         n.reading.hash \notin Known(c), issued < MaxIds,
         pending' = [pending EXCEPT ![c].rows = @ \cup {n}],
         issued' = issued + 1,
         UNCHANGED <<rows, decisions, published, today, config>>
  PROVE  DbInv'
<1>1. DbTyped /\ DbSound /\ OneWriter /\ DbUnique /\ References
  BY DEF DbInv
<1>t. /\ rows \subseteq Row /\ decisions \subseteq DecisionRow
      /\ \A d \in Connections : /\ pending[d] \in Transaction
                                /\ pending[d].rows \subseteq Row
                                /\ pending[d].decisions \subseteq DecisionRow
  BY <1>1 DEF DbTyped, Transaction
<1>2. /\ pending'[c].rows = pending[c].rows \cup {n}
      /\ pending'[c].decisions = pending[c].decisions
      /\ \A d \in Connections \ {c} : pending'[d] = pending[d]
      /\ pending' \in [Connections -> Transaction]
  <2>1. pending \in [Connections -> Transaction]
    BY <1>1 DEF DbTyped
  <2>2. pending'[c] = [pending[c] EXCEPT !.rows = @ \cup {n}]
    BY <2>1
  <2>3. /\ pending'[c].rows = pending[c].rows \cup {n}
        /\ pending'[c].decisions = pending[c].decisions
        /\ pending'[c] \in Transaction
    BY <1>t, <2>2 DEF Transaction
  <2> QED
    BY <2>1, <2>3
<1>o. ASSUME NEW d \in Connections \ {c} PROVE pending[d] = Nothing /\ pending'[d] = Nothing
  BY <1>2 DEF CanWrite
<1>i. issued \in Int /\ today \in Int /\ MaxIds \in Nat
  BY <1>1, DbInts
<1>3. DbTyped'
  <2>1. issued' \in 0..MaxIds
    BY <1>1, <1>i DEF DbTyped
  <2> QED
    BY <1>1, <1>2, <2>1 DEF DbTyped
<1>4. DbSound'
  <2>1. ASSUME NEW r \in Row, Sound(r) PROVE Sound(r)'
    <3>1. issued <= issued' /\ issued' \in Int /\ today <= today' /\ today' \in Int
      BY <1>i
    <3> QED
      BY <1>i, <2>1, <3>1, SoundKept
  <2>2. Sound(n)'
    <3>1. Judged(n.reading, n.status)'
      BY GuardsFixed DEF Judged
    <3>2. n.id <= issued' /\ n.day <= today'
      BY <1>i
    <3> QED
      BY <3>1, <3>2 DEF Sound
  <2>3. IsFiniteSet(rows') /\ \A r \in rows' : Sound(r)'
    BY <1>1, <1>t, <2>1 DEF DbSound
  <2>4. ASSUME NEW d \in Connections
        PROVE  IsFiniteSet(pending'[d].rows) /\ \A r \in pending'[d].rows : Sound(r)'
    <3>1. CASE d = c
      <4>1. IsFiniteSet(pending[c].rows) /\ \A r \in pending[c].rows : r \in Row /\ Sound(r)
        BY <1>1, <1>t DEF DbSound
      <4>2. IsFiniteSet(pending[c].rows \cup {n})
        BY <4>1, FS_AddElement
      <4>3. \A r \in pending'[c].rows : Sound(r)'
        BY <1>2, <2>1, <2>2, <4>1
      <4> QED
        BY <1>2, <3>1, <4>2, <4>3
    <3>2. CASE d # c
      BY <1>1, <1>2, <1>t, <2>1, <3>2 DEF DbSound
    <3> QED
      BY <3>1, <3>2
  <2> QED
    BY <2>3, <2>4 DEF DbSound
<1>5. OneWriter'
  BY <1>o DEF OneWriter
<1>6. DbUnique'
  <2>1. \A r \in rows \cup pending[c].rows : r.reading.hash # n.reading.hash
    BY DEF Known, Visible
  <2>2. \A r \in pending[c].rows : r.id # n.id
    <3>1. ASSUME NEW r \in pending[c].rows PROVE r.id <= issued /\ r.id \in Int
      BY <1>1, <1>t, <3>1, PipelineAssumption DEF DbSound, Sound, Row
    <3> QED
      BY <1>i, <3>1
  <2>3. DistinctHashes(rows')
    BY <1>1 DEF DbUnique
  <2>4. ASSUME NEW d \in Connections
        PROVE  /\ DistinctHashes(pending'[d].rows)
               /\ \A r, s \in pending'[d].rows : r.id = s.id => r = s
               /\ \A r \in rows' : \A s \in pending'[d].rows : r.reading.hash # s.reading.hash
    <3>1. CASE d = c
      BY <1>1, <1>2, <2>1, <2>2, <3>1 DEF DbUnique, DistinctHashes
    <3>2. CASE d # c
      BY <1>1, <1>2, <3>2 DEF DbUnique
    <3> QED
      BY <3>1, <3>2
  <2> QED
    BY <2>3, <2>4 DEF DbUnique
<1>7. References'
  <2>1. \A d \in Connections : pending'[d].decisions = pending[d].decisions
    BY <1>2
  <2>2. \A d \in Connections : pending[d].rows \subseteq pending'[d].rows
    BY <1>2
  <2> QED
    BY <1>1, <2>1, <2>2 DEF References, Ids, Visible
<1> QED
  BY <1>3, <1>4, <1>5, <1>6, <1>7 DEF DbInv

(* The decision it adds to its transaction.                                *)
LEMMA DecideKeepsDb ==
  ASSUME DbInv, NEW c \in Connections, NEW e \in DecisionRow, CanWrite(c),
         e.decision = "refused" \/ e.id \in Ids(Visible(c)),
         pending' = [pending EXCEPT ![c].decisions = @ \cup {e}],
         UNCHANGED <<rows, decisions, issued, published, today, config>>
  PROVE  DbInv'
<1>1. DbTyped /\ DbSound /\ OneWriter /\ DbUnique /\ References
  BY DEF DbInv
<1>t. \A d \in Connections : pending[d] \in Transaction /\ pending[d].rows \subseteq Row
  BY <1>1 DEF DbTyped, Transaction
<1>2. /\ \A d \in Connections : pending'[d].rows = pending[d].rows
      /\ pending'[c].decisions = pending[c].decisions \cup {e}
      /\ \A d \in Connections \ {c} : pending'[d] = pending[d]
      /\ pending' \in [Connections -> Transaction]
  <2>1. pending \in [Connections -> Transaction]
    BY <1>1 DEF DbTyped
  <2>2. pending'[c] = [pending[c] EXCEPT !.decisions = @ \cup {e}]
    BY <2>1
  <2>3. /\ pending'[c].rows = pending[c].rows
        /\ pending'[c].decisions = pending[c].decisions \cup {e}
        /\ pending'[c] \in Transaction
    BY <1>t, <2>2 DEF Transaction
  <2> QED
    BY <2>1, <2>3
<1>3. DbTyped'
  BY <1>1, <1>2 DEF DbTyped
<1>4. DbSound'
  <2>1. ASSUME NEW r \in Row, Sound(r) PROVE Sound(r)'
    BY <1>1, <2>1, DbInts, SoundKept
  <2>2. rows \subseteq Row
    BY <1>1 DEF DbTyped
  <2> QED
    BY <1>1, <1>2, <1>t, <2>1, <2>2 DEF DbSound
<1>5. OneWriter'
  <2>1. \A d \in Connections \ {c} : pending'[d] = Nothing
    BY <1>2 DEF CanWrite
  <2> QED
    BY <2>1 DEF OneWriter
<1>6. DbUnique'
  BY <1>1, <1>2 DEF DbUnique
<1>7. References'
  BY <1>1, <1>2 DEF References, Ids, Visible
<1> QED
  BY <1>3, <1>4, <1>5, <1>6, <1>7 DEF DbInv

(* What execute and sync_status make of a row: the same intent, in another *)
(* status; a held one stays held.                                          *)
LEMMA ProgressMoves ==
  ASSUME DbTyped, NEW r \in rows, Sound(r), Progress(r)
  PROVE  \E n \in Row :
           /\ rows' = (rows \ {r}) \cup {n}
           /\ n.id = r.id /\ n.reading = r.reading /\ n.day = r.day
           /\ r.status # "held" /\ n.status # "held"
           /\ n.final = "none" => n.status \in {"proposed", "held", "escrowed"}
           /\ n.final # "none" => n.status \in {"escrowed", n.final}
           /\ n.final # "reverted" /\ n.status \in COUNTED_STATUSES =>
                r.final # "reverted" /\ r.status \in COUNTED_STATUSES
<1>1. /\ r \in Row
      /\ r.final = "none" => r.status \in {"proposed", "held", "escrowed"}
      /\ r.final # "none" => r.status \in {"escrowed", r.final}
  BY DEF DbTyped, Sound
<1>2. CASE \E s \in CASE r.status = "proposed" -> {"escrowed"}
                  [] r.status \in {"released", "reverted"} -> {"escrowed"}
                  [] r.status = "escrowed" /\ r.final = "none" -> {"proposed"}
                  [] OTHER -> {} :
          rows' = (rows \ {r}) \cup {[r EXCEPT !.status = s]}
  <2>1. PICK s \in {"escrowed", "proposed"} :
          /\ rows' = (rows \ {r}) \cup {[r EXCEPT !.status = s]}
          /\ \/ r.status \in {"proposed", "released", "reverted"} /\ s = "escrowed"
             \/ r.status = "escrowed" /\ r.final = "none" /\ s = "proposed"
    BY <1>2
  <2> DEFINE n == [r EXCEPT !.status = s]
  <2>2. /\ n \in Row /\ n.status = s /\ n.final = r.final
        /\ n.id = r.id /\ n.reading = r.reading /\ n.day = r.day
    BY <1>1 DEF Row, Status
  <2>3. rows' = (rows \ {r}) \cup {n}
    BY <2>1
  <2> HIDE DEF n
  <2>4. /\ r.status # "held" /\ n.status # "held"
        /\ n.final = "none" => n.status \in {"proposed", "held", "escrowed"}
        /\ n.final # "none" => n.status \in {"escrowed", n.final}
        /\ n.final # "reverted" /\ n.status \in COUNTED_STATUSES =>
                r.final # "reverted" /\ r.status \in COUNTED_STATUSES
    BY <1>1, <2>1, <2>2 DEF COUNTED_STATUSES
  <2> QED
    BY <2>2, <2>3, <2>4
<1>3. CASE /\ r.status = "escrowed"
           /\ \E s \in {"released", "reverted"} :
                /\ r.final \in {"none", s}
                /\ rows' = (rows \ {r}) \cup {[r EXCEPT !.status = s, !.final = s]}
  <2>1. PICK s \in {"released", "reverted"} :
          /\ r.final \in {"none", s}
          /\ rows' = (rows \ {r}) \cup {[r EXCEPT !.status = s, !.final = s]}
    BY <1>3
  <2> DEFINE n == [r EXCEPT !.status = s, !.final = s]
  <2>2. /\ n \in Row /\ n.status = s /\ n.final = s
        /\ n.id = r.id /\ n.reading = r.reading /\ n.day = r.day
    BY <1>1 DEF Row, Status
  <2>3. rows' = (rows \ {r}) \cup {n}
    BY <2>1
  <2> HIDE DEF n
  <2>4. /\ r.status # "held" /\ n.status # "held"
        /\ n.final # "none" /\ n.status \in {"escrowed", n.final}
        /\ n.final # "reverted" /\ n.status \in COUNTED_STATUSES =>
                r.final # "reverted" /\ r.status \in COUNTED_STATUSES
    BY <1>1, <1>3, <2>1, <2>2 DEF COUNTED_STATUSES
  <2> QED
    BY <2>2, <2>3, <2>4
<1> QED
  BY <1>2, <1>3 DEF Progress

LEMMA ProgressKeepsDb ==
  ASSUME DbInv, NEW r \in rows, Progress(r)
  PROVE  DbInv'
<1>1. DbTyped /\ DbSound /\ OneWriter /\ DbUnique /\ References
  BY DEF DbInv
<1>u. UNCHANGED <<decisions, pending, issued, published, today, config>>
  BY DEF Progress
<1>2. PICK n \in Row :
           /\ rows' = (rows \ {r}) \cup {n}
           /\ n.id = r.id /\ n.reading = r.reading /\ n.day = r.day
           /\ r.status # "held" /\ n.status # "held"
           /\ n.final = "none" => n.status \in {"proposed", "held", "escrowed"}
           /\ n.final # "none" => n.status \in {"escrowed", n.final}
  <2>1. Sound(r)
    BY <1>1 DEF DbSound
  <2> QED
    BY <1>1, <2>1, ProgressMoves
<1>3. DbTyped'
  BY <1>1, <1>u, <1>2 DEF DbTyped
<1>4. DbSound'
  <2>1. ASSUME NEW s \in Row, Sound(s) PROVE Sound(s)'
    BY <1>1, <1>u, <2>1, DbInts, SoundKept
  <2>2. rows \subseteq Row /\ \A d \in Connections : pending[d].rows \subseteq Row
    BY <1>1 DEF DbTyped, Transaction
  <2>3. Sound(n)
    <3>1. Sound(r)
      BY <1>1 DEF DbSound
    <3>2. Judged(n.reading, n.status)
      BY <1>2, <3>1 DEF Sound, Judged
    <3> QED
      BY <1>2, <3>1, <3>2 DEF Sound
  <2>4. IsFiniteSet(rows')
    BY <1>1, <1>2, FS_RemoveElement, FS_AddElement DEF DbSound
  <2> QED
    BY <1>1, <1>2, <1>u, <2>1, <2>2, <2>3, <2>4 DEF DbSound
<1>5. OneWriter'
  BY <1>1, <1>u DEF OneWriter
<1>6. DbUnique'
  BY <1>1, <1>2, <1>u DEF DbUnique, DistinctHashes
<1>7. References'
  <2>1. Ids(rows') = Ids(rows)
    BY <1>2 DEF Ids
  <2>2. ASSUME NEW c \in Connections
        PROVE  Ids(rows' \cup pending'[c].rows) = Ids(rows \cup pending[c].rows)
    BY <1>u, <1>2 DEF Ids
  <2> QED
    BY <1>1, <1>u, <2>1, <2>2 DEF References, Visible
<1> QED
  BY <1>3, <1>4, <1>5, <1>6, <1>7 DEF DbInv

(* Nothing but the day changes.                                            *)
LEMMA SameDb ==
  ASSUME DbInv, UNCHANGED <<rows, decisions, pending, issued, config>>,
         published' \in SUBSET DecisionRow,
         today' \in 0..MaxDays, today <= today'
  PROVE  DbInv'
<1>1. DbTyped /\ DbSound /\ OneWriter /\ DbUnique /\ References
  BY DEF DbInv
<1>2. DbTyped'
  BY <1>1 DEF DbTyped
<1>3. DbSound'
  <2>1. ASSUME NEW s \in Row, Sound(s) PROVE Sound(s)'
    BY <1>1, <2>1, DbInts, SoundKept
  <2>2. rows \subseteq Row /\ \A d \in Connections : pending[d].rows \subseteq Row
    BY <1>1 DEF DbTyped, Transaction
  <2> QED
    BY <1>1, <2>1, <2>2 DEF DbSound
<1>4. OneWriter' /\ DbUnique' /\ References'
  BY <1>1 DEF OneWriter, DbUnique, References, Ids, Visible
<1> QED
  BY <1>2, <1>3, <1>4 DEF DbInv

-----------------------------------------------------------------------------
(***************************************************************************)
(* What the steps of a proposer have in common.                            *)
(***************************************************************************)

(* The amounts of the rows anyone can see.                                 *)
LEMMA VisibleAmounts ==
  ASSUME DbInv, NEW c \in Connections
  PROVE  /\ IsFiniteSet(Visible(c)) /\ Amounts(Visible(c))
         /\ config.policy_engine => \A r \in Visible(c) : Amount(r.reading) \in 0..CapPerTx
<1>1. DbSound
  BY DEF DbInv
<1>2. IsFiniteSet(Visible(c))
  BY <1>1, FS_Union DEF DbSound, Visible
<1>3. \A r \in Visible(c) : r.reading \in Passing
  BY <1>1 DEF DbSound, Visible, Sound, Judged
<1> QED
  BY <1>2, <1>3, PassingAmount DEF Amounts

LEMMA CommittedSum ==
  ASSUME DbInv, NEW c \in Connections
  PROVE  /\ Committed(c) \in Int
         /\ config.policy_engine => Committed(c) >= 0
<1> DEFINE S == {r \in Visible(c) : r.day = today /\ r.status \in COUNTED_STATUSES}
<1>1. Committed(c) = SumOf(S)
  BY Zenon DEF Committed, SumOf
<1>2. S \in SUBSET Visible(c)
  OBVIOUS
<1> HIDE DEF S
<1>3. IsFiniteSet(S) /\ Amounts(S)
  BY <1>2, VisibleAmounts, FS_Subset DEF Amounts
<1>4. SumOf(S) \in Int
  BY <1>3, SumOfInt
<1>5. ASSUME config.policy_engine PROVE SumOf(S) >= 0
  <2>1. IsFiniteSet({}) /\ Amounts({}) /\ {} \cap S = {} /\ {} \cup S = S
    BY FS_EmptySet DEF Amounts
  <2>2. \A r \in S : Amount(r.reading) \in 0..CapPerTx
    BY <1>2, <1>5, VisibleAmounts
  <2>3. CapPerTx \in Nat
    BY PipelineAssumption
  <2>4. SumOf({}) <= SumOf({} \cup S)
    BY <1>3, <2>1, <2>2, <2>3, SumOfUnion
  <2> QED
    BY <1>4, <2>1, <2>4, EmptySum
<1> QED
  BY <1>1, <1>4, <1>5

LEMMA HoldsKept ==
  ASSUME NEW job \in Process, Holds(job), config' = config,
         issued \in Int, issued' \in Int, issued <= issued'
  PROVE  Holds(job)'
<1>1. job.id \in Int
  <2>1. job.id \in 0..MaxIds
    BY Zenon DEF Process
  <2> QED
    BY <2>1, PipelineAssumption
<1>2. ASSUME NEW r, NEW s, Judged(r, s) PROVE Judged(r, s)'
  BY <1>2, GuardsFixed DEF Judged
<1> QED
  BY <1>1, <1>2 DEF Holds

(* With a connection of its own, what a proposer commits is paired.        *)
LEMMA CommitIsAudited ==
  ASSUME DbInv, PrivateInv, AuditInv, NEW p \in Proposers, CommitAll(Conn[p]),
         proc[p].pc # "decision",
         (\A q \in Proposers : Alone(q)) => published' \subseteq decisions'
  PROVE  AuditInv'
<1>1. Conn[p] \in Connections
  BY PipelineAssumption
<1>2. /\ rows' = rows \cup pending[Conn[p]].rows
      /\ decisions' = decisions \cup pending[Conn[p]].decisions
  BY DEF CommitAll, Visible
<1>3. SUFFICES ASSUME \A q \in Proposers : Alone(q)
               PROVE  \A r \in rows' : Paired(r, decisions')
  BY DEF AuditInv
<1>4. Private(proc[p], pending[Conn[p]], decisions)
  BY <1>3 DEF PrivateInv
<1>5. ASSUME NEW r \in rows PROVE Paired(r, decisions')
  BY <1>2, <1>3 DEF AuditInv, Paired
<1>6. ASSUME NEW r \in pending[Conn[p]].rows PROVE Paired(r, decisions')
  <2>1. proc[p].pc = "commit"
    BY <1>4, <1>6 DEF Private, Nothing
  <2> DEFINE d == [id |-> proc[p].id, decision |-> proc[p].decision]
  <2>2. /\ r.id = proc[p].id /\ r.status = proc[p].decision
        /\ d \in pending[Conn[p]].decisions
    BY <1>4, <1>6, <2>1 DEF Private
  <2>3. r.status \in Status /\ d \in DecisionRow
    BY <1>1, <1>6, <2>2 DEF DbInv, DbTyped, Transaction, Row
  <2>4. d.id = r.id /\ d.decision = IF r.status = "held" THEN "held" ELSE "proposed"
    BY <2>2, <2>3 DEF Status, DecisionRow
  <2>5. d \in decisions'
    BY <1>2, <2>2
  <2> HIDE DEF d
  <2> QED
    BY <2>4, <2>5 DEF Paired
<1> QED
  BY <1>2, <1>5, <1>6

(* A step of p that changes nothing of the others, nor of any connection   *)
(* but its own.                                                            *)
LEMMA StepKeeps ==
  ASSUME PipelineInv, NEW p \in Proposers, NEW job \in Process,
         proc' = [proc EXCEPT ![p] = job], DbInv', Holds(job)',
         config' = config, issued <= issued', decisions \subseteq decisions',
         \A d \in Connections \ {Conn[p]} : pending'[d] = pending[d],
         Alone(p) => Private(job, pending'[Conn[p]], decisions'),
         AuditInv'
  PROVE  PipelineInv'
<1>1. proc \in [Proposers -> Process] /\ issued \in Int /\ issued' \in Int
  <2>1. issued \in 0..MaxIds /\ issued' \in 0..MaxIds /\ MaxIds \in Nat
    BY PipelineAssumption DEF PipelineInv, DbInv, DbTyped
  <2> QED
    BY <2>1 DEF PipelineInv, ProcInv
<1>2. /\ proc' \in [Proposers -> Process] /\ proc'[p] = job
      /\ \A q \in Proposers \ {p} : proc'[q] = proc[q]
  BY <1>1
<1>3. ProcInv'
  <2>1. ASSUME NEW q \in Proposers PROVE Holds(proc[q])'
    <3>1. CASE q = p
      BY <1>2, <3>1 DEF Holds
    <3>2. CASE q # p
      <4>1. PICK j \in Process : j = proc[q] /\ j = proc'[q] /\ Holds(j)
        BY <1>1, <1>2, <3>2 DEF PipelineInv, ProcInv
      <4>2. Holds(j)'
        BY <1>1, <4>1, HoldsKept
      <4> QED
        BY <4>1, <4>2 DEF Holds
    <3> QED
      BY <3>1, <3>2
  <2> QED
    BY <1>2, <2>1 DEF ProcInv
<1>4. PrivateInv'
  <2>1. SUFFICES ASSUME NEW q \in Proposers, Alone(q)
                 PROVE  Private(proc'[q], pending'[Conn[q]], decisions')
    BY DEF PrivateInv, Alone
  <2>2. CASE q = p
    BY <1>2, <2>1, <2>2
  <2>3. CASE q # p
    <3>1. Conn[q] # Conn[p] /\ Conn[q] \in Connections
      BY <2>1, <2>3, PipelineAssumption DEF Alone
    <3>2. Private(proc[q], pending[Conn[q]], decisions)
      BY <2>1 DEF PipelineInv, PrivateInv
    <3>3. pending'[Conn[q]] = pending[Conn[q]] /\ proc'[q] = proc[q]
      BY <1>2, <2>3, <3>1
    <3>4. Private(proc[q], pending[Conn[q]], decisions')
      BY <3>2 DEF Private
    <3> QED
      BY <3>3, <3>4
  <2> QED
    BY <2>2, <2>3
<1> QED
  BY <1>3, <1>4 DEF PipelineInv

(* A job that is over, and what it answers.                                *)
LEMMA IdleIsProcess ==
  /\ Idle \in Process /\ Idle.pc = "idle" /\ Idle.id = 0
  /\ \A id \in 0..MaxIds : /\ [Idle EXCEPT !.id = id] \in Process
                           /\ [Idle EXCEPT !.id = id].pc = "idle"
                           /\ [Idle EXCEPT !.id = id].id = id
<1>1. 0 \in 0..MaxIds
  BY PipelineAssumption
<1>2. Idle \in Process /\ Idle.pc = "idle" /\ Idle.id = 0
  BY <1>1 DEF Idle, Process
<1>3. ASSUME NEW id \in 0..MaxIds
      PROVE  /\ [Idle EXCEPT !.id = id] \in Process
             /\ [Idle EXCEPT !.id = id].pc = "idle"
             /\ [Idle EXCEPT !.id = id].id = id
  BY <1>2 DEF Process
<1> QED
  BY <1>2, <1>3

LEMMA JobTyped ==
  ASSUME PipelineInv, NEW p \in Proposers
  PROVE  /\ proc[p] \in Process /\ Holds(proc[p])
         /\ Conn[p] \in Connections
         /\ Alone(p) => Private(proc[p], pending[Conn[p]], decisions)
BY PipelineAssumption DEF PipelineInv, ProcInv, PrivateInv

LEMMA PendingTyped ==
  ASSUME PipelineInv, NEW c \in Connections
  PROVE  /\ pending \in [Connections -> Transaction]
         /\ pending[c] \in Transaction
         /\ pending[c].rows \subseteq Row
         /\ pending[c].decisions \subseteq DecisionRow
         /\ config' = config /\ issued' = issued => issued <= issued'
<1>1. DbTyped
  BY DEF PipelineInv, DbInv
<1> QED
  BY <1>1, DbInts DEF DbTyped, Transaction

(* run and busy, and any other step that leaves the database alone.        *)
LEMMA LocalStep ==
  ASSUME PipelineInv, NEW p \in Proposers, NEW job \in Process,
         proc' = [proc EXCEPT ![p] = job], Holds(job)',
         UNCHANGED <<rows, decisions, pending, issued, published, today, config>>,
         Alone(p) => Private(job, pending[Conn[p]], decisions)
  PROVE  PipelineInv'
<1>1. DbInv'
  <2>1. published' \in SUBSET DecisionRow /\ today' \in 0..MaxDays /\ today <= today'
    BY DbInts DEF PipelineInv, DbInv, DbTyped
  <2> QED
    BY <2>1, SameDb DEF PipelineInv
<1>2. AuditInv'
  BY DEF PipelineInv, AuditInv, Alone
<1>3. issued <= issued'
  BY DbInts DEF PipelineInv, DbInv
<1> QED
  BY <1>1, <1>2, <1>3, StepKeeps

LEMMA RunKeeps ==
  ASSUME PipelineInv, NEW p \in Proposers, NEW r \in Readings, run(p, r)
  PROVE  PipelineInv'
<1>1. PICK job : job = [Idle EXCEPT !.pc = "guards", !.reading = r, !.spent = Committed(Conn[p])]
  OBVIOUS
<1>2. /\ Committed(Conn[p]) \in Int
      /\ config.policy_engine => Committed(Conn[p]) >= 0
  BY JobTyped, CommittedSum DEF PipelineInv
<1>3. /\ job.pc = "guards" /\ job.reading = r /\ job.spent = Committed(Conn[p])
      /\ job.id = 0 /\ job \in Process
  <2>1. job \in Process
    BY <1>1, <1>2, IdleIsProcess, Zenon DEF Process
  <2>2. Idle \in Process /\ Idle.id = 0
    BY IdleIsProcess
  <2>3. job.pc = "guards" /\ job.reading = r /\ job.spent = Committed(Conn[p]) /\ job.id = Idle.id
    BY <1>1, <2>2, Zenon DEF Process
  <2> QED
    BY <2>1, <2>2, <2>3
<1>4. Holds(job)'
  BY <1>2, <1>3 DEF Holds, run
<1>5. Alone(p) => Private(job, pending[Conn[p]], decisions)
  <2>1. proc[p].pc = "idle"
    BY DEF run, At
  <2> QED
    BY <1>3, <2>1, JobTyped DEF Private
<1> QED
  BY <1>1, <1>3, <1>4, <1>5, LocalStep DEF run

LEMMA BusyKeeps ==
  ASSUME PipelineInv, NEW p \in Proposers, busy(p)
  PROVE  PipelineInv'
<1>1. proc[p].pc \in {"trip", "record", "emit"}
  BY DEF busy
<1>2. Holds(Idle)'
  BY IdleIsProcess DEF Holds
<1>3. Alone(p) => Private(Idle, pending[Conn[p]], decisions)
  BY <1>1, JobTyped, IdleIsProcess DEF Private
<1> QED
  BY <1>2, <1>3, IdleIsProcess, LocalStep DEF busy, Finish

LEMMA RunGuardsKeeps ==
  ASSUME PipelineInv, NEW p \in Proposers, run_guards(p)
  PROVE  PipelineInv'
<1> DEFINE r == proc[p].reading
           known == Known(Conn[p])
           decision == Verdict(r, proc[p].spent, known)
           tripped == Refusing(r, proc[p].spent, known) \cup Holding(r)
           blocked == {e \in {"injection.blocked"} : "Injection" \in tripped}
<1>1. proc[p].pc = "guards" /\ proc[p] \in Process /\ Holds(proc[p])
  BY JobTyped DEF run_guards, At
<1>2. r \in Readings /\ proc[p].spent \in Int /\ proc[p].id = 0
  BY <1>1 DEF Holds, Process
<1>3. /\ decision \in {"refused", "proposed", "held"}
      /\ decision # "refused" => Judged(r, decision)
  <2>1. config.policy_engine => proc[p].spent >= 0
    BY <1>1 DEF Holds
  <2> QED
    BY <1>2, <2>1, VerdictJudged
<1>4. tripped \cup blocked \in SUBSET (Guards \cup {"injection.blocked"})
  BY DEF Refusing, Holding, Guards
<1>u. UNCHANGED <<rows, decisions, pending, issued, published, today, config>>
  BY DEF run_guards
<1>p. Alone(p) => pending[Conn[p]] = Nothing
  BY <1>1, JobTyped DEF Private
<1>5. \/ proc' = [proc EXCEPT ![p] = [proc[p] EXCEPT !.pc = "trip", !.spent = 0,
                                        !.decision = decision, !.todo = tripped \cup blocked]]
      \/ proc' = [proc EXCEPT ![p] = Idle]
      \/ proc' = [proc EXCEPT ![p] = [proc[p] EXCEPT !.pc = "record", !.spent = 0,
                                        !.decision = decision]]
  BY DEF run_guards, Finish
<1> HIDE DEF r, decision, tripped, blocked
<1>6. CASE proc' = [proc EXCEPT ![p] = [proc[p] EXCEPT !.pc = "trip", !.spent = 0,
                                        !.decision = decision, !.todo = tripped \cup blocked]]
  <2>1. PICK job : job = [proc[p] EXCEPT !.pc = "trip", !.spent = 0,
                             !.decision = decision, !.todo = tripped \cup blocked]
    OBVIOUS
  <2>2. /\ job \in Process /\ job.pc = "trip" /\ job.id = 0
        /\ job.reading = r /\ job.decision = decision
    <3>1. 0 \in Int
      OBVIOUS
    <3>2. job \in Process
      BY <1>1, <1>3, <1>4, <2>1, <3>1, Zenon DEF Process
    <3>3. job.pc = "trip" /\ job.id = proc[p].id /\ job.reading = proc[p].reading
      BY <1>1, <2>1, <3>2 DEF Process
    <3>4. job.decision = decision
      BY <1>1, <2>1, <3>2 DEF Process
    <3> QED
      BY <1>2, <3>2, <3>3, <3>4 DEF r
  <2>3. Holds(job)'
    BY <1>2, <1>3, <1>u, <2>2, GuardsFixed DEF Holds, Judged
  <2>4. Alone(p) => Private(job, pending[Conn[p]], decisions)
    BY <1>p, <2>2 DEF Private
  <2> QED
    BY <1>6, <1>u, <2>1, <2>2, <2>3, <2>4, LocalStep
<1>7. CASE proc' = [proc EXCEPT ![p] = Idle]
  <2>1. Holds(Idle)'
    BY IdleIsProcess DEF Holds
  <2>2. Alone(p) => Private(Idle, pending[Conn[p]], decisions)
    BY <1>p, IdleIsProcess DEF Private
  <2> QED
    BY <1>7, <1>u, <2>1, <2>2, IdleIsProcess, LocalStep
<1>8. CASE proc' = [proc EXCEPT ![p] = [proc[p] EXCEPT !.pc = "record", !.spent = 0,
                                        !.decision = decision]]
  <2>1. PICK job : job = [proc[p] EXCEPT !.pc = "record", !.spent = 0, !.decision = decision]
    OBVIOUS
  <2>2. /\ job \in Process /\ job.pc = "record" /\ job.id = 0
        /\ job.reading = r /\ job.decision = decision
    <3>1. 0 \in Int
      OBVIOUS
    <3>2. job \in Process
      BY <1>1, <1>3, <2>1, <3>1, Zenon DEF Process
    <3>3. job.pc = "record" /\ job.id = proc[p].id /\ job.reading = proc[p].reading
      BY <1>1, <2>1, <3>2 DEF Process
    <3>4. job.decision = decision
      BY <1>1, <2>1, <3>2 DEF Process
    <3> QED
      BY <1>2, <3>2, <3>3, <3>4 DEF r
  <2>3. Holds(job)'
    BY <1>2, <1>3, <1>u, <2>2, GuardsFixed DEF Holds, Judged
  <2>4. Alone(p) => Private(job, pending[Conn[p]], decisions)
    BY <1>p, <2>2 DEF Private
  <2> QED
    BY <1>8, <1>u, <2>1, <2>2, <2>3, <2>4, LocalStep
<1> QED
  BY <1>5, <1>6, <1>7, <1>8

(* Any step that commits what is open on the connection of p.              *)
LEMMA CommitStep ==
  ASSUME PipelineInv, NEW p \in Proposers, NEW job \in Process,
         proc' = [proc EXCEPT ![p] = job], Holds(job)', proc[p].pc # "decision",
         CommitAll(Conn[p]), UNCHANGED <<issued, today, config>>,
         published' \in SUBSET DecisionRow,
         (\A q \in Proposers : Alone(q)) => published' \subseteq decisions',
         Alone(p) => Private(job, Nothing, decisions')
  PROVE  PipelineInv'
<1>1. Conn[p] \in Connections
  BY JobTyped
<1>2. DbInv'
  BY <1>1, CommitKeepsDb DEF PipelineInv
<1>3. AuditInv'
  BY CommitIsAudited DEF PipelineInv
<1>4. issued <= issued' /\ decisions \subseteq decisions'
  BY DbInts DEF PipelineInv, DbInv, CommitAll
<1>5. /\ pending'[Conn[p]] = Nothing
      /\ \A d \in Connections \ {Conn[p]} : pending'[d] = pending[d]
  BY <1>1, TransactionEnds DEF PipelineInv, DbInv, CommitAll
<1> QED
  BY <1>2, <1>3, <1>4, <1>5, StepKeeps

LEMMA GuardTrippedKeeps ==
  ASSUME PipelineInv, NEW p \in Proposers, guard_tripped(p)
  PROVE  PipelineInv'
<1> DEFINE left == proc[p].todo \ {CHOOSE e \in proc[p].todo : TRUE}
<1>1. proc[p].pc = "trip" /\ proc[p] \in Process /\ Holds(proc[p])
  BY JobTyped DEF guard_tripped, At
<1>u. /\ CommitAll(Conn[p])
      /\ UNCHANGED <<issued, published, today, config>>
      /\ published' \in SUBSET DecisionRow
      /\ (\A q \in Proposers : Alone(q)) => published' \subseteq decisions'
  BY DEF guard_tripped, PipelineInv, DbInv, DbTyped, AuditInv, CommitAll
<1>2. \/ proc' = [proc EXCEPT ![p] = Idle]
      \/ proc' = [proc EXCEPT ![p] = [proc[p] EXCEPT !.todo = left]]
      \/ proc' = [proc EXCEPT ![p] = [proc[p] EXCEPT !.pc = "record", !.todo = {}]]
  BY DEF guard_tripped, Finish
<1>3. left \in SUBSET (Guards \cup {"injection.blocked"}) /\ {} \in SUBSET (Guards \cup {"injection.blocked"})
  BY <1>1 DEF Process
<1> HIDE DEF left
<1>4. CASE proc' = [proc EXCEPT ![p] = Idle]
  <2>1. Holds(Idle)'
    BY IdleIsProcess DEF Holds
  <2>2. Private(Idle, Nothing, decisions')
    BY IdleIsProcess DEF Private
  <2> QED
    BY <1>1, <1>4, <1>u, <2>1, <2>2, IdleIsProcess, CommitStep
<1>5. ASSUME NEW job \in Process, proc' = [proc EXCEPT ![p] = job],
             job.pc \in {"trip", "record"}, job.id = proc[p].id,
             job.reading = proc[p].reading, job.decision = proc[p].decision
      PROVE  PipelineInv'
  <2>1. Holds(job)'
    BY <1>1, <1>5, <1>u, GuardsFixed DEF Holds, Judged
  <2>2. Private(job, Nothing, decisions')
    BY <1>5 DEF Private, Nothing
  <2> QED
    BY <1>1, <1>5, <1>u, <2>1, <2>2, CommitStep
<1>6. CASE proc' = [proc EXCEPT ![p] = [proc[p] EXCEPT !.todo = left]]
  <2>1. PICK job : job = [proc[p] EXCEPT !.todo = left]
    OBVIOUS
  <2>2. job \in Process
    BY <1>1, <1>3, <2>1, Zenon DEF Process
  <2>3. /\ job.pc = proc[p].pc /\ job.id = proc[p].id
        /\ job.reading = proc[p].reading /\ job.decision = proc[p].decision
    BY <1>1, <2>1, <2>2 DEF Process
  <2> QED
    BY <1>1, <1>5, <1>6, <2>1, <2>2, <2>3
<1>7. CASE proc' = [proc EXCEPT ![p] = [proc[p] EXCEPT !.pc = "record", !.todo = {}]]
  <2>1. PICK job : job = [proc[p] EXCEPT !.pc = "record", !.todo = {}]
    OBVIOUS
  <2>2. job \in Process
    BY <1>1, <1>3, <2>1, Zenon DEF Process
  <2>3. /\ job.pc = "record" /\ job.id = proc[p].id
        /\ job.reading = proc[p].reading /\ job.decision = proc[p].decision
    BY <1>1, <2>1, <2>2 DEF Process
  <2> QED
    BY <1>5, <1>7, <2>1, <2>2, <2>3
<1> QED
  BY <1>2, <1>4, <1>6, <1>7

LEMMA CommitKeeps ==
  ASSUME PipelineInv, NEW p \in Proposers, commit(p)
  PROVE  PipelineInv'
<1>1. proc[p].pc = "commit" /\ proc[p] \in Process /\ Holds(proc[p])
  BY JobTyped DEF commit, At
<1>u. /\ CommitAll(Conn[p])
      /\ UNCHANGED <<issued, published, today, config>>
      /\ published' \in SUBSET DecisionRow
      /\ (\A q \in Proposers : Alone(q)) => published' \subseteq decisions'
  BY DEF commit, PipelineInv, DbInv, DbTyped, AuditInv, CommitAll
<1>2. PICK job : job = [proc[p] EXCEPT !.pc = "emit"]
  OBVIOUS
<1>3. proc' = [proc EXCEPT ![p] = job]
  BY <1>2 DEF commit, Goto
<1>4. job \in Process
  BY <1>1, <1>2, Zenon DEF Process
<1>5. job.pc = "emit" /\ job.id = proc[p].id /\ job.decision = proc[p].decision
  BY <1>1, <1>2, <1>4 DEF Process
<1>6. Holds(job)'
  BY <1>1, <1>5, <1>u DEF Holds
<1>7. Alone(p) => Private(job, Nothing, decisions')
  <2>1. Alone(p) => [id |-> proc[p].id, decision |-> proc[p].decision] \in pending[Conn[p]].decisions
    BY <1>1, JobTyped DEF Private
  <2> QED
    BY <1>5, <1>u, <2>1 DEF Private, CommitAll
<1> QED
  BY <1>1, <1>3, <1>4, <1>6, <1>7, <1>u, CommitStep

LEMMA EmitKeeps ==
  ASSUME PipelineInv, NEW p \in Proposers, emit(p)
  PROVE  PipelineInv'
<1> DEFINE d == [id |-> proc[p].id, decision |-> proc[p].decision]
<1>1. proc[p].pc = "emit" /\ proc[p] \in Process /\ Holds(proc[p])
  BY JobTyped DEF emit, At
<1>2. d \in DecisionRow
  BY <1>1 DEF Holds
<1>3. Alone(p) => d \in decisions /\ pending[Conn[p]] = Nothing
  BY <1>1, JobTyped DEF Private
<1>4. PICK job \in Process : /\ proc' = [proc EXCEPT ![p] = job] /\ job.pc = "idle"
                             /\ job.id # 0 => job.id = proc[p].id
  <2>1. CASE Finish(p)
    BY <2>1, IdleIsProcess DEF Finish
  <2>2. CASE Answer(p)
    <3>1. proc[p].id \in 0..MaxIds
      BY <1>1 DEF Process
    <3> QED
      BY <2>2, <3>1, IdleIsProcess DEF Answer
  <2> QED
    BY <2>1, <2>2 DEF emit
<1>5. Holds(job)'
  BY <1>4 DEF Holds
<1>6. ASSUME NEW done, d \in done PROVE Private(job, Nothing, done)
  BY <1>4, <1>6 DEF Private
<1> HIDE DEF d
<1>7. CASE config.monitoring
  <2>1. /\ CommitAll(Conn[p]) /\ UNCHANGED <<issued, today, config>>
        /\ published' = published \cup {d}
    BY <1>7 DEF emit, Decision, d
  <2>2. published' \in SUBSET DecisionRow
    BY <1>2, <2>1 DEF PipelineInv, DbInv, DbTyped
  <2>3. decisions \subseteq decisions'
    BY <2>1 DEF CommitAll
  <2>4. (\A q \in Proposers : Alone(q)) => published' \subseteq decisions'
    BY <1>3, <2>1, <2>3 DEF PipelineInv, AuditInv
  <2>5. Alone(p) => Private(job, Nothing, decisions')
    BY <1>3, <1>6, <2>3
  <2> QED
    BY <1>1, <1>4, <1>5, <2>1, <2>2, <2>4, <2>5, CommitStep
<1>8. CASE ~config.monitoring
  <2>1. UNCHANGED <<rows, decisions, pending, issued, published, today, config>>
    BY <1>8 DEF emit
  <2> QED
    BY <1>3, <1>4, <1>5, <1>6, <2>1, LocalStep
<1> QED
  BY <1>7, <1>8

(* A `with self.conn' block that raises.                                   *)
LEMMA RollbackStep ==
  ASSUME PipelineInv, NEW p \in Proposers, Rollback(Conn[p]), Finish(p),
         UNCHANGED <<issued, published, today, config>>
  PROVE  PipelineInv'
<1>1. Conn[p] \in Connections
  BY JobTyped
<1>2. DbInv'
  BY <1>1, RollbackKeepsDb DEF PipelineInv
<1>3. AuditInv'
  BY DEF PipelineInv, AuditInv, Rollback, Alone
<1>4. issued <= issued' /\ decisions \subseteq decisions'
  BY DbInts DEF PipelineInv, DbInv, Rollback
<1>5. /\ pending'[Conn[p]] = Nothing
      /\ \A d \in Connections \ {Conn[p]} : pending'[d] = pending[d]
  BY <1>1, TransactionEnds DEF PipelineInv, DbInv, Rollback
<1>6. Holds(Idle)' /\ Private(Idle, Nothing, decisions')
  BY IdleIsProcess DEF Holds, Private
<1> QED
  BY <1>2, <1>3, <1>4, <1>5, <1>6, IdleIsProcess, StepKeeps DEF Finish

LEMMA InsertIntentKeeps ==
  ASSUME PipelineInv, NEW p \in Proposers, insert_intent(p)
  PROVE  PipelineInv'
<1> DEFINE c == Conn[p]
<1>1. /\ proc[p].pc = "record" /\ proc[p] \in Process /\ Holds(proc[p])
      /\ c \in Connections /\ CanWrite(c) /\ proc[p].decision # "refused"
      /\ UNCHANGED <<published, today, config>>
  BY JobTyped DEF insert_intent, At
<1>2. CASE proc[p].reading.hash \in Known(c)
  BY <1>1, <1>2, RollbackStep DEF insert_intent
<1>3. CASE proc[p].reading.hash \notin Known(c)
  <2>1. /\ issued < MaxIds /\ issued' = issued + 1
        /\ pending' = [pending EXCEPT ![c].rows = @ \cup {NewRow(p)}]
        /\ proc' = [proc EXCEPT ![p].pc = "decision", ![p].id = issued + 1,
                                ![p].reading = NoReading]
        /\ UNCHANGED <<rows, decisions, published, today, config>>
    BY <1>1, <1>3 DEF insert_intent
  <2>2. /\ proc[p].reading \in Readings /\ proc[p].decision \in {"proposed", "held"}
        /\ Judged(proc[p].reading, proc[p].decision)
    BY <1>1 DEF Holds
  <2>3. /\ issued \in Int /\ issued \in 0..MaxIds /\ today \in 0..MaxDays
        /\ issued + 1 \in 1..MaxIds /\ issued + 1 \in 0..MaxIds /\ issued + 1 # 0
        /\ issued <= issued' /\ issued' \in Int
    <3>1. issued \in 0..MaxIds /\ today \in 0..MaxDays /\ MaxIds \in Nat
      BY PipelineAssumption DEF PipelineInv, DbInv, DbTyped
    <3> QED
      BY <2>1, <3>1
  <2>4. PICK n : n = NewRow(p)
    OBVIOUS
  <2>5. /\ n.id = issued + 1 /\ n.reading = proc[p].reading /\ n.status = proc[p].decision
        /\ n.day = today /\ n.final = "none"
    BY <2>4 DEF NewRow
  <2>6. n \in Row
    BY <2>2, <2>3, <2>4 DEF NewRow, Row, Status
  <2>7. DbInv'
    <3>1. /\ n.status \in {"proposed", "held"} /\ Judged(n.reading, n.status)
          /\ n.reading.hash \notin Known(c)
          /\ pending' = [pending EXCEPT ![c].rows = @ \cup {n}]
      BY <1>3, <2>1, <2>2, <2>4, <2>5
    <3> QED
      BY <1>1, <2>1, <2>5, <2>6, <3>1, InsertKeepsDb DEF PipelineInv
  <2>8. PICK job : job = [proc[p] EXCEPT !.pc = "decision", !.id = issued + 1,
                                         !.reading = NoReading]
    OBVIOUS
  <2>9. proc' = [proc EXCEPT ![p] = job]
    BY <2>1, <2>8
  <2>10. job \in Process
    BY <1>1, <2>3, <2>8, Zenon DEF Process
  <2>11. job.pc = "decision" /\ job.id = issued + 1 /\ job.decision = proc[p].decision
    BY <1>1, <2>8, <2>10 DEF Process
  <2>12. Holds(job)'
    BY <2>1, <2>2, <2>3, <2>11 DEF Holds
  <2>13. /\ \A d \in Connections \ {c} : pending'[d] = pending[d]
         /\ pending'[c].rows = pending[c].rows \cup {n}
         /\ pending'[c].decisions = pending[c].decisions
    <3>1. pending \in [Connections -> Transaction] /\ pending[c] \in Transaction
      BY <1>1, PendingTyped
    <3>2. pending'[c] = [pending[c] EXCEPT !.rows = @ \cup {n}]
      BY <1>1, <2>1, <2>4, <3>1
    <3> QED
      BY <2>1, <3>1, <3>2 DEF Transaction
  <2>14. Alone(p) => Private(job, pending'[c], decisions')
    <3>1. SUFFICES ASSUME Alone(p) PROVE Private(job, pending'[c], decisions')
      OBVIOUS
    <3>2. pending[c] = Nothing
      BY <1>1, <3>1, JobTyped DEF Private
    <3>3. pending'[c].rows = {n} /\ pending'[c].decisions = {}
      BY <2>13, <3>2 DEF Nothing
    <3> QED
      BY <2>5, <2>11, <3>3 DEF Private
  <2>15. AuditInv'
    BY <2>1 DEF PipelineInv, AuditInv, Alone
  <2> QED
    BY <1>1, <2>1, <2>3, <2>7, <2>9, <2>10, <2>12, <2>13, <2>14, <2>15, StepKeeps
<1> QED
  BY <1>2, <1>3

LEMMA InsertDecisionKeeps ==
  ASSUME PipelineInv, NEW p \in Proposers, insert_decision(p)
  PROVE  PipelineInv'
<1> DEFINE c == Conn[p]
           e == Decision(p)
<1>1. /\ proc[p] \in Process /\ Holds(proc[p])
      /\ c \in Connections /\ CanWrite(c)
      /\ UNCHANGED <<issued, published, today, config>>
  BY JobTyped DEF insert_decision
<1>2. \/ proc[p].pc = "record" /\ proc[p].decision = "refused"
      \/ proc[p].pc = "decision" /\ proc[p].decision # "refused"
  BY DEF insert_decision, At
<1>3. CASE ~(proc[p].decision = "refused" \/ proc[p].id \in Ids(Visible(c)))
  BY <1>1, <1>3, RollbackStep DEF insert_decision, Ids
<1>4. CASE proc[p].decision = "refused" \/ proc[p].id \in Ids(Visible(c))
  <2>1. /\ pending' = [pending EXCEPT ![c].decisions = @ \cup {e}]
        /\ proc' = [proc EXCEPT ![p].pc = "commit", ![p].reading = NoReading]
        /\ UNCHANGED <<rows, decisions, issued, published, today, config>>
    BY <1>1, <1>4 DEF insert_decision, Ids
  <2>2. e \in DecisionRow /\ e.id = proc[p].id /\ e.decision = proc[p].decision
    <3>1. proc[p].id \in 0..MaxIds /\ MaxIds \in Nat
      BY <1>1, PipelineAssumption DEF Process
    <3>2. e.id = proc[p].id /\ e.decision = proc[p].decision
      BY DEF Decision
    <3>3. CASE proc[p].pc = "record" /\ proc[p].decision = "refused"
      <4>1. proc[p].id = 0
        BY <1>1, <3>3 DEF Holds
      <4>2. e \in [id : {0}, decision : {"refused"}]
        BY <3>3, <4>1 DEF Decision
      <4> QED
        BY <3>2, <4>2 DEF DecisionRow
    <3>4. CASE proc[p].pc = "decision"
      <4>1. proc[p].id # 0 /\ proc[p].decision \in {"proposed", "held"}
        BY <1>1, <3>4 DEF Holds
      <4>2. proc[p].id \in 1..MaxIds
        BY <3>1, <4>1
      <4>3. e \in [id : 1..MaxIds, decision : {"proposed", "held"}]
        BY <4>1, <4>2 DEF Decision
      <4> QED
        BY <3>2, <4>3 DEF DecisionRow
    <3> QED
      BY <1>2, <3>3, <3>4
  <2>3. PICK d \in DecisionRow : d = e
    BY <2>2
  <2>4. DbInv'
    <3>1. /\ d.decision = "refused" \/ d.id \in Ids(Visible(c))
          /\ pending' = [pending EXCEPT ![c].decisions = @ \cup {d}]
      BY <1>4, <2>1, <2>2, <2>3
    <3> QED
      BY <1>1, <2>1, <3>1, DecideKeepsDb DEF PipelineInv
  <2>5. PICK job : job = [proc[p] EXCEPT !.pc = "commit", !.reading = NoReading]
    OBVIOUS
  <2>6. proc' = [proc EXCEPT ![p] = job]
    BY <2>1, <2>5
  <2>7. job \in Process
    BY <1>1, <2>5, Zenon DEF Process
  <2>8. job.pc = "commit" /\ job.id = proc[p].id /\ job.decision = proc[p].decision
    BY <1>1, <2>5, <2>7 DEF Process
  <2>9. d = [id |-> job.id, decision |-> job.decision]
    BY <2>3, <2>8 DEF Decision
  <2>10. Holds(job)'
    <3>1. job.id <= issued
      <4>1. issued \in 0..MaxIds /\ MaxIds \in Nat
        BY PipelineAssumption DEF PipelineInv, DbInv, DbTyped
      <4> QED
        BY <1>1, <1>2, <2>8, <4>1 DEF Holds
    <3> QED
      BY <2>1, <2>8, <2>9, <3>1 DEF Holds
  <2>11. /\ \A f \in Connections \ {c} : pending'[f] = pending[f]
         /\ pending'[c].rows = pending[c].rows
         /\ pending'[c].decisions = pending[c].decisions \cup {d}
    <3>1. pending \in [Connections -> Transaction] /\ pending[c] \in Transaction
      BY <1>1, PendingTyped
    <3>2. pending'[c] = [pending[c] EXCEPT !.decisions = @ \cup {d}]
      BY <1>1, <2>1, <2>3, <3>1
    <3> QED
      BY <2>1, <3>1, <3>2 DEF Transaction
  <2>12. Alone(p) => Private(job, pending'[c], decisions')
    <3>1. SUFFICES ASSUME Alone(p) PROVE Private(job, pending'[c], decisions')
      OBVIOUS
    <3>2. Private(proc[p], pending[c], decisions)
      BY <3>1, JobTyped
    <3>3. \A r \in pending[c].rows : r.id = proc[p].id /\ r.status = proc[p].decision
      BY <1>2, <3>2 DEF Private, Nothing
    <3>4. /\ \A r \in pending'[c].rows : r.id = job.id /\ r.status = job.decision
          /\ [id |-> job.id, decision |-> job.decision] \in pending'[c].decisions
      BY <2>8, <2>9, <2>11, <3>3
    <3> QED
      BY <2>8, <3>4 DEF Private
  <2>13. AuditInv'
    BY <2>1 DEF PipelineInv, AuditInv, Alone
  <2>14. issued <= issued' /\ decisions \subseteq decisions'
    BY <2>1, DbInts DEF PipelineInv, DbInv
  <2> QED
    BY <2>1, <2>4, <2>6, <2>7, <2>10, <2>11, <2>12, <2>13, <2>14, StepKeeps
<1> QED
  BY <1>3, <1>4

LEMMA CrashKeeps ==
  ASSUME PipelineInv, NEW c \in Connections, crash(c)
  PROVE  PipelineInv'
<1>1. /\ proc' = [p \in Proposers |-> IF Conn[p] = c THEN Idle ELSE proc[p]]
      /\ Rollback(c) /\ UNCHANGED <<issued, published, today, config>>
  BY DEF crash
<1>2. DbInv'
  BY <1>1, RollbackKeepsDb DEF PipelineInv
<1>3. AuditInv'
  BY <1>1 DEF PipelineInv, AuditInv, Rollback, Alone
<1>4. /\ pending'[c] = Nothing /\ decisions' = decisions
      /\ \A d \in Connections \ {c} : pending'[d] = pending[d]
  BY <1>1, TransactionEnds DEF PipelineInv, DbInv, Rollback
<1>5. ASSUME NEW p \in Proposers
      PROVE  /\ proc'[p] \in Process /\ Holds(proc[p])'
             /\ Alone(p) => Private(proc'[p], pending'[Conn[p]], decisions')
  <2>1. CASE Conn[p] = c
    <3>1. proc'[p] = Idle
      BY <1>1, <2>1
    <3>2. Holds(proc[p])'
      BY <3>1, IdleIsProcess DEF Holds
    <3>3. Private(Idle, Nothing, decisions')
      BY IdleIsProcess DEF Private
    <3> QED
      BY <1>4, <2>1, <3>1, <3>2, <3>3, IdleIsProcess
  <2>2. CASE Conn[p] # c
    <3>1. PICK job \in Process : job = proc[p] /\ job = proc'[p] /\ Holds(job)
      BY <1>1, <2>2, JobTyped
    <3>2. issued \in Int /\ issued' \in Int /\ issued <= issued'
      BY <1>1, DbInts DEF PipelineInv, DbInv
    <3>3. Holds(job)'
      BY <1>1, <3>1, <3>2, HoldsKept
    <3>4. Holds(proc[p])'
      BY <3>1, <3>3 DEF Holds
    <3>5. pending'[Conn[p]] = pending[Conn[p]]
      BY <1>4, <2>2, JobTyped
    <3> QED
      BY <1>4, <3>1, <3>4, <3>5, JobTyped
  <2> QED
    BY <2>1, <2>2
<1>6. ProcInv'
  BY <1>1, <1>5 DEF ProcInv
<1>7. PrivateInv'
  BY <1>5 DEF PrivateInv, Alone
<1> QED
  BY <1>2, <1>3, <1>6, <1>7 DEF PipelineInv

LEMMA OthersKeep ==
  ASSUME PipelineInv, UNCHANGED <<decisions, pending, issued, published, config, proc>>,
         DbInv',
         \A r \in rows' : \E s \in rows :
           s.id = r.id /\ (s.status = "held" <=> r.status = "held")
  PROVE  PipelineInv'
<1>1. issued \in Int
  BY DbInts DEF PipelineInv, DbInv
<1>2. ASSUME NEW p \in Proposers PROVE Holds(proc[p])'
  <2>1. PICK job \in Process : job = proc[p] /\ job = proc'[p] /\ Holds(job)
    BY JobTyped
  <2>2. Holds(job)'
    BY <1>1, <2>1, HoldsKept
  <2> QED
    BY <2>1, <2>2 DEF Holds
<1>3. ProcInv'
  BY <1>2 DEF PipelineInv, ProcInv
<1>4. PrivateInv'
  BY DEF PipelineInv, PrivateInv, Alone
<1>5. AuditInv'
  <2>1. SUFFICES ASSUME \A p \in Proposers : Alone(p)
                 PROVE  (\A r \in rows' : Paired(r, decisions)) /\ published \subseteq decisions
    BY DEF AuditInv, Alone
  <2>2. published \subseteq decisions /\ \A s \in rows : Paired(s, decisions)
    BY <2>1 DEF PipelineInv, AuditInv
  <2>3. ASSUME NEW r \in rows' PROVE Paired(r, decisions)
    <3>1. PICK s \in rows : s.id = r.id /\ (s.status = "held" <=> r.status = "held")
      OBVIOUS
    <3> QED
      BY <2>2, <3>1 DEF Paired
  <2> QED
    BY <2>2, <2>3
<1> QED
  BY <1>3, <1>4, <1>5 DEF PipelineInv

LEMMA ProgressKeeps ==
  ASSUME PipelineInv, NEW r \in rows, Progress(r)
  PROVE  PipelineInv'
<1>1. DbInv'
  BY ProgressKeepsDb DEF PipelineInv
<1>2. PICK n \in Row : /\ rows' = (rows \ {r}) \cup {n} /\ n.id = r.id
                       /\ r.status # "held" /\ n.status # "held"
  <2>1. DbTyped /\ Sound(r)
    BY DEF PipelineInv, DbInv, DbSound
  <2> QED
    BY <2>1, ProgressMoves
<1>3. \A s \in rows' : \E t \in rows :
        t.id = s.id /\ (t.status = "held" <=> s.status = "held")
  BY <1>2
<1> QED
  BY <1>1, <1>3, OthersKeep DEF Progress

LEMMA MidnightKeeps ==
  ASSUME PipelineInv, Midnight
  PROVE  PipelineInv'
<1>1. DbInv'
  <2>1. today \in 0..MaxDays /\ MaxDays \in Nat /\ published \in SUBSET DecisionRow
    BY PipelineAssumption DEF PipelineInv, DbInv, DbTyped
  <2>2. today' \in 0..MaxDays /\ today <= today'
    BY <2>1 DEF Midnight
  <2> QED
    BY <2>1, <2>2, SameDb DEF PipelineInv, Midnight
<1> QED
  BY <1>1, OthersKeep DEF Midnight

LEMMA StutterKeeps ==
  ASSUME PipelineInv, UNCHANGED pipelineVars
  PROVE  PipelineInv'
<1>1. DbInv'
  <2>1. published' \in SUBSET DecisionRow /\ today' \in 0..MaxDays /\ today <= today'
    BY DbInts DEF PipelineInv, DbInv, DbTyped, pipelineVars
  <2> QED
    BY <2>1, SameDb DEF PipelineInv, pipelineVars
<1> QED
  BY <1>1, OthersKeep DEF pipelineVars

-----------------------------------------------------------------------------
(***************************************************************************)
(* The theorems.                                                           *)
(***************************************************************************)

(* The inductive invariant holds of every run of the pipeline.             *)
THEOREM PipelineInvariant == PipelineSpec => []PipelineInv
<1>1. PipelineInit => PipelineInv
  <2> SUFFICES ASSUME PipelineInit PROVE PipelineInv
    OBVIOUS
  <2> USE DEF PipelineInit
  <2>1. Nothing \in Transaction /\ Nothing.rows = {} /\ Nothing.decisions = {}
    BY DEF Nothing, Transaction
  <2>2. pending \in [Connections -> Transaction] /\ \A c \in Connections : pending[c] = Nothing
    BY <2>1
  <2>3. DbTyped
    BY <2>2, PipelineAssumption DEF DbTyped
  <2>4. DbSound
    BY <2>1, <2>2, FS_EmptySet DEF DbSound
  <2>5. OneWriter /\ DbUnique /\ References
    BY <2>1, <2>2 DEF OneWriter, DbUnique, DistinctHashes, References
  <2>6. ProcInv
    BY IdleIsProcess DEF ProcInv, Holds
  <2>7. PrivateInv
    BY <2>2, IdleIsProcess, PipelineAssumption DEF PrivateInv, Private
  <2>8. AuditInv
    BY DEF AuditInv
  <2> QED
    BY <2>3, <2>4, <2>5, <2>6, <2>7, <2>8 DEF PipelineInv, DbInv
<1>2. PipelineInv /\ [PipelineNext]_pipelineVars => PipelineInv'
  <2> SUFFICES ASSUME PipelineInv, [PipelineNext]_pipelineVars PROVE PipelineInv'
    OBVIOUS
  <2>1. ASSUME NEW p \in Proposers, NEW r \in Readings, run(p, r) PROVE PipelineInv'
    BY <2>1, RunKeeps
  <2>2. ASSUME NEW p \in Proposers, run_guards(p) PROVE PipelineInv'
    BY <2>2, RunGuardsKeeps
  <2>3. ASSUME NEW p \in Proposers, guard_tripped(p) PROVE PipelineInv'
    BY <2>3, GuardTrippedKeeps
  <2>4. ASSUME NEW p \in Proposers, insert_intent(p) PROVE PipelineInv'
    BY <2>4, InsertIntentKeeps
  <2>5. ASSUME NEW p \in Proposers, insert_decision(p) PROVE PipelineInv'
    BY <2>5, InsertDecisionKeeps
  <2>6. ASSUME NEW p \in Proposers, commit(p) PROVE PipelineInv'
    BY <2>6, CommitKeeps
  <2>7. ASSUME NEW p \in Proposers, emit(p) PROVE PipelineInv'
    BY <2>7, EmitKeeps
  <2>8. ASSUME NEW p \in Proposers, busy(p) PROVE PipelineInv'
    BY <2>8, BusyKeeps
  <2>9. ASSUME NEW c \in Connections, crash(c) PROVE PipelineInv'
    BY <2>9, CrashKeeps
  <2>10. ASSUME NEW r \in rows, Progress(r) PROVE PipelineInv'
    BY <2>10, ProgressKeeps
  <2>11. CASE Midnight
    BY <2>11, MidnightKeeps
  <2>12. CASE UNCHANGED pipelineVars
    BY <2>12, StutterKeeps
  <2> QED
    BY <2>1, <2>2, <2>3, <2>4, <2>5, <2>6, <2>7, <2>8, <2>9, <2>10, <2>11, <2>12
       DEF PipelineNext
<1> QED
  BY <1>1, <1>2, PTL DEF PipelineSpec

(* Type correctness.                                                       *)
THEOREM PipelineTyped == PipelineSpec => []PipelineTypeOK
<1>1. PipelineInv => PipelineTypeOK
  BY DEF PipelineInv, DbInv, DbTyped, Transaction, PipelineTypeOK
<1> QED
  BY <1>1, PipelineInvariant, PTL

(* However proposals overlap, crash or share a connection, no two intents  *)
(* in the table come from the same request.                                *)
THEOREM PipelineOneIntent == PipelineSpec => []OneIntentPerRequest
<1>1. PipelineInv => OneIntentPerRequest
  BY DEF PipelineInv, DbInv, DbUnique, DistinctHashes, OneIntentPerRequest
<1> QED
  BY <1>1, PipelineInvariant, PTL

(* With unshared connections every intent has its decision, of the same    *)
(* verdict; and, shared or not, every decision has its intent.             *)
THEOREM PipelineAudited == PipelineSpec => []Audited
<1>1. PipelineInv => Audited
  BY DEF PipelineInv, DbInv, References, AuditInv, Paired, Ids, Audited
<1> QED
  BY <1>1, PipelineInvariant, PTL

(* The intent_id a proposer answers, on a connection of its own, has its   *)
(* decision in the database.                                               *)
THEOREM PipelineAnswerStored == PipelineSpec => []AnswerStored
<1>1. PipelineInv => AnswerStored
  BY DEF PipelineInv, PrivateInv, Private, AnswerStored, Stored, Answered, At
<1> QED
  BY <1>1, PipelineInvariant, PTL

(* With unshared connections nobody hears of a decision before it is       *)
(* committed.                                                              *)
THEOREM PipelinePublished == PipelineSpec => []PublishedIsCommitted
<1>1. PipelineInv => PublishedIsCommitted
  BY DEF PipelineInv, AuditInv, PublishedIsCommitted
<1> QED
  BY <1>1, PipelineInvariant, PTL

(* No intent of a reading an enabled guard refuses, and none that needs a  *)
(* human's token is anything but held, through every later step of the     *)
(* money flow.                                                             *)
THEOREM PipelineOnlyClean == PipelineSpec => []OnlyCleanIntents
<1>1. PipelineInv => OnlyCleanIntents
  <2> SUFFICES ASSUME PipelineInv, NEW r \in rows
               PROVE  /\ Refusing(r.reading, 0, {}) = {}
                      /\ Holding(r.reading) # {} => r.status = "held"
    BY DEF OnlyCleanIntents
  <2>1. Judged(r.reading, r.status)
    BY DEF PipelineInv, DbInv, DbSound, Sound
  <2> QED
    BY <2>1 DEF Judged, Passing, Withheld
<1> QED
  BY <1>1, PipelineInvariant, PTL

(* Every intent is for an amount its invoice has, and has on a payable     *)
(* line if there is one; it is off what was extracted by no more than the  *)
(* rounding of one product.                                                *)
THEOREM PipelinePaysDue == PipelineSpec => []PaysWhatIsDue
<1>1. PipelineInv => PaysWhatIsDue
  <2> SUFFICES ASSUME PipelineInv, NEW row \in rows PROVE
        LET due == {l \in row.reading.text : l.payable /\ l.tokens # << >>}
            lines == IF due # {} THEN due ELSE row.reading.text
            extracted == row.reading.extracted
            paid == Amount(row.reading) * Parts
        IN /\ 2 * (paid - extracted) \in -Ulp[extracted] .. Ulp[extracted]
           /\ \E l \in lines : \E i \in DOMAIN l.tokens :
                l.tokens[i] = paid /\ (l.payable => i = 1)
    BY DEF PaysWhatIsDue
  <2> DEFINE r == row.reading
             due == {l \in r.text : l.payable /\ l.tokens # << >>}
  <2>1. r \in Passing
    BY DEF PipelineInv, DbInv, DbSound, Sound, Judged
  <2>2. /\ r \in Readings /\ r.text \in SUBSET Line
        /\ 2 * (Amount(r) * Parts - r.extracted) \in -Ulp[r.extracted] .. Ulp[r.extracted]
        /\ amount_matches_text(Amount(r), r.text)
    <3> HIDE DEF r
    <3>1. r \in Readings /\ Amount(r) # NoAmount /\ amount_matches_text(Amount(r), r.text)
      BY <2>1, PassingAmount
    <3>2. r \in Reading
      BY <3>1, PipelineAssumption
    <3> QED
      BY <3>1, <3>2, ToStroops, RoundedNear DEF Reading
  <2> DEFINE a == Amount(r) * Parts
  <2>3. a \in IF labeled_amounts(r.text) # {} THEN labeled_amounts(r.text)
              ELSE amount_tokens(r.text)
    BY <2>2 DEF amount_matches_text
  <2> HIDE DEF r
  <2>4. labeled_amounts(r.text) = {l.tokens[1] : l \in due}
    BY DEF labeled_amounts
  <2>5. ASSUME NEW l \in r.text, l.tokens # << >>
        PROVE  1 \in DOMAIN l.tokens
    <3>1. l.tokens \in Seq(Numbers)
      BY <2>2 DEF Line
    <3> QED
      BY <2>5, <3>1
  <2>6. CASE due # {}
    <3>1. labeled_amounts(r.text) # {}
      BY <2>4, <2>6
    <3>2. PICK l \in due : a = l.tokens[1]
      BY <2>3, <2>4, <3>1
    <3>3. 1 \in DOMAIN l.tokens
      BY <2>5
    <3> QED
      BY <2>2, <2>6, <3>2, <3>3 DEF r
  <2>7. CASE due = {}
    <3>1. labeled_amounts(r.text) = {}
      BY <2>4, <2>7
    <3>2. a \in amount_tokens(r.text)
      BY <2>3, <3>1
    <3>3. PICK l \in r.text : a \in {l.tokens[i] : i \in DOMAIN l.tokens}
      BY <3>2 DEF amount_tokens
    <3>4. PICK i \in DOMAIN l.tokens : a = l.tokens[i]
      BY <3>3
    <3>5. ~l.payable
      <4>1. l.tokens # << >>
        BY <3>4
      <4> QED
        BY <2>7, <4>1
    <3> QED
      BY <2>2, <2>7, <3>4, <3>5 DEF r
  <2> QED
    BY <2>6, <2>7
<1> QED
  BY <1>1, PipelineInvariant, PTL
=============================================================================
