--------------------------- MODULE PrefixSumProofs --------------------------
(***************************************************************************)
(* What SumTo computes.  Its recursion is over data, so the facts below    *)
(* are proved by induction on the natural numbers; the induction principle *)
(* is stated for a set, which the provers can instantiate, and rests on <  *)
(* being well-founded on Nat.                                              *)
(***************************************************************************)
EXTENDS PrefixSum, WellFoundedInduction, TLAPS

(* Induction on Nat: a set of naturals with 0 and closed under successor.  *)
LEMMA SetInduction ==
  ASSUME NEW S, S \subseteq Nat, 0 \in S, \A n \in Nat : n \in S => n + 1 \in S
  PROVE  S = Nat
<1> DEFINE R == {ss \in Nat \X Nat : ss[1] < ss[2]}
<1>1. IsWellFoundedOn(R, Nat)
  BY NatLessThanWellFounded, Zenon DEF OpToRel
<1>2. SUFFICES ASSUME Nat \ S # {} PROVE FALSE
  OBVIOUS
<1>3. PICK x \in Nat \ S : \A y \in Nat \ S : <<y, x>> \notin R
  <2> HIDE DEF R
  <2> QED BY <1>1, <1>2, WFMin
<1>4. x # 0
  BY <1>3
<1>5. x - 1 \in Nat /\ x - 1 \notin S
  BY <1>3, <1>4
<1>6. <<x - 1, x>> \in R
  BY <1>5
<1>7. QED
  BY <1>3, <1>5, <1>6

(* The function SumTo applies: a solution f of f = Sums(f, w, n).          *)
Sums(f, w, n) == [k \in 0..n |-> IF k = 0 THEN 0 ELSE f[k-1] + w[k]]
PrefixSums(w, n) == CHOOSE f : f = Sums(f, w, n)

LEMMA SumToIsPrefixSum ==
  ASSUME NEW w, NEW n
  PROVE  SumTo(w, n) = PrefixSums(w, n)[n]
BY Zenon DEF SumTo, PrefixSums, Sums

(* There is such a function for every n, so the CHOOSE is not arbitrary.   *)
LEMMA PrefixSumsExist ==
  ASSUME NEW w
  PROVE  \A n \in Nat : \E f : f = Sums(f, w, n)
<1> DEFINE S == {n \in Nat : \E f : f = Sums(f, w, n)}
<1>1. 0 \in S
  <2> DEFINE f == [k \in 0..0 |-> 0]
  <2>1. f = Sums(f, w, 0)
    BY DEF Sums
  <2> QED
    BY <2>1
<1>2. \A n \in Nat : n \in S => n + 1 \in S
  <2> SUFFICES ASSUME NEW n \in Nat, NEW f, f = Sums(f, w, n)
               PROVE  \E g : g = Sums(g, w, n + 1)
    BY DEF S
  <2> DEFINE g == [k \in 0..(n+1) |-> IF k = n + 1 THEN f[n] + w[n+1] ELSE f[k]]
  <2>1. ASSUME NEW k \in 0..(n+1)
        PROVE  g[k] = IF k = 0 THEN 0 ELSE g[k-1] + w[k]
    <3>1. CASE k = 0
      BY <3>1 DEF Sums
    <3>2. CASE k = n + 1
      BY <3>2 DEF Sums
    <3>3. CASE k \in 1..n
      BY <3>3 DEF Sums
    <3> QED
      BY <3>1, <3>2, <3>3
  <2>2. g = Sums(g, w, n + 1)
    BY <2>1 DEF Sums
  <2> QED
    BY <2>2
<1>3. S = Nat
  <2> HIDE DEF S
  <2> QED
    BY <1>1, <1>2, SetInduction DEF S
<1> QED
  BY <1>3

LEMMA PrefixSumsEquation ==
  ASSUME NEW w, NEW n \in Nat
  PROVE  /\ PrefixSums(w, n)[0] = 0
         /\ \A k \in 1..n : PrefixSums(w, n)[k] = PrefixSums(w, n)[k-1] + w[k]
<1>1. PrefixSums(w, n) = Sums(PrefixSums(w, n), w, n)
  BY PrefixSumsExist, Zenon DEF PrefixSums
<1> DEFINE f == PrefixSums(w, n)
<1> HIDE DEF f
<1>2. f = Sums(f, w, n)
  BY <1>1 DEF f
<1>3. f[0] = 0 /\ \A k \in 1..n : f[k] = f[k-1] + w[k]
  BY <1>2 DEF Sums
<1> QED
  BY <1>3 DEF f

(* A longer sum starts with the shorter one, whatever w is beyond it, as   *)
(* long as the summands agree.                                             *)
LEMMA PrefixSumsAgree ==
  ASSUME NEW v, NEW w, NEW m \in Nat, NEW n \in Nat, m <= n,
         \A i \in 1..m : v[i] = w[i]
  PROVE  PrefixSums(v, n)[m] = PrefixSums(w, m)[m]
<1> DEFINE f == PrefixSums(v, n)
           g == PrefixSums(w, m)
           S == {k \in Nat : k <= m => f[k] = g[k]}
<1>1. /\ f[0] = 0 /\ \A k \in 1..n : f[k] = f[k-1] + v[k]
      /\ g[0] = 0 /\ \A k \in 1..m : g[k] = g[k-1] + w[k]
  BY PrefixSumsEquation
<1> HIDE DEF f, g
<1>2. 0 \in S
  BY <1>1
<1>3. ASSUME NEW k \in Nat, k \in S PROVE k + 1 \in S
  <2>1. SUFFICES ASSUME k + 1 <= m PROVE f[k+1] = g[k+1]
    OBVIOUS
  <2>2. k + 1 \in 1..m /\ k + 1 \in 1..n /\ (k + 1) - 1 = k
    BY <2>1
  <2>3. f[k+1] = f[k] + v[k+1] /\ g[k+1] = g[k] + w[k+1]
    BY <1>1, <2>2
  <2>4. f[k] = g[k] /\ v[k+1] = w[k+1]
    BY <1>3, <2>1, <2>2
  <2> QED
    BY <2>3, <2>4
<1>4. S = Nat
  <2> HIDE DEF S
  <2> QED
    BY <1>2, <1>3, SetInduction DEF S
<1> QED
  BY <1>4 DEF f, g

(***************************************************************************)
(* The facts the other proofs cite.                                        *)
(***************************************************************************)

(* The empty sum, and the recurrence.                                      *)
THEOREM SumToRecurrence ==
  ASSUME NEW w
  PROVE  /\ SumTo(w, 0) = 0
         /\ \A n \in Nat : SumTo(w, n + 1) = SumTo(w, n) + w[n+1]
<1>1. SumTo(w, 0) = 0
  BY SumToIsPrefixSum, PrefixSumsEquation
<1>2. ASSUME NEW n \in Nat PROVE SumTo(w, n + 1) = SumTo(w, n) + w[n+1]
  <2>1. PrefixSums(w, n + 1)[n+1] = PrefixSums(w, n + 1)[(n + 1) - 1] + w[n+1]
    BY PrefixSumsEquation, n + 1 \in 1..(n + 1)
  <2>2. PrefixSums(w, n + 1)[n] = PrefixSums(w, n)[n]
    BY PrefixSumsAgree
  <2> QED
    BY <2>1, <2>2, (n + 1) - 1 = n, SumToIsPrefixSum
<1> QED
  BY <1>1, <1>2

(* Equal summands, equal sums.                                             *)
THEOREM SumToSame ==
  ASSUME NEW v, NEW w, NEW n \in Nat, \A i \in 1..n : v[i] = w[i]
  PROVE  SumTo(v, n) = SumTo(w, n)
BY PrefixSumsAgree, SumToIsPrefixSum

(* A sum of naturals is a natural, and each summand is at most the sum.    *)
THEOREM SumToNat ==
  ASSUME NEW m \in Nat, NEW w \in [1..m -> Nat]
  PROVE  \A n \in 0..m : /\ SumTo(w, n) \in Nat
                         /\ \A i \in 1..n : w[i] <= SumTo(w, n)
<1> DEFINE Good(n) == SumTo(w, n) \in Nat /\ \A i \in 1..n : w[i] <= SumTo(w, n)
           S == {n \in Nat : n <= m => Good(n)}
<1>1. 0 \in S
  BY SumToRecurrence
<1>2. ASSUME NEW n \in Nat, n \in S PROVE n + 1 \in S
  <2>1. SUFFICES ASSUME n + 1 <= m PROVE Good(n + 1)
    OBVIOUS
  <2>2. SumTo(w, n + 1) = SumTo(w, n) + w[n+1]
    BY SumToRecurrence
  <2>3. Good(n) /\ w[n+1] \in Nat
    BY <1>2, <2>1
  <2>4. \A i \in 1..n+1 : i = n + 1 \/ i \in 1..n
    OBVIOUS
  <2>5. \A i \in 1..n : w[i] \in Nat
    BY <2>1
  <2> QED
    BY <2>2, <2>3, <2>4, <2>5
<1>3. S = Nat
  <2> HIDE DEF S
  <2> QED
    BY <1>1, <1>2, SetInduction DEF S
<1> QED
  BY <1>3

(* Changing one summand changes the sum by as much.                        *)
THEOREM SumToChange ==
  ASSUME NEW m \in Nat, NEW w \in [1..m -> Nat], NEW v \in [1..m -> Nat],
         NEW i \in 1..m, \A k \in 1..m : k # i => v[k] = w[k]
  PROVE  SumTo(v, m) = (SumTo(w, m) - w[i]) + v[i]
<1> DEFINE S == {n \in Nat : n <= m /\ i <= n
                               => SumTo(v, n) = (SumTo(w, n) - w[i]) + v[i]}
<1>0. w[i] \in Nat /\ v[i] \in Nat
  OBVIOUS
<1>1. 0 \in S
  OBVIOUS
<1>2. ASSUME NEW n \in Nat, n \in S PROVE n + 1 \in S
  <2>1. SUFFICES ASSUME n + 1 <= m, i <= n + 1
                 PROVE  SumTo(v, n + 1) = (SumTo(w, n + 1) - w[i]) + v[i]
    OBVIOUS
  <2>2. /\ SumTo(v, n + 1) = SumTo(v, n) + v[n+1]
        /\ SumTo(w, n + 1) = SumTo(w, n) + w[n+1]
    BY SumToRecurrence
  <2>3. SumTo(w, n) \in Nat /\ SumTo(v, n) \in Nat
    <3>1. n \in 0..m
      BY <2>1
    <3> HIDE DEF S
    <3> QED
      BY <1>0, <3>1, SumToNat
  <2>4. w[n+1] \in Nat
    BY <2>1
  <2>5. CASE i = n + 1
    <3>1. \A k \in 1..n : v[k] = w[k]
      BY <2>1, <2>5
    <3>2. SumTo(v, n) = SumTo(w, n)
      BY <3>1, SumToSame
    <3> QED
      BY <1>0, <2>2, <2>3, <2>4, <2>5, <3>2
  <2>6. CASE i # n + 1
    <3>1. v[n+1] = w[n+1]
      BY <2>1, <2>6
    <3>2. SumTo(v, n) = (SumTo(w, n) - w[i]) + v[i]
      BY <1>2, <2>1, <2>6
    <3>3. PICK a, x, y, z \in Nat :
            a = SumTo(w, n) /\ x = w[i] /\ y = v[i] /\ z = w[n+1]
      BY <1>0, <2>3, <2>4, Zenon
    <3>4. SumTo(v, n + 1) = ((a - x) + y) + z
      BY <2>2, <3>1, <3>2, <3>3, Zenon
    <3>5. SumTo(w, n + 1) = a + z
      BY <2>2, <3>3, Zenon
    <3>6. ((a - x) + y) + z = ((a + z) - x) + y
      OBVIOUS
    <3> QED
      BY <3>3, <3>4, <3>5, <3>6, Zenon
  <2> QED
    BY <2>5, <2>6
<1>3. S = Nat
  <2> HIDE DEF S
  <2> QED
    BY <1>1, <1>2, SetInduction DEF S
<1>4. m \in S
  BY <1>3
<1> QED
  BY <1>4

(* A sum of n values of at most c each is at most n times c.               *)
THEOREM SumToBounded ==
  ASSUME NEW m \in Nat, NEW w \in [1..m -> Nat], NEW c \in Int,
         \A i \in 1..m : w[i] <= c
  PROVE  SumTo(w, m) <= m * c
<1> DEFINE S == {n \in Nat : n <= m => SumTo(w, n) <= n * c}
<1>1. 0 \in S
  BY SumToRecurrence
<1>2. ASSUME NEW n \in Nat, n \in S PROVE n + 1 \in S
  <2>1. SUFFICES ASSUME n + 1 <= m
                 PROVE  SumTo(w, n + 1) <= (n + 1) * c
    OBVIOUS
  <2>2. SumTo(w, n + 1) = SumTo(w, n) + w[n+1]
    BY SumToRecurrence
  <2>3. SumTo(w, n) <= n * c
    BY <1>2, <2>1
  <2>4. w[n+1] \in Nat /\ w[n+1] <= c
    BY <2>1
  <2>5. SumTo(w, n) \in Nat
    <3>1. n \in 0..m
      BY <2>1
    <3> HIDE DEF S
    <3> QED
      BY <3>1, SumToNat
  <2>6. PICK a \in Nat, x \in Nat, y \in Int :
          a = SumTo(w, n) /\ x = w[n+1] /\ y = n * c
    <3>1. n * c \in Int
      OBVIOUS
    <3> QED
      BY <2>4, <2>5, <3>1, Zenon
  <2>7. a + x <= y + c
    BY <2>3, <2>4, <2>6
  <2>8. (n + 1) * c = n * c + c
    OBVIOUS
  <2> QED
    BY <2>2, <2>6, <2>7, <2>8, Zenon
<1>3. S = Nat
  <2> HIDE DEF S
  <2> QED
    BY <1>1, <1>2, SetInduction DEF S
<1>4. m \in S
  BY <1>3
<1> QED
  BY <1>4

=============================================================================
