----------------------------- MODULE PrefixSum ------------------------------
(* The sum of the first n values of a function on 1..m, m >= n.            *)
EXTENDS Integers

SumTo(w, n) ==
  LET upTo[k \in 0..n] == IF k = 0 THEN 0 ELSE upTo[k-1] + w[k]
  IN  upTo[n]
=============================================================================
