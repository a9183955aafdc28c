----------------------------- MODULE Settlement -----------------------------
(***************************************************************************)
(* What the escrow contract promises, with the custody mechanism left out: *)
(* money leaves a wallet when a deal is locked and then goes, once, either *)
(* to the payee (the goods were delivered) or back to the payer (they were *)
(* not).  There is no vault, no clock and no oracle here: the contract's   *)
(* own balance is whatever the locked deals and the strays add up to.      *)
(* Module Escrow (contracts/escrow/src/lib.rs) implements this one.        *)
(***************************************************************************)
EXTENDS Integers

CONSTANTS Parties,     \* owners of wallets, all of them outside the escrow
          Currencies,  \* the tokens deals are made in
          Sums,        \* the amounts that may be asked for
          MaxDeals     \* how many deals are ever made

VARIABLES deals,   \* how many deals were made
          deal,    \* each of them, by its number 1..deals
          wallet   \* wallet[c][p]: what p holds in currency c

settlementVars == <<deals, deal, wallet>>

Deal == [payer : Parties, payee : Parties, currency : Currencies,
         sum : Sums \cap Nat,
         evidence : {"none", "delivered", "failed"},
         state : {"locked", "paid", "returned"}]

SettlementInit ==
  /\ deals = 0
  /\ deal = << >>
  /\ wallet \in [Currencies -> [Parties -> Nat]]

Debited(c, p, s)  == [wallet EXCEPT ![c][p] = @ - s]
Credited(c, p, s) == [wallet EXCEPT ![c][p] = @ + s]

Lock ==
  /\ deals < MaxDeals
  /\ \E d \in Deal :
       /\ d.evidence = "none" /\ d.state = "locked"
       /\ d.sum <= wallet[d.currency][d.payer]
       /\ deals' = deals + 1
       /\ deal' = [i \in 1..deals + 1 |-> IF i \in 1..deals THEN deal[i] ELSE d]
       /\ wallet' = Debited(d.currency, d.payer, d.sum)

(* The evidence of a locked deal is given once, and stands.                *)
Evidence(i) ==
  /\ deal[i].state = "locked" /\ deal[i].evidence = "none"
  /\ \E e \in {"delivered", "failed"} : deal' = [deal EXCEPT ![i].evidence = e]
  /\ UNCHANGED <<deals, wallet>>

Pay(i) ==
  /\ deal[i].state = "locked" /\ deal[i].evidence = "delivered"
  /\ deal' = [deal EXCEPT ![i].state = "paid"]
  /\ wallet' = Credited(deal[i].currency, deal[i].payee, deal[i].sum)
  /\ UNCHANGED deals

Return(i) ==
  /\ deal[i].state = "locked" /\ deal[i].evidence # "delivered"
  /\ deal' = [deal EXCEPT ![i].state = "returned"]
  /\ wallet' = Credited(deal[i].currency, deal[i].payer, deal[i].sum)
  /\ UNCHANGED deals

(* Tokens sent to the contract outside any deal leave the wallet for good. *)
Stray ==
  \E c \in Currencies, p \in Parties, s \in Sums \cap Nat :
    /\ s <= wallet[c][p]
    /\ wallet' = Debited(c, p, s)
    /\ UNCHANGED <<deals, deal>>

Settle(i) == Pay(i) \/ Return(i)

SettlementNext ==
  \/ Lock
  \/ Stray
  \/ \E i \in 1..deals : Evidence(i) \/ Settle(i)

SettlementSpec == SettlementInit /\ [][SettlementNext]_settlementVars
=============================================================================
