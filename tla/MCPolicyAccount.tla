--------------------------- MODULE MCPolicyAccount --------------------------
(* One account; one address that can be named as supplier, payee or escrow *)
(* before and after it is approved; the owner's key and another one.       *)
EXTENDS PolicyAccount

CONSTANT sup

(* All requests of one or two calls that name `sup' for a supplier; the    *)
(* other key, which no call can make up for, asks for one intent only.     *)
MCSignable ==
  {req \in Request :
     /\ Count(req.funds) + Count(req.pays) \in 1..MaxCalls
     /\ \A i \in DOMAIN req.funds : req.funds[i].supplier = sup
     /\ \A i \in DOMAIN req.pays :
          req.pays[i].fn = "create_intent" => req.pays[i].supplier = sup
     /\ req.key # Owner => Count(req.funds) = 1 /\ Count(req.pays) = 0}
=============================================================================
