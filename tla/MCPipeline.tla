----------------------------- MODULE MCPipeline -----------------------------
(* Two invoices of the whole cap; a third above the threshold, flagged or  *)
(* without a payable line, from a supplier nobody registered, with a       *)
(* decoy, or of a fraction of a stroop, lost in rounding or not.           *)
EXTENDS Pipeline, TLC

CONSTANTS h1, h2, h3, api

Two == 2 * Parts
Due(amount) == [payable |-> TRUE, tokens |-> <<amount>>]
Other(amounts) == [payable |-> FALSE, tokens |-> amounts]

Clean(hash) == [hash |-> hash, extracted |-> Two, text |-> {Due(Two), Other(<<Parts>>)},
                registered |-> TRUE, foreign |-> FALSE, flagged |-> FALSE,
                cosign_token |-> TRUE, receipt |-> TRUE]

MCNumbers == {Parts, Parts + 1, Two, Two + 1}

(* Beyond Two there are no digits left for half a stroop.                  *)
MCUlp == [n \in Numbers |-> IF n > Two THEN Parts ELSE 1]

MCReadings ==
  {Clean(h1), Clean(h2),
   [Clean(h3) EXCEPT !.flagged = TRUE, !.cosign_token = FALSE],
   [Clean(h3) EXCEPT !.extracted = Two + 1, !.text = {Other(<<Parts, Two>>)},
                     !.cosign_token = FALSE],
   [Clean(h3) EXCEPT !.registered = FALSE],
   [Clean(h3) EXCEPT !.text = {Due(Parts), Other(<<Two>>)}],
   [Clean(h3) EXCEPT !.extracted = Parts + 1, !.text = {Due(Parts + 1)}]}

Profile == [injection_scan |-> TRUE, policy_engine |-> TRUE, policy_signer |-> TRUE,
            threshold |-> 0, proof_of_compute |-> FALSE, monitoring |-> TRUE]

(* The guards of the profiles strict and balanced; and as little as the    *)
(* configuration allows.                                                   *)
MCConfigs == {[Profile EXCEPT !.threshold = 1],
              [Profile EXCEPT !.monitoring = FALSE, !.policy_engine = FALSE,
                              !.policy_signer = FALSE]}

(* For the daily cap: three equal invoices, and no events.                 *)
DailyReadings == {Clean(h1), Clean(h2), Clean(h3)}
DailyConfigs == {[Profile EXCEPT !.monitoring = FALSE]}
DailySymmetry == Permutations(Proposers) \cup Permutations({h1, h2, h3})

Symmetry == Permutations(Proposers) \cup Permutations({h1, h2})

(* Each proposer a process; or all of them threads of the API.             *)
OwnConnection == [p \in Proposers |-> p]
ApiConnection == [p \in Proposers |-> api]
=============================================================================
