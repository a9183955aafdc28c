------------------------------- MODULE MCFlow -------------------------------
(* One invoice, two or three processes, two submissions: enough for a      *)
(* retry, a late landing and an interleaving of any two commands.          *)
EXTENDS Flow, TLC

CONSTANTS sme, sup, usdc

MCTerms == [j \in Jobs |-> [supplier |-> sup, token |-> usdc, amount |-> 1,
                            deadline |-> CHOOSE d \in Deadlines : TRUE]]

(* The local signers are no oracles of the contract here, so that they may *)
(* be exchanged as freely as the processes.                                *)
FlowSymmetry == Permutations(Procs) \cup Permutations(Signers)
=============================================================================
