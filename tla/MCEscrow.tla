------------------------------ MODULE MCEscrow ------------------------------
(* A small escrow.  Amounts hold a negative one, which the token refuses,  *)
(* and none at all, which it does not.  The supplier's line may close in   *)
(* one of the tokens.                                                      *)
EXTENDS MockChain

CONSTANTS sup, usdc

MCAmounts == {-1, 0, 1, 2}

MCUnsteady == {<<usdc, sup>>}
=============================================================================
