---------------------------- MODULE MCPoolClient ----------------------------
(* Values for model-checking PoolClient.                                   *)
EXTENDS PoolClient

(* Fees accrue in block 3, in units of 2.                                  *)
MCExchangeRate(b) == IF b < 3 THEN 2 ELSE 3

=============================================================================
