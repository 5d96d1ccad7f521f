------------------------- MODULE MCSpokePoolClient -------------------------
(* Values for model-checking SpokePoolClient.                              *)
EXTENDS SpokePoolClient

(* Two blocks share a timestamp, as blocks of fast chains do.              *)
MCBlockTime(b) == 1 + b \div 2

AllEvents == {EventNames}

(* A caller that only watches fills leaves the deposits out.               *)
WithOrWithoutDeposits == {EventNames, EventNames \ {"V3FundsDeposited"}}

DepositorSymmetry == Permutations(Depositors)

=============================================================================
