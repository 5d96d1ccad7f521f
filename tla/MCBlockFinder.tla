--------------------------- MODULE MCBlockFinder ---------------------------
(* Values for model-checking BlockFinder.                                  *)
EXTENDS BlockFinder

(* Blocks in bursts with shared timestamps, and a long pause in a chain.   *)
Bursts == [n \in Blocks |-> IF n = 0 THEN 2 ELSE 4 + 3 * (n \div 3)]
Pause == [n \in Blocks |-> IF n < 2 THEN 2 + n ELSE IF n = 2 THEN 5 ELSE 6 + n]
MCTimeLines == {Bursts, Pause}
OnlyBursts == {Bursts}

Seeds == "optimism" :> [seconds |-> 2, blocks |-> 1, timestamp |-> 8]
MCHints == {{}, {1, 2}}

=============================================================================
