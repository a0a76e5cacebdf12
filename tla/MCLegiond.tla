------------------------------ MODULE MCLegiond ------------------------------
(* A configuration with all three controls and one with the fan only; the  *)
(* plain, the delayed and a mistyped negative fanset.                      *)
EXTENDS Legiond

MCInis == { [fan |-> TRUE, cpu |-> TRUE, gpu |-> "nvidia"],
            [fan |-> TRUE, cpu |-> FALSE, gpu |-> "false"] }
MCFanOnly == { [fan |-> TRUE, cpu |-> FALSE, gpu |-> "false"] }
MCDelays == {-1, 0, 3}
==============================================================================
