------------------------------ MODULE MCCharging ------------------------------
EXTENDS Charging

(* The limits of the command's help, and limits that are the wrong way     *)
(* round.                                                                  *)
SomeLimits == {<<60, 80>>, <<80, 60>>}
==============================================================================
