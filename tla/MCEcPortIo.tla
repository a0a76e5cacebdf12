------------------------------ MODULE MCEcPortIo ------------------------------
(* Two registers of the EC that differ in both bytes of their offset, so   *)
(* that a torn offset is never the one that was meant: the power mode at   *)
(* 0xC420 and the current fan-curve point at 0xC534.                       *)
EXTENDS EcPortIo

MCOffsets == {50208, 50484}
MCValues == {0, 127}
==============================================================================
