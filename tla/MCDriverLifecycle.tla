--------------------------- MODULE MCDriverLifecycle ---------------------------
(***************************************************************************)
(* Instance of DriverLifecycle: two devices, so that the second one can be *)
(* refused, and three probes, so that one can be repeated after it.        *)
(***************************************************************************)
EXTENDS DriverLifecycle, TLC

MCSymmetry == Permutations(Devices)
================================================================================
