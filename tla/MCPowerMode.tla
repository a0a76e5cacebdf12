------------------------------ MODULE MCPowerMode ------------------------------
(* Users write performance, custom, and 258, whose low byte is balanced    *)
(* but which is no mode; the kernel has a profile for custom.              *)
EXTENDS PowerMode, TLC

MCValues == {3, 255, 258}
MCProfileModes == {1, 2, 3, 255}
MCSymmetry == Permutations(Threads)
================================================================================
