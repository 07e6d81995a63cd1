---------------------------- MODULE MCTimeDriver ----------------------------
(* Instances of TimeDriver for TLC.                                        *)
EXTENDS TimeDriver

CONSTANTS r1, r2

MCRegs == {r1, r2}
=============================================================================
