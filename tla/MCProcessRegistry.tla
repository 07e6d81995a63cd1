------------------------- MODULE MCProcessRegistry -------------------------
(* Instances of ProcessRegistry for TLC.                                   *)
EXTENDS ProcessRegistry

CONSTANTS a, b

MCCallers == {a, b}
=============================================================================
