------------------------- MODULE MCCriticalSection -------------------------
(* Model values for CriticalSection.                                       *)
EXTENDS CriticalSection

CONSTANTS u1, u2, u3, u4

MCUsers == {u1, u2, u3, u4}

(* Of three names the last is released by either call.                     *)
MCCheckedNames == {3}
=============================================================================
