-------------------------- MODULE MCRemoteSession --------------------------
(* Instances of RemoteSession for TLC.                                     *)
EXTENDS RemoteSession

BatchOnly    == {"Batch"}
EitherPolicy == BOOLEAN
NoFailFast   == {FALSE}
=============================================================================
