-------------------------- MODULE MCMessageBuffer --------------------------
(* Instances of MessageBuffer for TLC.                                     *)
EXTENDS MessageBuffer
=============================================================================
