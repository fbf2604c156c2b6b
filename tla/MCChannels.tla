----------------------------- MODULE MCChannels -----------------------------
(* Instances of Channels for TLC.                                          *)
EXTENDS Channels
=============================================================================
