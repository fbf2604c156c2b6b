---------------------------- MODULE MCLogClient ----------------------------
(* Instances of LogClient for TLC: descriptors from 3 on, since the        *)
(* standard ones are open when the library is loaded.                      *)
EXTENDS LogClient

TwoFds == 3..4
=============================================================================
