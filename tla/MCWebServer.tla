----------------------------- MODULE MCWebServer -----------------------------
(* Instances of WebServer for TLC.                                         *)
EXTENDS WebServer
=============================================================================
