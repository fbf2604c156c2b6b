--------------------------- MODULE MCFrameReader ---------------------------
(* Instances of FrameReader for TLC.  A garbage length of 1 stays inside   *)
(* a chunk, 6 crosses the end of one or more, 99 is longer than a Buffer.  *)
EXTENDS FrameReader
=============================================================================
