---------------------------- MODULE MCIceStream ----------------------------
(* Two streams of two components, for TLC. *)
EXTENDS IceStream
=============================================================================
