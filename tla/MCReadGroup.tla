---------------------------- MODULE MCReadGroup ----------------------------
(* ReadGroup for TLC.                                                      *)
EXTENDS ReadGroup
=============================================================================
