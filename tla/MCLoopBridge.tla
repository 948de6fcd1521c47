---------------------------- MODULE MCLoopBridge ----------------------------
(* LoopBridge for TLC, with the forms of its definitions that a plausible  *)
(* bug would give.                                                         *)
EXTENDS LoopBridge
=============================================================================
