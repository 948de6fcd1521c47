------------------------- MODULE MCBridgeRegistry -------------------------
(* BridgeRegistry for TLC.                                                 *)
EXTENDS BridgeRegistry
=============================================================================
