--------------------------- MODULE MCCompioDriver ---------------------------
(* CompioDriver for TLC; the configurations give the bounds.               *)
EXTENDS CompioDriver
=============================================================================
