---------------------------- MODULE MCDarwinAio ----------------------------
(* DarwinAio for TLC; the configurations give the bounds.                  *)
EXTENDS DarwinAio
=============================================================================
