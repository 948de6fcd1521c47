--------------------------- MODULE MCBinaryFile ---------------------------
(* BinaryFile for TLC.                                                     *)
EXTENDS BinaryFile
=============================================================================
