--------------------------- MODULE MCWorkLifetime ---------------------------
(* Instances of WorkLifetime for TLC.                                       *)
EXTENDS WorkLifetime
=============================================================================
