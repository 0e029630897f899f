--------------------------- MODULE MCUnlockServer ----------------------------
(***************************************************************************)
(* Instances of UnlockServer for TLC.                                      *)
(***************************************************************************)
EXTENDS UnlockServer

CONSTANTS s1, s2, a, b, x

=============================================================================
