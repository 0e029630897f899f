--------------------------- MODULE MCUnlockClient ----------------------------
(***************************************************************************)
(* Instances of UnlockClient for TLC.                                      *)
(***************************************************************************)
EXTENDS UnlockClient

CONSTANTS a, b

=============================================================================
