----------------------------- MODULE MCMacAgent ------------------------------
(***************************************************************************)
(* Instances of MacAgent for TLC.                                          *)
(***************************************************************************)
EXTENDS MacAgent

CONSTANTS u, v

=============================================================================
