--------------------------- MODULE MCMacBluetooth ---------------------------
(***************************************************************************)
(* An instance of MacBluetooth for TLC: a user's session with a retry; the *)
(* relay with a retry; the relay with the death of a process.              *)
(***************************************************************************)
EXTENDS MacBluetooth

OneAnswer == <<"A1">>

ThreeSettings == {[mode |-> "direct", attempts |-> 2, crashes |-> 1],
                  [mode |-> "relay", attempts |-> 2, crashes |-> 0],
                  [mode |-> "relay", attempts |-> 1, crashes |-> 1]}
=============================================================================
