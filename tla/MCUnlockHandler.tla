--------------------------- MODULE MCUnlockHandler ---------------------------
(***************************************************************************)
(* Instances of UnlockHandler for TLC: which devices a user has paired.    *)
(***************************************************************************)
EXTENDS UnlockHandler, TLC

CONSTANTS d1, d2

(* A phone over TCP and a phone over UDP: a client and the server. *)
TcpAndUdp == d1 :> "TCP" @@ d2 :> "UDP"

(* One phone over Bluetooth: on Windows its two clients. *)
OneBluetooth == d1 :> "BLUETOOTH"

=============================================================================
