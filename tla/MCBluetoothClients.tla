------------------------- MODULE MCBluetoothClients -------------------------
(* Instance of BluetoothClients for TLC. *)
EXTENDS BluetoothClients

CONSTANT p1

=============================================================================
