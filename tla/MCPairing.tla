------------------------------ MODULE MCPairing ------------------------------
(* Pairing with connections c1 and c2, the user interface and one command of
   another process. *)
EXTENDS Pairing, TLC

MCProcs == {"app", "cli"}
MCClients == {"c1", "c2"}
MCClientsOf == [f \in {"gui", "cli"} |-> IF f = "cli" THEN MCClients ELSE {"c1"}]
MCThreads == MCClients \cup {"ui", "cmd"}
MCProcOf == [t \in MCThreads |-> IF t = "cmd" THEN "cli" ELSE "app"]
MCIds == {"d1", "d2"}
MCMaxFaults == [f \in {"gui", "cli"} |-> IF f = "gui" THEN 1 ELSE 0]
MCMaxCommands == [f \in {"gui", "cli"} |-> IF f = "cli" THEN 1 ELSE 0]
OneDevice == Complete({[id |-> "d1", method |-> "BLUETOOTH", key |-> 1]})
MCMethods == {"CLOUD", "BLUETOOTH"}
MCInitialFiles ==
  [f \in {"gui", "cli"} |-> IF f = "gui" THEN {OneDevice} ELSE {Absent, OneDevice}]
==============================================================================
