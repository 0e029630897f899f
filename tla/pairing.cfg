SPECIFICATION Spec
CONSTANTS
  Procs <- MCProcs
  Threads <- MCThreads
  ProcOf <- MCProcOf
  Ids <- MCIds
  InitialFiles <- MCInitialFiles
  Methods <- MCMethods
  Clients <- MCClients
  ClientsOf <- MCClientsOf
  NoThread = NoThread
  MaxFaults <- MCMaxFaults
  MaxClients = 2
  MaxFailures = 2
  MaxSessions = 2
  MaxCalls = 1
  MaxCommands <- MCMaxCommands
CHECK_DEADLOCK FALSE
 
INVARIANT NothingOutlivesSession
PROPERTY StopReturns
