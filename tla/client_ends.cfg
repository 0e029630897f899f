\* The default of two retries, under FairSpec.
CONSTANTS
  stream = stream
  a = a
  b = b
  None = None
  Streams = {stream}
  Devices = {a, b}
  Allowed = {a}
  Bodies = {"CANCEL", "APP_ERROR", "UNPARSABLE", "STALE", "BAD_DATA", "WRONG_TOKEN", "VALID"}
  IOErrors = {"TIMEOUT", "CLOSED_CONNECTION", "UNKNOWN"}
  MaxPackets = 3
  IsServer = FALSE
  clientConnectRetries = 2
SPECIFICATION FairSpec
INVARIANT FirstAttemptUnlocks
 
