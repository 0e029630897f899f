\* Two connections to the server, of two paired phones and of a device it does
\* not know, under FairSpec.
CONSTANTS
  s1 = s1
  s2 = s2
  a = a
  b = b
  x = x
  None = None
  Streams = {s1, s2}
  Devices = {a, b, x}
  Allowed = {a, b}
  Bodies = {"CANCEL", "STALE", "WRONG_TOKEN", "VALID"}
  IOErrors = {"TIMEOUT"}
  MaxPackets = 2
  IsServer = TRUE
  MAX_CLIENTS = 2
  SetupErrors = {"PORT_ERROR"}
SPECIFICATION FairSpec
INVARIANT SuccessIsVerified
PROPERTY OneWinner
PROPERTY StopReturns
PROPERTY RequestEndsForOne
