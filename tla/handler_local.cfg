\* A TCP client and the UDP server of a Linux or macOS request.
CONSTANTS
  d1 = d1
  d2 = d2
  None = None
  Devices = {d1, d2}
  Method <- TcpAndUdp
  OnWindows = FALSE
  Outcomes = {"SUCCESS", "APP_ERROR"}
SPECIFICATION Spec
 
INVARIANT StatusLineReleased
INVARIANT NoUseAfterDelete
