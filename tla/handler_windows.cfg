\* The two clients of one Bluetooth phone in the Windows build.
CONSTANTS
  d1 = d1
  d2 = d2
  None = None
  Devices = {d1}
  Method <- OneBluetooth
  OnWindows = TRUE
  Outcomes = {"SUCCESS", "CONNECT_ERROR"}
SPECIFICATION FairSpec
INVARIANT LateAnswerReported
PROPERTY ImplementsRequest
PROPERTY GivenUpReturns
