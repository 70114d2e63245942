SPECIFICATION Spec
CONSTANTS
  Conn = {c1, c2}
  Fd = {f1, f2}
  Worker = {w1}
  Listen = Listen
  MaxReady = 2
  AllocOK = {TRUE}
  AcceptFailures = {}
  None = None
SYMMETRY Symmetric
INVARIANT TravellerIsLive
