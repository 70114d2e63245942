SPECIFICATION FairSpec
CONSTANTS
  Conn = {c1, c2}
  Fd = {f1, f2}
  Worker = {w1, w2}
  Listen = Listen
  MaxReady = 1
  AllocOK = {TRUE}
  AcceptFailures = {"set_nonblocking", "ctl_add"}
  None = None
INVARIANTS
  NoFault
PROPERTIES
  RequestEnds
  LifeSpec
