SPECIFICATION InterruptedSpec
CONSTANTS
  Conn = {c1, c2}
  Fd = {f1, f2}
  Worker = {w1, w2}
  Listen = Listen
  MaxReady = 2
  AllocOK = {TRUE, FALSE}
  AcceptFailures = {"set_nonblocking", "ctl_add", "new_connection", "register"}
  None = None
SYMMETRY Symmetric
INVARIANTS
  EntryIsOwn
  InterestMatchesHandler
  OneTaskPerConn
