SPECIFICATION FairSpec
CONSTANTS
  s1 = s1
  s2 = s2
  s3 = s3
  net1 = net1
  net2 = net2
  Session = {s1, s2, s3}
  Net = {net1, net2}
  NetOf <- MCNetOf
  Node = {0, 1, 2, 3}
  Root = 0
  Timeout = 1
  Cycle = 3
  Nums = {2, 3}
  PageRows = 3
  SeriesRows = 2
  Plans <- MCPlans
  None = None
  FdLimit = 12
  ProcLimit = 4
  HeapLimit = 1
INVARIANT RecordsKept
PROPERTIES
  FlushSparesReporters
  PageShowsAll
  RealTimeIsNewest
  ClientIsServed
\* The main process really ends, when it meets its limits.
CHECK_DEADLOCK FALSE
