SPECIFICATION FairSpec
CONSTANTS
  Node = {n1}
  Base = Base
  QueueSize = 2
  MaxRounds = 2
  MaxBeats = 1
  MaxReceived = 3
  NoMsg = NoMsg
INVARIANTS
  SampleIsStable
  SerialIsStable
  LineInOrder
PROPERTIES
  QueueIsServed
  SamplingGoesOn
