SPECIFICATION FairSpec
CONSTANTS
  BufSize = 6
  Cap = 4
  ErrPage = 3
  DirSize = 2
  Requests <- Fitting
INVARIANTS
  AnswerInOrder
  AnswerIsWhole
  ZeroInBuffer
  PageMatchesStatus
PROPERTIES
  ExchangeEnds
  RequestAnswered
