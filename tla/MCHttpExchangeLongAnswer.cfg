SPECIFICATION Spec
CONSTANTS
  BufSize = 6
  Cap = 4
  ErrPage = 3
  DirSize = 2
  Requests <- LongAnswer
INVARIANT AnswerInOrder
