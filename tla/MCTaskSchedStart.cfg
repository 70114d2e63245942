SPECIFICATION FairSpec
CONSTANTS
  Worker = {w1, w2}
  Main = Main
  Task = {t1, t2}
  LockedTask = {}
  MaxPosts = 1
  NoTask = NoTask
  NoProc = NoProc
PROPERTIES
  PostedTaskRuns
