SPECIFICATION FairSpec
CONSTANTS
  Worker = {w1, w2}
  Main = Main
  Task = {t1, t2, t3}
  LockedTask = {t3}
  MaxPosts = 2
  NoTask = NoTask
  NoProc = NoProc
INVARIANTS
  TypeOK
  NoNullTask
  DrainNeverFails
  TaskConservation
  TokensMatchQueue
PROPERTIES
  ShutdownCompletes
  SurvivingWorkerServes
