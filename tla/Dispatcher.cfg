\* Three tasks, one of them a plain function, one polled; two workers; a queue
\* of one; one shutdown at any time; the fairness of the scheduler. A pod that
\* has been shut down stops.
SPECIFICATION FairSpec
CONSTANTS
  t1 = t1
  t2 = t2
  f1 = f1
  w1 = w1
  w2 = w2
  Task = {t1, t2, f1}
  FuncTask = {f1}
  Worker = {w1, w2}
  MaxQueue = 1
  NoTask = NoTask
  NoWorker = NoWorker
  Polled = {t1}
INVARIANTS
  TypeOK
  TaskInOnePlace
  ChannelInOnePlace
  HonestReply
PROPERTIES
  ImplementsTaskService
  AcceptedTasksEnd
  StopEndsWorkers
CHECK_DEADLOCK FALSE
