\* Two threads, one late: the pool says it is quiet, and is not.
SPECIFICATION PoolSpec
CONSTANTS
  Threads = {t1, t2}
  Client = Client
  Runnables = {r1, r2}
  NoRunnable = NoRunnable
  MinThreads = 2
  MaxThreads = 2
INVARIANT QuietAfterPost
CHECK_DEADLOCK FALSE
