\* A pool of one thread at most, and a runnable before that thread registers.
SPECIFICATION PoolSpec
CONSTANTS
  Threads = {t1, t2, t3}
  Client = Client
  Runnables = {r1, r2, r3}
  NoRunnable = NoRunnable
  MinThreads = 1
  MaxThreads = 1
INVARIANT ThreadLimit
CHECK_DEADLOCK FALSE
