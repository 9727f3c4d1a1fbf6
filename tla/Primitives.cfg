SPECIFICATION Spec
CONSTANTS
  Threads = {t1, t2, t3}
  Client = Client
  Runnables = {r1, r2, r3}
  NoRunnable = NoRunnable
  MinThreads = 1
  MaxThreads = 2
  Callers = {c1, c2, c3, c4}
  NoCaller = NoCaller
  Enterers = {e1, e2, e3, e4}
  Users = {u1, u2, u3}
  Descriptors <- ThreeDescriptors
  FDLimits <- SomeLimits
  FileCount = 3
  Numbers <- FourNumbers
  MaxFdsInPool = 3
  Keys <- FourKeys
  Values <- ThreeValues
  TopSizes = {0, 2}
  GridCases <- SomeGrids
  NumBuckets = 3
  GridLatencies <- SomeLatencies
  RelCases <- SomeRelations
INVARIANTS
  CountsAgree
  ClosedMeansDone
  FairGrants
  FifoExclusion
  SleepersWoken
  MultiPoolBudget
  GridSound
  CellCovers
  LedgerBalanced
PROPERTIES
  ImplementsPool
  EveryRunnableReturns
  QuiesceCloses
  GrantedUnlessCancelled
  LimitKept
  TopNRanked
  UrgentFirst
  TablesRead
CHECK_DEADLOCK FALSE
