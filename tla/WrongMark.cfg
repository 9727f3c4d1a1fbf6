\* The mark of an accident overwrites the last toll of a row.
SPECIFICATION Spec
CONSTANTS
  Threads = {t1}
  Client = Client
  Runnables = {r1}
  NoRunnable = NoRunnable
  MinThreads = 1
  MaxThreads = 1
  Callers = {c1}
  NoCaller = NoCaller
  Enterers = {e1}
  Users = {u1}
  Descriptors <- OneDescriptor
  FDLimits <- OneLimit
  FileCount = 1
  Numbers <- OneDescriptor
  MaxFdsInPool = 1
  Keys = {1}
  Values = {1}
  TopSizes = {1}
  GridCases <- OneGrid
  NumBuckets = 3
  GridLatencies = {1}
  RelCases <- AccidentRelations
PROPERTY AccidentNoted
CHECK_DEADLOCK FALSE
