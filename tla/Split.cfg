\* Safety on the split network: slopes, half trains, stopped by time.
SPECIFICATION Spec
CONSTANTS
  NoBox = NoBox
  Nobody = Nobody
  NoQE = NoQE
  Stream = Stream
  Workers = {w1, w2}
  Boxes <- SplitBoxes
  Arcs <- SplitArcs
  SrcId <- SplitSrcId
  DestId <- SplitDestId
  InputQueueIds <- SplitInputs
  OutputQueueIds <- SplitOutputs
  NumMessages <- SplitMessages
  WinSize <- SplitWinSize
  StopType = "TIME_STOP"
  NumToWrite = 0
  Policy = "SLOPE_SLACK_TYPE"
  BeqSizeLimit = 10
  TrainPercent = 70
  NumToFind = 10
INVARIANTS
  IInv
  BoxExclusion
  CountsConsistent
  PinsAvailable
  NoEmptyRun
  WorkSetComplete
  AnnouncedAvailable
  ShutdownClean
PROPERTY ImplementsStreams
SYMMETRY Symmetry
CHECK_DEADLOCK FALSE
