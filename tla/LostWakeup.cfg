\* A worker that is about to wait misses the broadcast of the shutdown.
SPECIFICATION FairSpec
CONSTANTS
  NoBox = NoBox
  Nobody = Nobody
  NoQE = NoQE
  Stream = Stream
  Workers = {w1}
  Boxes <- UnionBoxes
  Arcs <- UnionArcs
  SrcId <- UnionSrcId
  DestId <- UnionDestId
  InputQueueIds <- UnionInputs
  OutputQueueIds <- UnionOutputs
  NumMessages <- UnionMessages
  WinSize <- UnionWinSize
  StopType = "TIME_STOP"
  NumToWrite = 0
  Policy = "BOX_RR_TYPE"
  BeqSizeLimit = 10
  TrainPercent = 100
  NumToFind = 10
PROPERTY ShutdownCompletes
CHECK_DEADLOCK FALSE
