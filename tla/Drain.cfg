\* Liveness on the chain, round robin, with no stop condition.
SPECIFICATION FairSpec
CONSTANTS
  NoBox = NoBox
  Nobody = Nobody
  NoQE = NoQE
  Stream = Stream
  Workers = {w1, w2}
  Boxes <- ChainBoxes
  Arcs <- ChainArcs
  SrcId <- ChainSrcId
  DestId <- ChainDestId
  InputQueueIds <- ChainInputs
  OutputQueueIds <- ChainOutputs
  NumMessages <- ChainMessages
  WinSize <- ChainWinSize
  StopType = "STOP_IGNORE"
  NumToWrite = 0
  Policy = "BOX_RR_TYPE"
  BeqSizeLimit = 10
  TrainPercent = 100
  NumToFind = 10
INVARIANT IInv
PROPERTY Drained
