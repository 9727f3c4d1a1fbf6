\* The box work set on the union network: an arrival races a last removal.
SPECIFICATION Spec
CONSTANTS
  NoBox = NoBox
  Nobody = Nobody
  NoQE = NoQE
  Stream = Stream
  Workers = {w1, w2}
  Boxes <- UnionBoxes
  Arcs <- UnionArcs
  SrcId <- UnionSrcId
  DestId <- UnionDestId
  InputQueueIds <- UnionInputs
  OutputQueueIds <- UnionOutputs
  NumMessages <- UnionMessages
  WinSize <- UnionWinSize
  StopType = "STOP_IGNORE"
  NumToWrite = 0
  Policy = "BOX_RR_TYPE"
  BeqSizeLimit = 10
  TrainPercent = 100
  NumToFind = 10
INVARIANT WorkSetComplete
