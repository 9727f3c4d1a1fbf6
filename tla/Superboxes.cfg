\* Superboxes: three applications, two of which share their boxes, stopped by tuples written.
SPECIFICATION Spec
CONSTANTS
  NoBox = NoBox
  Nobody = Nobody
  NoQE <- NoElement
  Stream = Stream
  Workers = {w1, w2}
  Boxes <- ThreeBoxes
  Arcs <- ThreeArcs
  SrcId <- ThreeSrcId
  DestId <- ThreeDestId
  InputQueueIds <- ThreeInputs
  OutputQueueIds <- ThreeOutputs
  NumMessages <- ThreeMessages
  WinSize <- ThreeWinSize
  StopType = "TUPLES_WRITTEN_TO_MEMORY"
  NumToWrite = 2
  Policy = "SLOPE_SLACK_TYPE"
  BeqSizeLimit = 2
  TrainPercent = 100
  NumToFind = 10
  AppV <- ThreeApps
  BoxCost <- ThreeCost
  Trees <- LoadedTrees
  Traversals <- LoadedTraversals
  AppPlans <- ThreePlans
  Profiles <- ThreeProfiles
INVARIANTS
  SuperboxExclusion
  AbortsExplained
  InnerArcsEmpty
  BuffersSuffice
PROPERTIES
  ImplementsStreams
SYMMETRY Symmetry
CHECK_DEADLOCK FALSE
