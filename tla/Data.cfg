SPECIFICATION DataSpec
CONSTANTS
  Elem = {e1, e2}
  Garbage = garbage
  Size = 3
  CvSize = 4
  CvX <- Four
  AngCircle = 8
  AngJump = 5
  AngGlitch = 1
  AngBound = 12
  AngMaxOps = 4
  AvgN = 3
  AvgElem <- Readings
  AvgMaxIn = 7
  AdsRanges = {1, 2}
  AdsQSize = 3
  AdsMaxReq = 5
  RtdFaults = {1, 2}
  RtdHalf = 2
  RtdQSize = 2
  RtdMaxReq = 4
  MnIds = {1}
  MnPayloads <- SmallPayloads
  MnSums <- SmallSums
  MnFrameSize = 18
  MnReqSize = 18
  MnQSize = 1
  MnChunks = {7, 40}
  MnMaxFrames = 3
  MnMaxFaults = 1
  PxQSize = 2
  PxSize = 2
  PxRoom = 3
  PxMaxTx = 3
  PxMaxRx = 3
  StrQSize = 2
  StrMaxIn = 6
  Linelen = 2
  LinQSize = 1
  LinLens = {0, 2, 3}
  LinMaxMsg = 3
  LinMaxWire = 2
  SerLEN = 2
  SerIds = {1, 2, 3}
  SerHandled = {1, 2}
  SerSizes = {0, 1, 2, 3, 4}
  SerMaxSeries = 3
INVARIANTS IndicesAgree CurveFound SumsFollow SensorsRead OnlySentFrames OneFrameLost PosixInOrder SameForBoth LinesArrive SeriesWhole
PROPERTY Implements
CHECK_DEADLOCK FALSE
