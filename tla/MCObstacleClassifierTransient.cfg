CONSTANTS
  Labels <- MCLabels
  Ped = "ped"
  Bicycle = "bike"
  Unknown = "unknown"
  InsideTypes <- MCLabels
  OutsideTypes <- MCOutsideTypes
  MaxLatMargin = 1
  MaxLatMarginUnknown <- MCMaxLatMarginUnknown
  HalfWidth = 1
  EgoMaxDist = 3
  Horizon = 2
  PedDecel = 1
  BicycleDecel = 0
  OutsideMaxLatVel = 3
  MinBehaviorStopMargin = 1
  DistToBumper = 1
  MinVelToReach = 1
  CrossingTimeMargin = 1
  PredHorizon = 10
  ObjInputs <- MCObjInputs
  None = None
SPECIFICATION Spec
INVARIANT TransientClearsBeforeArrival
